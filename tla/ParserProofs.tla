---------------------------- MODULE ParserProofs ----------------------------
(***************************************************************************)
(* Theorems about parse().                                                 *)
(***************************************************************************)
EXTENDS Parser, StackLemmas, FiniteSetTheorems, WellFoundedInduction

----------------------------------------------------------------------------
(* Flattening, by induction: of the indices where a claim fails, take the  *)
(* least.                                                                  *)

Smaller == {ss \in Nat \X Nat : ss[1] < ss[2]}

LEMMA Least ==
  ASSUME NEW T \in SUBSET Nat, T # {}
  PROVE  \E x \in T : \A y \in T : x <= y
<1>1. IsWellFoundedOn(Smaller, Nat)
  BY NatLessThanWellFounded DEF Smaller, OpToRel
<1>2. PICK x \in T : \A y \in T : <<y, x>> \notin Smaller
  BY <1>1, WFMin
<1>3. ASSUME NEW y \in T  PROVE x <= y
  <2>1. ~(y < x)
    BY <1>2 DEF Smaller
  <2> QED BY <2>1
<1> QED BY <1>3

\* The n-th stage of flattening.
Stage(s, f, i) == IF i = 1 THEN s[i] ELSE f[i - 1] \o s[i]

LEMMA StagesExist ==
  ASSUME NEW S, NEW s \in Seq(Seq(S))
  PROVE  \E f : f = [i \in 1..Len(s) |-> Stage(s, f, i)]
<1> DEFINE Good(n) == \E f : f = [i \in 1..n |-> Stage(s, f, i)]
           Bad == {n \in Nat : ~Good(n)}
<1>1. Good(0)
  <2>1. <<>> = [i \in 1..0 |-> Stage(s, <<>>, i)]
    OBVIOUS
  <2> QED BY <2>1
<1>2. ASSUME NEW n \in Nat, Good(n)  PROVE Good(n + 1)
  <2>1. PICK f : f = [i \in 1..n |-> Stage(s, f, i)]
    BY <1>2
  <2> DEFINE g == [i \in 1..n + 1 |-> IF i <= n THEN f[i] ELSE Stage(s, f, i)]
  <2>2. ASSUME NEW i \in 1..n + 1  PROVE g[i] = Stage(s, g, i)
    <3>1. i = 1 \/ (i - 1 \in 1..n /\ g[i - 1] = f[i - 1])
      OBVIOUS
    <3>2. Stage(s, g, i) = Stage(s, f, i)
      BY <3>1 DEF Stage
    <3>3. CASE i <= n
      <4>1. i \in 1..n
        BY <3>3
      <4>2. f[i] = Stage(s, f, i)
        BY <2>1, <4>1, Zenon
      <4> QED BY <3>2, <3>3, <4>2
    <3>4. CASE ~(i <= n)
      BY <3>2, <3>4
    <3> QED BY <3>3, <3>4
  <2>3. g = [i \in 1..n + 1 |-> g[i]]
    OBVIOUS
  <2> HIDE DEF g
  <2>4. g = [i \in 1..n + 1 |-> Stage(s, g, i)]
    BY <2>2, <2>3, Zenon
  <2> QED BY <2>4
<1> HIDE DEF Good
<1>3. ASSUME NEW n \in Bad  PROVE FALSE
  <2>1. Bad \in SUBSET Nat /\ Bad # {}
    BY <1>3
  <2>2. PICK m \in Bad : \A k \in Bad : m <= k
    BY <2>1, Least
  <2>3. m \in Nat /\ m # 0
    BY <1>1
  <2>4. m - 1 \in Nat /\ m - 1 \notin Bad
    BY <2>2, <2>3
  <2>5. Good((m - 1) + 1)
    BY <1>2, <2>4
  <2> QED BY <2>3, <2>5
<1>4. Len(s) \in Nat /\ Len(s) \notin Bad
  BY <1>3
<1>5. Good(Len(s))
  BY <1>4
<1> QED BY <1>5 DEF Good

LEMMA StagesTyped ==
  ASSUME NEW S, NEW s \in Seq(Seq(S)), NEW f, f = [i \in 1..Len(s) |-> Stage(s, f, i)]
  PROVE  \A i \in 1..Len(s) : f[i] \in Seq(S)
<1> DEFINE Bad == {i \in 1..Len(s) : f[i] \notin Seq(S)}
<1>1. ASSUME NEW n \in Bad  PROVE FALSE
  <2>1. Bad \in SUBSET Nat /\ Bad # {}
    <3>1. 1..Len(s) \in SUBSET Nat
      OBVIOUS
    <3>2. Bad \subseteq 1..Len(s) /\ n \in Bad
      OBVIOUS
    <3> HIDE DEF Bad
    <3> QED BY <3>1, <3>2, Zenon
  <2>2. PICK m \in Bad : \A k \in Bad : m <= k
    BY <2>1, Least
  <2>3. m \in 1..Len(s) /\ s[m] \in Seq(S) /\ f[m] = Stage(s, f, m)
    <3>1. m \in 1..Len(s) /\ s[m] \in Seq(S)
      OBVIOUS
    <3> QED BY <3>1, Zenon
  <2>4. CASE m = 1
    BY <2>3, <2>4 DEF Stage
  <2>5. CASE m # 1
    <3>1. m - 1 \in 1..Len(s) /\ m - 1 \notin Bad
      BY <2>2, <2>3, <2>5
    <3>2. f[m - 1] \in Seq(S)
      BY <3>1
    <3>3. f[m] = f[m - 1] \o s[m]
      BY <2>3, <2>5 DEF Stage
    <3>4. f[m - 1] \o s[m] \in Seq(S)
      BY <2>3, <3>2, ConcatProperties, Zenon
    <3> QED BY <3>3, <3>4
  <2> QED BY <2>4, <2>5
<1> QED BY <1>1

\* Flattening sequences over a set gives a sequence over that set.
LEMMA Flattened ==
  ASSUME NEW S, NEW s \in Seq(Seq(S))
  PROVE  FlattenSeq(s) \in Seq(S)
<1> DEFINE g == CHOOSE f : f = [i \in 1..Len(s) |-> Stage(s, f, i)]
<1>1. FlattenSeq(s) = IF Len(s) = 0 THEN s ELSE g[Len(s)]
  BY DEF FlattenSeq, Stage
<1>2. g = [i \in 1..Len(s) |-> Stage(s, g, i)]
  BY StagesExist
<1> HIDE DEF g
<1>3. \A i \in 1..Len(s) : g[i] \in Seq(S)
  BY <1>2, StagesTyped
<1>4. Len(s) = 0 => s \in Seq(S)
  OBVIOUS
<1> QED BY <1>1, <1>3, <1>4

----------------------------------------------------------------------------
(* The inductive invariant of the walk.                                    *)

FieldAt(table, fr) == Schema[table[fr.msg].type][fr.i]
ItemsAt(table, fr) == table[fr.msg].vals[fr.i]
KnownAt(table, fr) == Known[table[fr.msg].type]

\* An activation stands at a field that the reader knows or behind the last,
\* and fills an array only for a repeated one, up to its last item.
Fits(table, fr) ==
  /\ fr.i <= KnownAt(table, fr) + 1
  /\ fr.list # None =>
       /\ fr.i <= KnownAt(table, fr) /\ FieldAt(table, fr).label = "repeated"
       /\ fr.j \in 1..Len(ItemsAt(table, fr)) + 1

\* One that has called another stands at the item it called it for.
Waits(table, fr) ==
  /\ fr.i <= KnownAt(table, fr) /\ FieldAt(table, fr).kind = "message"
  /\ fr.list # None => fr.j <= Len(ItemsAt(table, fr))
  /\ fr.list = None => FieldAt(table, fr).label # "repeated"

FramesFit ==
  \A k \in DOMAIN frames :
    Fits(msgs, frames[k]) /\ (k < Len(frames) => Waits(msgs, frames[k]))

\* The answer that a walk in progress will fill in.
Awaited == frames # <<>> => replies # <<>> /\ replies[Len(replies)].value = Pending

IInv == TypeOK /\ msgs \in Tables /\ FramesFit /\ Awaited /\ Released

----------------------------------------------------------------------------
(* The heap.                                                               *)

LEMMA BlankTyped == Blank \in Contents
<1>1. [n \in Names |-> Undefined] \in [Names -> Slot]
  BY DEF Undefined, Slot, Value
<1> QED BY <1>1 DEF Blank, Contents

LEMMA ListingTyped ==
  ASSUME NEW elems \in Seq(Slot)
  PROVE  Listing(elems) \in Contents /\ Listing(elems).elems = elems
BY BlankTyped DEF Listing, Contents

LEMMA NamesOfFields ==
  ASSUME NEW t \in Types
  PROVE  /\ Schema[t] \in Seq(FieldDescriptor) /\ Known[t] \in 0..Len(Schema[t])
         /\ \A n \in DOMAIN Schema[t] : Schema[t][n].name \in Names
<1>1. Schema[t] \in Seq(FieldDescriptor)
  BY SchemaAssumption
<1>2. \A n \in DOMAIN Schema[t] : Schema[t][n] \in FieldDescriptor
  BY <1>1
<1> QED BY <1>1, <1>2, ReaderAssumption DEF FieldDescriptor

LEMMA PropSet ==
  ASSUME NEW h \in Heap, NEW o \in Objs, NEW n \in Names, NEW v \in Slot
  PROVE  LET g == [h EXCEPT ![o].props[n] = v]
         IN /\ g \in Heap /\ \A x \in Objs : x # o => g[x] = h[x]
            /\ g[o].elems = h[o].elems /\ g[o].props[n] = v
            /\ \A m \in Names : m # n => g[o].props[m] = h[o].props[m]
<1>1. h[o] \in Contents /\ h[o].props \in [Names -> Slot] /\ h[o].elems \in Seq(Slot)
  BY DEF Heap, Contents
<1>2. [h[o].props EXCEPT ![n] = v] \in [Names -> Slot]
  BY <1>1
<1> QED BY <1>1, <1>2 DEF Heap, Contents

LEMMA ElemSet ==
  ASSUME NEW h \in Heap, NEW o \in Objs, NEW j \in Nat, NEW v \in Slot
  PROVE  LET g == [h EXCEPT ![o].elems[j] = v]
         IN /\ g \in Heap /\ \A x \in Objs : x # o => g[x] = h[x]
            /\ g[o].props = h[o].props /\ DOMAIN g[o].elems = DOMAIN h[o].elems
            /\ j \in DOMAIN h[o].elems => g[o].elems[j] = v
            /\ \A k \in DOMAIN h[o].elems : k # j => g[o].elems[k] = h[o].elems[k]
<1>1. h[o] \in Contents /\ h[o].props \in [Names -> Slot] /\ h[o].elems \in Seq(Slot)
  BY DEF Heap, Contents
<1>2. PICK e : e = h[o].elems
  OBVIOUS
<1>3. /\ [e EXCEPT ![j] = v] \in Seq(Slot) /\ DOMAIN [e EXCEPT ![j] = v] = DOMAIN e
      /\ j \in DOMAIN e => [e EXCEPT ![j] = v][j] = v
      /\ \A k \in DOMAIN e : k # j => [e EXCEPT ![j] = v][k] = e[k]
  <2>1. e \in [1..Len(e) -> Slot] /\ Len(e) \in Nat
    BY <1>1, <1>2
  <2>2. [e EXCEPT ![j] = v] \in [1..Len(e) -> Slot]
    BY <2>1
  <2>3. [e EXCEPT ![j] = v] \in Seq(Slot)
    BY <2>1, <2>2, SeqDef
  <2> QED BY <2>1, <2>3
<1>4. PICK d : d = [e EXCEPT ![j] = v]
  OBVIOUS
<1>5. [h EXCEPT ![o].elems[j] = v] = [h EXCEPT ![o] = [@ EXCEPT !.elems = d]]
  BY <1>2, <1>4
<1>6. [h[o] EXCEPT !.elems = d] = [props |-> h[o].props, elems |-> d]
  BY <1>1 DEF Contents
<1>7. [props |-> h[o].props, elems |-> d] \in Contents
  BY <1>1, <1>3, <1>4 DEF Contents
<1> QED BY <1>2, <1>3, <1>4, <1>5, <1>6, <1>7 DEF Heap

LEMMA Allocated ==
  ASSUME NEW h \in Heap, used \in 0..Len(Arena), NEW c \in Seq(Contents), Room(Len(c))
  PROVE  /\ Allocate(h, c) \in Heap
         /\ \A k \in DOMAIN c : used + k \in DOMAIN Arena /\ Arena[used + k] \in Objs
                                /\ Allocate(h, c)[Arena[used + k]] = c[k]
         /\ \A o \in Objs : (\A k \in DOMAIN c : o # Arena[used + k]) => Allocate(h, c)[o] = h[o]
<1>1. /\ Arena \in Seq(Objs) /\ Len(Arena) \in Nat /\ used \in Nat /\ Len(c) \in Nat
      /\ \A k \in DOMAIN c : k \in Nat /\ used + k \in DOMAIN Arena /\ Arena[used + k] \in Objs
  BY ArenaAssumption DEF Room
<1>2. \A j, k \in DOMAIN c : Arena[used + j] = Arena[used + k] => j = k
  BY <1>1, ArenaAssumption DEF IsInjective
<1>3. \A k \in DOMAIN c : c[k] \in Contents
  OBVIOUS
<1>4. ASSUME NEW k \in DOMAIN c  PROVE Allocate(h, c)[Arena[used + k]] = c[k]
  <2> DEFINE o == Arena[used + k]
             p == CHOOSE x \in DOMAIN c : o = Arena[used + x]
  <2>1. o \in Objs
    BY <1>1
  <2>2. p \in DOMAIN c /\ o = Arena[used + p]
    OBVIOUS
  <2>3. p = k
    BY <1>2, <2>2, Zenon
  <2>4. Allocate(h, c)[o] = c[p]
    BY <2>1 DEF Allocate
  <2> QED BY <2>3, <2>4
<1>5. ASSUME NEW o \in Objs, \A k \in DOMAIN c : o # Arena[used + k]
      PROVE  Allocate(h, c)[o] = h[o]
  BY <1>5 DEF Allocate
<1>6. \A o \in Objs : Allocate(h, c)[o] \in Contents
  <2>1. ASSUME NEW o \in Objs  PROVE Allocate(h, c)[o] \in Contents
    <3>1. CASE \A k \in DOMAIN c : o # Arena[used + k]
      BY <1>5, <3>1 DEF Heap
    <3>2. CASE \E k \in DOMAIN c : o = Arena[used + k]
      BY <1>3, <1>4, <3>2
    <3> QED BY <3>1, <3>2
  <2> QED BY <2>1
<1>7. Allocate(h, c) = [o \in Objs |-> Allocate(h, c)[o]]
  BY DEF Allocate
<1>8. Allocate(h, c) \in Heap
  <2>1. ASSUME NEW g, g = [o \in Objs |-> g[o]], \A o \in Objs : g[o] \in Contents
        PROVE  g \in Heap
    BY <2>1 DEF Heap
  <2> HIDE DEF Allocate
  <2> QED BY <1>6, <1>7, <2>1
<1> QED BY <1>1, <1>4, <1>5, <1>8

----------------------------------------------------------------------------
(* Activations.                                                            *)

LEMMA InTable ==
  ASSUME msgs \in Tables, NEW m \in DOMAIN msgs
  PROVE  /\ msgs \in Seq(Message) /\ msgs[m].type \in Types
         /\ Len(msgs[m].vals) = Len(Schema[msgs[m].type])
         /\ msgs[m].vals \in Seq(Seq(Item))
         /\ \A n \in DOMAIN Schema[msgs[m].type] :
              msgs[m].vals[n] \in Seq(ItemsOf(Schema[msgs[m].type][n], msgs))
<1>1. msgs \in Seq(Message) /\ WellFormed(msgs)
  BY TableAssumption
<1>2. msgs[m] \in Message
  BY <1>1
<1> QED BY <1>1, <1>2 DEF WellFormed, Message

LEMMA PartFacts ==
  ASSUME msgs \in Tables, NEW fr \in Part
  PROVE  /\ fr.msg \in DOMAIN msgs /\ msgs[fr.msg].type \in Types
         /\ fr.ret \in Objs /\ fr.i \in Nat \ {0} /\ fr.j \in Nat
         /\ fr.list \in Objs \cup {None} /\ None \notin Objs
         /\ KnownAt(msgs, fr) \in 0..Len(Schema[msgs[fr.msg].type])
         /\ FieldOf(fr) = FieldAt(msgs, fr) /\ Items(fr) = ItemsAt(msgs, fr)
         /\ InList(fr) <=> fr.list # None
         /\ fr.i <= KnownAt(msgs, fr) =>
              /\ fr.i \in DOMAIN Schema[msgs[fr.msg].type]
              /\ FieldOf(fr) \in FieldDescriptor /\ FieldOf(fr).name \in Names
              /\ Items(fr) \in Seq(ItemsOf(FieldOf(fr), msgs))
<1>1. fr.msg \in DOMAIN msgs /\ msgs[fr.msg].type \in Types
  BY InTable DEF Part
<1>2. /\ fr.ret \in Objs /\ fr.i \in Nat \ {0} /\ fr.j \in Nat
      /\ fr.list \in Objs \cup {None} /\ None \notin Objs
  BY PayloadAssumption DEF Part
<1>3. KnownAt(msgs, fr) \in 0..Len(Schema[msgs[fr.msg].type])
  BY <1>1, NamesOfFields DEF KnownAt
<1>4. ASSUME fr.i <= KnownAt(msgs, fr)
      PROVE  /\ fr.i \in DOMAIN Schema[msgs[fr.msg].type]
             /\ FieldOf(fr) \in FieldDescriptor /\ FieldOf(fr).name \in Names
             /\ Items(fr) \in Seq(ItemsOf(FieldOf(fr), msgs))
  <2>1. PICK fields : fields = Schema[msgs[fr.msg].type]
    OBVIOUS
  <2>2. fields \in Seq(FieldDescriptor) /\ \A n \in DOMAIN fields : fields[n].name \in Names
    BY <1>1, <2>1, NamesOfFields
  <2>3. fr.i \in DOMAIN fields
    BY <1>2, <1>3, <1>4, <2>1, <2>2
  <2>4. msgs[fr.msg].vals[fr.i] \in Seq(ItemsOf(fields[fr.i], msgs))
    BY <1>1, <2>1, <2>3, InTable
  <2> QED BY <2>1, <2>2, <2>3, <2>4 DEF FieldOf, Items
<1> QED BY <1>1, <1>2, <1>3, <1>4 DEF FieldOf, FieldAt, Items, ItemsAt, InList

\* The innermost activation.
LEMMA FrFacts ==
  ASSUME IInv, frames # <<>>
  PROVE  /\ Len(frames) \in Nat \ {0} /\ DOMAIN frames = 1..Len(frames)
         /\ Len(frames) \in DOMAIN frames /\ Fr = frames[Len(frames)]
         /\ Fr \in Part /\ Fits(msgs, Fr) /\ frames \in Seq(Part)
<1>1. frames \in Seq(Part)
  BY DEF IInv, TypeOK
<1> QED BY <1>1, LastOfStack DEF IInv, FramesFit, Fr

\* It stands at an item of a field.
AtItem ==
  /\ InParse
  /\ InList(Fr) => Fr.j \in DOMAIN Items(Fr)
  /\ ~InList(Fr) => FieldOf(Fr).label # "repeated" /\ Items(Fr) # <<>>

LEMMA AtItemFacts ==
  ASSUME IInv, AtItem
  PROVE  /\ frames # <<>> /\ Fr \in Part /\ Fr.i <= KnownAt(msgs, Fr)
         /\ FieldOf(Fr) \in FieldDescriptor /\ FieldOf(Fr).name \in Names
         /\ Here(Fr) \in ItemsOf(FieldOf(Fr), msgs)
         /\ InList(Fr) => Fr.j \in 1..Len(Items(Fr))
<1>1. frames # <<>> /\ Fr \in Part /\ Fits(msgs, Fr) /\ Fr.i <= KnownAt(msgs, Fr)
  BY FrFacts DEF AtItem, InParse, KnownAt
<1>2. /\ FieldOf(Fr) \in FieldDescriptor /\ FieldOf(Fr).name \in Names
      /\ Items(Fr) \in Seq(ItemsOf(FieldOf(Fr), msgs))
  BY <1>1, PartFacts DEF IInv
<1>3. PICK S : S = ItemsOf(FieldOf(Fr), msgs)
  OBVIOUS
<1>4. PICK s : s = Items(Fr)
  OBVIOUS
<1>5. s \in Seq(S)
  BY <1>2, <1>3, <1>4
<1>6. InList(Fr) => Fr.j \in 1..Len(s)
  BY <1>4, <1>5 DEF AtItem
<1>7. Here(Fr) \in S
  BY <1>4, <1>5, <1>6 DEF AtItem, Here
<1> QED BY <1>1, <1>2, <1>3, <1>4, <1>6, <1>7

LEMMA SingularAtItem ==
  ASSUME IInv, ParseSingular
  PROVE  AtItem /\ ~InList(Fr) /\ (SetScalar \/ SetBytes \/ EnterMessage)
<1>1. frames # <<>> /\ InParse /\ FieldOf(Fr).label # "repeated"
  BY DEF ParseSingular, InParse
<1>2. Fr \in Part /\ Fits(msgs, Fr)
  BY <1>1, FrFacts
<1>3. ~InList(Fr)
  BY <1>1, <1>2, PartFacts DEF Fits, IInv
<1> QED BY <1>1, <1>3 DEF AtItem, ParseSingular

LEMMA ElementAtItem ==
  ASSUME IInv, ParseElement
  PROVE  AtItem /\ InList(Fr) /\ (SetScalar \/ SetBytes \/ EnterMessage)
<1>1. frames # <<>> /\ InParse /\ InList(Fr) /\ Fr.j <= Len(Items(Fr)) /\ Fr.i <= KnownAt(msgs, Fr)
  BY DEF ParseElement, InParse, KnownAt
<1>2. Fr \in Part /\ Fits(msgs, Fr)
  BY <1>1, FrFacts
<1>3. Items(Fr) \in Seq(ItemsOf(FieldOf(Fr), msgs)) /\ Fr.j \in 1..Len(Items(Fr)) + 1
  BY <1>1, <1>2, PartFacts DEF Fits, IInv
<1>4. PICK s, S : s = Items(Fr) /\ s \in Seq(S)
  BY <1>3
<1>5. Fr.j \in DOMAIN s
  BY <1>1, <1>3, <1>4
<1> QED BY <1>1, <1>4, <1>5 DEF AtItem, ParseElement

\* Past an item, an activation still fits.
LEMMA OnwardFits ==
  ASSUME msgs \in Tables, NEW fr \in Part, Fits(msgs, fr), fr.i <= KnownAt(msgs, fr),
         fr.list # None => fr.j <= Len(ItemsAt(msgs, fr))
  PROVE  /\ Onward(fr) \in Part /\ Fits(msgs, Onward(fr))
         /\ Onward(fr).msg = fr.msg /\ Onward(fr).ret = fr.ret /\ Onward(fr).list = fr.list
         /\ InList(fr) => Onward(fr).i = fr.i /\ Onward(fr).j = fr.j + 1
         /\ ~InList(fr) => Onward(fr).i = fr.i + 1
<1>1. /\ fr.i \in Nat \ {0} /\ fr.j \in Nat /\ KnownAt(msgs, fr) \in Nat
      /\ InList(fr) <=> fr.list # None
  BY PartFacts
<1>2. CASE InList(fr)
  <2>1. Onward(fr) = [fr EXCEPT !.j = fr.j + 1]
    BY <1>2 DEF Onward
  <2>2. Onward(fr) \in Part /\ Onward(fr).msg = fr.msg /\ Onward(fr).i = fr.i
        /\ Onward(fr).list = fr.list /\ Onward(fr).j = fr.j + 1 /\ Onward(fr).ret = fr.ret
    BY <1>1, <2>1 DEF Part
  <2>3. ItemsAt(msgs, fr) \in Seq(ItemsOf(FieldOf(fr), msgs))
    BY PartFacts
  <2>4. Len(ItemsAt(msgs, fr)) \in Nat
    BY <2>3
  <2>5. fr.j + 1 \in 1..Len(ItemsAt(msgs, fr)) + 1
    BY <1>1, <1>2, <2>4
  <2> QED BY <1>1, <1>2, <2>2, <2>5 DEF Fits, KnownAt, FieldAt, ItemsAt
<1>3. CASE ~InList(fr)
  <2>1. Onward(fr) = [fr EXCEPT !.i = fr.i + 1]
    BY <1>3 DEF Onward
  <2>2. Onward(fr) \in Part /\ Onward(fr).msg = fr.msg /\ Onward(fr).i = fr.i + 1
        /\ Onward(fr).list = fr.list /\ fr.list = None /\ Onward(fr).ret = fr.ret
    BY <1>1, <1>3, <2>1 DEF Part
  <2> QED BY <1>1, <1>3, <2>2 DEF Fits, KnownAt
<1> QED BY <1>2, <1>3

----------------------------------------------------------------------------
(* Shapes of steps.                                                        *)

\* What the frames, the answers and the count of messages owe to the invariant.
ControlOK ==
  /\ msgs \in Tables /\ msgs \in Seq(Message) /\ frames \in Seq(Part)
  /\ replies \in Seq([call : Call, value : Value, exc : BOOLEAN])
  /\ FramesFit /\ Awaited /\ Released /\ held \in Nat
DataOK == heap \in Heap /\ used \in 0..Len(Arena)

LEMMA Halves == IInv <=> ControlOK /\ DataOK
<1>1. msgs \in Tables => msgs \in Seq(Message)
  BY TableAssumption
<1> QED BY <1>1 DEF IInv, TypeOK, ControlOK, DataOK

LEMMA Together ==
  ASSUME ControlOK', heap' \in Heap, used' \in 0..Len(Arena)
  PROVE  IInv'
BY DEF IInv, TypeOK, ControlOK

LEMMA SameTable ==
  ASSUME msgs' = msgs
  PROVE  Part' = Part /\ Call' = Call
BY DEF Part, Call

LEMMA Held01 ==
  ASSUME IInv
  PROVE  held = IF frames = <<>> THEN 0 ELSE 1
BY DEF IInv, Released

WithTop(s, x) == [s EXCEPT ![Len(s)] = x]

\* t is s with x as its top.
Topped(t, s, x, S) ==
  /\ t \in Seq(S) /\ t # <<>> /\ Len(t) = Len(s) /\ DOMAIN t = 1..Len(s)
  /\ t[Len(s)] = x /\ \A k \in 1..Len(s) - 1 : t[k] = s[k]

LEMMA TopReplaced ==
  ASSUME NEW S, NEW s \in Seq(S), s # <<>>, NEW x \in S
  PROVE  Topped(WithTop(s, x), s, x, S)
BY ReplaceTop DEF WithTop, Topped

\* The innermost activation goes on.
LEMMA Replaced ==
  ASSUME IInv, frames # <<>>, NEW fr \in Part, Fits(msgs, fr),
         NEW n, n = Len(frames), frames' = WithTop(frames, fr),
         UNCHANGED <<msgs, held, replies>>
  PROVE  /\ ControlOK'
         /\ Len(frames') = n /\ DOMAIN frames' = 1..n /\ DOMAIN frames = 1..n
         /\ frames'[n] = fr /\ frames[n] = Fr /\ n \in Nat \ {0}
         /\ \A k \in 1..n - 1 : frames'[k] = frames[k]
<1>1. n \in Nat \ {0} /\ DOMAIN frames = 1..n /\ frames \in Seq(Part) /\ Fr = frames[n]
  BY FrFacts
<1>2. /\ frames' \in Seq(Part) /\ Len(frames') = n /\ DOMAIN frames' = 1..n /\ frames' # <<>>
      /\ frames'[n] = fr /\ \A k \in 1..n - 1 : frames'[k] = frames[k]
  <2>1. Topped(frames', frames, fr, Part)
    BY <1>1, TopReplaced, Zenon
  <2> QED BY <2>1, <1>1 DEF Topped
<1>3. FramesFit'
  <2>1. ASSUME NEW k \in DOMAIN frames'
        PROVE  Fits(msgs, frames'[k]) /\ (k < Len(frames') => Waits(msgs, frames'[k]))
    <3>1. CASE k = n
      BY <1>1, <1>2, <3>1
    <3>2. CASE k # n
      <4>1. k \in DOMAIN frames /\ k < Len(frames) /\ frames'[k] = frames[k]
        BY <1>1, <1>2, <3>2
      <4> QED BY <4>1 DEF IInv, FramesFit
    <3> QED BY <3>1, <3>2
  <2> QED BY <2>1 DEF FramesFit
<1> QED BY <1>1, <1>2, <1>3, SameTable, Halves DEF ControlOK, Awaited, Released, IInv

\* It calls another one for the item that it stands at.
LEMMA Called ==
  ASSUME IInv, frames # <<>>, Waits(msgs, Fr), NEW fr \in Part, Fits(msgs, fr),
         frames' = Append(frames, fr), UNCHANGED <<msgs, held, replies>>
  PROVE  /\ ControlOK'
         /\ Len(frames') = Len(frames) + 1 /\ DOMAIN frames' = 1..Len(frames) + 1
         /\ frames'[Len(frames) + 1] = fr
         /\ \A k \in 1..Len(frames) : frames'[k] = frames[k]
<1>1. /\ Len(frames) \in Nat \ {0} /\ DOMAIN frames = 1..Len(frames) /\ frames \in Seq(Part)
      /\ Fr = frames[Len(frames)]
  BY FrFacts
<1>2. /\ frames' \in Seq(Part) /\ Len(frames') = Len(frames) + 1
      /\ DOMAIN frames' = 1..Len(frames) + 1 /\ frames'[Len(frames) + 1] = fr
      /\ \A k \in 1..Len(frames) : frames'[k] = frames[k]
  BY <1>1, Push
<1>3. frames' # <<>>
  BY <1>1, <1>2
<1>4. FramesFit'
  <2>1. ASSUME NEW k \in DOMAIN frames'
        PROVE  Fits(msgs, frames'[k]) /\ (k < Len(frames') => Waits(msgs, frames'[k]))
    <3>1. CASE k = Len(frames) + 1
      BY <1>1, <1>2, <3>1
    <3>2. CASE k # Len(frames) + 1
      <4>1. k \in DOMAIN frames /\ frames'[k] = frames[k] /\ (k < Len(frames) \/ k = Len(frames))
        BY <1>1, <1>2, <3>2
      <4>2. k < Len(frames) => Waits(msgs, frames[k])
        BY <4>1 DEF IInv, FramesFit
      <4>3. Waits(msgs, frames[k])
        BY <1>1, <4>1, <4>2
      <4> QED BY <4>1, <4>3 DEF IInv, FramesFit
    <3> QED BY <3>1, <3>2
  <2> QED BY <2>1 DEF FramesFit
<1> QED BY <1>2, <1>3, <1>4, SameTable, Halves DEF ControlOK, Awaited, Released, IInv

\* It returns to the one that called it.
LEMMA CallerFacts ==
  ASSUME IInv, frames # <<>>, NEW rest, rest = Front(frames), rest # <<>>,
         NEW n, n = Len(rest)
  PROVE  /\ rest \in Seq(Part) /\ n = Len(frames) - 1 /\ n \in Nat \ {0}
         /\ n \in 1..Len(frames) - 1
         /\ Last(rest) = frames[n] /\ frames[n] \in Part
         /\ Fits(msgs, frames[n]) /\ Waits(msgs, frames[n])
         /\ \A k \in 1..n : rest[k] = frames[k]
<1>1. Len(frames) \in Nat \ {0} /\ DOMAIN frames = 1..Len(frames) /\ frames \in Seq(Part)
  BY FrFacts
<1>2. rest = Front(frames)
  OBVIOUS
<1>3. /\ rest \in Seq(Part) /\ Len(rest) = Len(frames) - 1
      /\ \A k \in 1..Len(frames) - 1 : rest[k] = frames[k]
  BY <1>1, <1>2, FrontOfStack, Zenon
<1>4. Len(rest) \in Nat \ {0} /\ Last(rest) = rest[Len(rest)] /\ Last(rest) \in Part
  BY <1>2, <1>3, LastOfStack
<1>5. Len(rest) \in DOMAIN frames /\ Len(rest) < Len(frames) /\ Len(rest) \in 1..Len(frames) - 1
  BY <1>1, <1>3, <1>4
<1>6. Fits(msgs, frames[Len(rest)]) /\ Waits(msgs, frames[Len(rest)])
  BY <1>5 DEF IInv, FramesFit
<1> QED BY <1>2, <1>3, <1>4, <1>5, <1>6

LEMMA Returned ==
  ASSUME IInv, frames # <<>>, NEW rest, rest = Front(frames), rest # <<>>,
         NEW n, n = Len(rest),
         frames' = WithTop(rest, Onward(Last(rest))),
         UNCHANGED <<msgs, held, replies>>
  PROVE  /\ ControlOK' /\ n \in Nat \ {0} /\ n = Len(frames) - 1
         /\ Len(frames') = n /\ DOMAIN frames' = 1..n
         /\ frames'[n] = Onward(frames[n]) /\ frames[n] = Last(rest)
         /\ frames[n] \in Part /\ Fits(msgs, frames[n]) /\ Waits(msgs, frames[n])
         /\ \A k \in 1..n - 1 : frames'[k] = frames[k]
<1>1. Len(frames) \in Nat \ {0} /\ DOMAIN frames = 1..Len(frames) /\ frames \in Seq(Part)
  BY FrFacts
<1>2. rest = Front(frames)
  OBVIOUS
<1>3. n = Len(rest)
  OBVIOUS
<1>4. /\ rest \in Seq(Part) /\ n = Len(frames) - 1 /\ n \in Nat \ {0} /\ rest # <<>>
      /\ Last(rest) = frames[n] /\ frames[n] \in Part
      /\ Fits(msgs, frames[n]) /\ Waits(msgs, frames[n])
      /\ \A k \in 1..n : rest[k] = frames[k]
  BY CallerFacts, Zenon
<1>5. PICK up : up = Onward(frames[n])
  OBVIOUS
<1>6. up \in Part /\ Fits(msgs, up)
  BY <1>4, <1>5, OnwardFits DEF IInv, Waits
<1>7. frames' = WithTop(rest, up)
  BY <1>2, <1>4, <1>5
<1>8. /\ frames' \in Seq(Part) /\ Len(frames') = n /\ DOMAIN frames' = 1..n
      /\ frames'[n] = up /\ \A k \in 1..n - 1 : frames'[k] = rest[k]
  <2>1. Topped(frames', rest, up, Part)
    BY <1>3, <1>4, <1>6, <1>7, TopReplaced, Zenon
  <2> QED BY <2>1, <1>3 DEF Topped
<1>9. frames' # <<>> /\ \A k \in 1..n - 1 : frames'[k] = frames[k]
  BY <1>4, <1>8
<1>10. FramesFit'
  <2>1. ASSUME NEW k \in DOMAIN frames'
        PROVE  Fits(msgs, frames'[k]) /\ (k < Len(frames') => Waits(msgs, frames'[k]))
    <3>1. CASE k = n
      BY <1>6, <1>8, <3>1
    <3>2. CASE k # n
      <4>1. k \in DOMAIN frames /\ k < Len(frames) /\ frames'[k] = frames[k]
        BY <1>1, <1>4, <1>8, <1>9, <3>2
      <4> QED BY <4>1, <1>8 DEF IInv, FramesFit
    <3> QED BY <3>1, <3>2
  <2> QED BY <2>1 DEF FramesFit
<1>11. ControlOK'
  BY <1>8, <1>9, <1>10, SameTable, Halves DEF ControlOK, Awaited, Released, IInv
<1> QED BY <1>2, <1>4, <1>5, <1>8, <1>9, <1>11

----------------------------------------------------------------------------
(* What is set.                                                            *)

LEMMA ScalarTyped ==
  ASSUME NEW f \in FieldDescriptor, f.kind \notin {"message", "bytes"},
         NEW e \in ItemsOf(f, msgs)
  PROVE  Scalar(f, e) \in Value /\ ~IsObject(Scalar(f, e))
<1>1. \A d \in Data \cup {Odd} : Str(d) \in Value /\ ~IsObject(Str(d)) /\ Num(d) \in Value /\ ~IsObject(Num(d))
  BY DEF Str, Num, Value, Primitive, IsObject
<1>2. f.kind \in {"number", "bool", "int64", "enum", "string"}
  BY DEF FieldDescriptor, Kinds
<1>3. Held(e) \in Data
  BY ReaderAssumption DEF Held
<1>4. CASE f.kind = "bool"
  <2>1. e[1] \in {0, 1}
    BY <1>4 DEF ItemsOf
  <2>2. Scalar(f, e) = [tag |-> "boolean", ref |-> e[1]]
    BY <1>4 DEF Scalar
  <2> QED BY <2>1, <2>2 DEF Value, Primitive, IsObject
<1>5. CASE f.kind = "enum"
  <2>1. e[1] \in Data
    BY <1>5 DEF ItemsOf
  <2>2. Scalar(f, e) = Str(e[1])
    BY <1>5 DEF Scalar
  <2> QED BY <1>1, <2>1, <2>2
<1>6. CASE f.kind = "string"
  <2>1. e \in Seq(Data \cup {Odd, Junk})
    BY <1>6 DEF ItemsOf
  <2>2. Scalar(f, e) = Str(IF Len(e) = 1 /\ e[1] # Junk THEN Cut[e[1]] ELSE Odd)
    BY <1>6 DEF Scalar
  <2>3. Len(e) = 1 /\ e[1] # Junk => e[1] \in Data \cup {Odd}
    BY <2>1
  <2>4. Len(e) = 1 /\ e[1] # Junk => Cut[e[1]] \in Data \cup {Odd}
    BY <2>3, PayloadAssumption
  <2> QED BY <1>1, <2>2, <2>4
<1>7. CASE f.kind = "int64"
  <2>1. Scalar(f, e) = IF PreserveInt64 THEN Str(Held(e)) ELSE Num(Held(e))
    BY <1>7 DEF Scalar
  <2> QED BY <1>1, <1>3, <2>1
<1>8. CASE f.kind = "number"
  <2>1. Scalar(f, e) = Num(Held(e))
    BY <1>8 DEF Scalar
  <2> QED BY <1>1, <1>3, <2>1
<1> QED BY <1>2, <1>4, <1>5, <1>6, <1>7, <1>8

LEMMA BytesTyped ==
  ASSUME NEW f \in FieldDescriptor, f.kind = "bytes", NEW e \in ItemsOf(f, msgs)
  PROVE  BytesOf(e) \in Seq(Value) /\ \A k \in DOMAIN BytesOf(e) : ~IsObject(BytesOf(e)[k])
<1>1. e \in Seq(Data \cup {Odd, Junk})
  BY DEF ItemsOf
<1>2. \A k \in DOMAIN e : LET v == Num(IF e[k] \in Data THEN e[k] ELSE Odd)
                          IN v \in Value /\ ~IsObject(v)
  BY DEF Num, Value, Primitive, IsObject
<1> QED BY <1>1, <1>2 DEF BytesOf

LEMMA SetTyped ==
  ASSUME msgs \in Tables, NEW fr \in Part, fr.i <= KnownAt(msgs, fr),
         NEW h \in Heap, NEW v \in Value
  PROVE  Set(h, fr, v) \in Heap
<1>1. /\ fr.ret \in Objs /\ fr.j \in Nat /\ FieldOf(fr).name \in Names
      /\ InList(fr) => fr.list \in Objs
  BY PartFacts
<1>2. v \in Slot
  BY DEF Slot
<1>3. CASE InList(fr)
  BY <1>1, <1>2, <1>3, ElemSet DEF Set
<1>4. CASE ~InList(fr)
  BY <1>1, <1>2, <1>4, PropSet DEF Set
<1> QED BY <1>3, <1>4

\* A reference to an object is a value.
LEMMA RefTyped ==
  ASSUME NEW o \in Objs, NEW tag \in {"array", "typed", "object"}
  PROVE  /\ [tag |-> tag, ref |-> o] \in Value /\ [tag |-> tag, ref |-> o] \in Slot
         /\ IsObject([tag |-> tag, ref |-> o])
BY DEF Value, Reference, Slot, IsObject

\* The next object of the arena.
LEMMA OneAllocated ==
  ASSUME used \in 0..Len(Arena), NEW h \in Heap, NEW c \in Contents, Room(1)
  PROVE  /\ Allocate(h, <<c>>) \in Heap /\ used + 1 \in 0..Len(Arena)
         /\ used + 1 \in DOMAIN Arena /\ Arena[used + 1] \in Objs
         /\ Allocate(h, <<c>>)[Arena[used + 1]] = c
         /\ \A o \in Objs : o # Arena[used + 1] => Allocate(h, <<c>>)[o] = h[o]
<1>1. <<c>> \in Seq(Contents) /\ Len(<<c>>) = 1 /\ DOMAIN <<c>> = {1} /\ <<c>>[1] = c
  OBVIOUS
<1>2. used \in 0..Len(Arena) /\ Len(Arena) \in Nat
  BY ArenaAssumption
<1>3. PICK s : s = <<c>>
  OBVIOUS
<1>4. /\ Allocate(h, s) \in Heap
      /\ \A k \in DOMAIN s : used + k \in DOMAIN Arena /\ Arena[used + k] \in Objs
                             /\ Allocate(h, s)[Arena[used + k]] = s[k]
      /\ \A o \in Objs : (\A k \in DOMAIN s : o # Arena[used + k]) => Allocate(h, s)[o] = h[o]
  BY <1>1, <1>2, <1>3, Allocated
<1>5. used + 1 \in 0..Len(Arena)
  BY <1>2 DEF Room
<1> QED BY <1>1, <1>3, <1>4, <1>5

----------------------------------------------------------------------------
(* The steps.                                                              *)

LEMMA NothingOwed ==
  ASSUME IInv, UNCHANGED vars
  PROVE  IInv'
<1>1. msgs' = msgs /\ heap' = heap /\ used' = used /\ frames' = frames /\ replies' = replies /\ held' = held
  BY DEF vars
<1> QED BY <1>1, SameTable DEF IInv, TypeOK, FramesFit, Awaited, Released

\* An item is set, and the activation goes on.
LEMMA ItemPassed ==
  ASSUME IInv, AtItem, frames' = [frames EXCEPT ![Len(frames)] = Onward(Fr)],
         UNCHANGED <<msgs, held, replies>>, NEW n, n = Len(frames)
  PROVE  /\ ControlOK'
         /\ Len(frames') = n /\ DOMAIN frames' = 1..n /\ DOMAIN frames = 1..n
         /\ frames'[n] = Onward(Fr) /\ frames[n] = Fr /\ n \in Nat \ {0}
         /\ \A k \in 1..n - 1 : frames'[k] = frames[k]
<1>1. frames # <<>> /\ Fr \in Part /\ Fits(msgs, Fr) /\ Fr.i <= KnownAt(msgs, Fr) /\ msgs \in Tables
  BY AtItemFacts, FrFacts DEF IInv
<1>2. Fr.list # None => Fr.j <= Len(ItemsAt(msgs, Fr))
  <2>1. Items(Fr) = ItemsAt(msgs, Fr) /\ (InList(Fr) <=> Fr.list # None)
    BY <1>1, PartFacts
  <2>2. InList(Fr) => Fr.j \in 1..Len(Items(Fr))
    BY AtItemFacts
  <2>3. ItemsAt(msgs, Fr) \in Seq(ItemsOf(FieldOf(Fr), msgs))
    BY <1>1, <2>1, PartFacts
  <2>4. Len(ItemsAt(msgs, Fr)) \in Nat
    BY <2>3
  <2> QED BY <2>1, <2>2, <2>4
<1>3. PICK fr : fr = Onward(Fr)
  OBVIOUS
<1>4. fr \in Part /\ Fits(msgs, fr)
  BY <1>1, <1>2, <1>3, OnwardFits
<1>5. frames' = WithTop(frames, fr)
  BY <1>3 DEF WithTop
<1> QED BY <1>1, <1>3, <1>4, <1>5, Replaced, Zenon

LEMMA SetScalarKeeps ==
  ASSUME IInv, AtItem, SetScalar
  PROVE  IInv'
<1>1. /\ FieldOf(Fr) \in FieldDescriptor /\ FieldOf(Fr).kind \notin {"message", "bytes"}
      /\ Here(Fr) \in ItemsOf(FieldOf(Fr), msgs)
      /\ Fr \in Part /\ Fr.i <= KnownAt(msgs, Fr) /\ heap \in Heap /\ msgs \in Tables
      /\ used' = used /\ msgs' = msgs /\ used \in 0..Len(Arena)
  BY AtItemFacts DEF SetScalar, IInv, TypeOK
<1>2. heap' \in Heap
  BY <1>1, ScalarTyped, SetTyped DEF SetScalar
<1>3. ControlOK'
  BY ItemPassed DEF SetScalar
<1> QED BY <1>1, <1>2, <1>3, Together DEF DataOK

LEMMA SetBytesKeeps ==
  ASSUME IInv, AtItem, SetBytes
  PROVE  IInv'
<1>1. /\ FieldOf(Fr) \in FieldDescriptor /\ FieldOf(Fr).kind = "bytes" /\ Room(1)
      /\ Here(Fr) \in ItemsOf(FieldOf(Fr), msgs)
      /\ Fr \in Part /\ Fr.i <= KnownAt(msgs, Fr) /\ DataOK /\ heap \in Heap /\ msgs \in Tables
      /\ used' = used + 1 /\ msgs' = msgs
  BY AtItemFacts, Halves DEF SetBytes, IInv, DataOK
<1>2. Listing(BytesOf(Here(Fr))) \in Contents
  <2>1. BytesOf(Here(Fr)) \in Seq(Value)
    BY <1>1, BytesTyped
  <2>2. BytesOf(Here(Fr)) \in Seq(Slot)
    BY <2>1 DEF Slot
  <2> QED BY <2>2, ListingTyped
<1>3. /\ Allocate(heap, <<Listing(BytesOf(Here(Fr)))>>) \in Heap
      /\ used + 1 \in 0..Len(Arena) /\ Arena[used + 1] \in Objs
  BY <1>1, <1>2, OneAllocated DEF DataOK
<1>4. heap' \in Heap
  BY <1>1, <1>3, RefTyped, SetTyped DEF SetBytes
<1>5. ControlOK'
  BY ItemPassed DEF SetBytes
<1> QED BY <1>1, <1>3, <1>4, <1>5, Together DEF DataOK

\* The activation of a nested message.
LEMMA PartBegins ==
  ASSUME msgs \in Tables, NEW m \in DOMAIN msgs, NEW o \in Objs,
         NEW typed \in BOOLEAN, NEW unknown \in BOOLEAN
  PROVE  LET fr == NewPart(m, o, typed, unknown)
         IN /\ fr \in Part /\ Fits(msgs, fr)
            /\ fr.msg = m /\ fr.ret = o /\ fr.list = None /\ fr.i = 1
<1>1. msgs[m].type \in Types
  BY InTable
<1>2. Known[msgs[m].type] \in Nat
  BY <1>1, NamesOfFields
<1> QED BY <1>2 DEF NewPart, Part, Fits, KnownAt

LEMMA EnterFacts ==
  ASSUME IInv, AtItem, EnterMessage, NEW n, n = Len(frames)
  PROVE  LET fr == NewPart(Here(Fr)[1], Arena[used + 1], TRUE, FALSE)
         IN /\ ControlOK' /\ Len(frames') = n + 1 /\ DOMAIN frames' = 1..n + 1
            /\ frames'[n + 1] = fr /\ fr \in Part
            /\ fr.ret = Arena[used + 1] /\ fr.list = None /\ fr.i = 1
            /\ DOMAIN frames = 1..n /\ n \in Nat \ {0}
            /\ Waits(msgs, Fr) /\ \A k \in 1..n : frames'[k] = frames[k]
<1>1. /\ FieldOf(Fr) \in FieldDescriptor /\ FieldOf(Fr).kind = "message" /\ Room(1)
      /\ Here(Fr) \in ItemsOf(FieldOf(Fr), msgs)
      /\ InList(Fr) => Fr.j \in 1..Len(Items(Fr))
      /\ frames # <<>> /\ Fr \in Part /\ Fr.i <= KnownAt(msgs, Fr) /\ msgs \in Tables /\ DataOK
  BY AtItemFacts, Halves DEF EnterMessage, IInv
<1>2. Waits(msgs, Fr)
  <2>1. /\ Items(Fr) = ItemsAt(msgs, Fr) /\ (InList(Fr) <=> Fr.list # None)
        /\ FieldOf(Fr) = FieldAt(msgs, Fr) /\ ItemsAt(msgs, Fr) \in Seq(ItemsOf(FieldOf(Fr), msgs))
    BY <1>1, PartFacts
  <2>2. Len(ItemsAt(msgs, Fr)) \in Nat
    BY <2>1
  <2>3. Fr.list = None => FieldAt(msgs, Fr).label # "repeated"
    BY <2>1 DEF AtItem
  <2> QED BY <1>1, <2>1, <2>2, <2>3 DEF Waits
<1>3. Here(Fr)[1] \in DOMAIN msgs
  BY <1>1 DEF ItemsOf
<1>4. Arena[used + 1] \in Objs
  BY <1>1, BlankTyped, OneAllocated DEF DataOK
<1>5. PICK fr : fr = NewPart(Here(Fr)[1], Arena[used + 1], TRUE, FALSE)
  OBVIOUS
<1>6. fr \in Part /\ Fits(msgs, fr) /\ fr.ret = Arena[used + 1] /\ fr.list = None /\ fr.i = 1
  BY <1>1, <1>3, <1>4, <1>5, PartBegins
<1>7. frames' = Append(frames, fr) /\ UNCHANGED <<msgs, held, replies>>
  BY <1>5 DEF EnterMessage, Nested
<1>8. /\ ControlOK' /\ Len(frames') = Len(frames) + 1 /\ DOMAIN frames' = 1..Len(frames) + 1
      /\ frames'[Len(frames) + 1] = fr /\ \A k \in 1..Len(frames) : frames'[k] = frames[k]
  BY <1>1, <1>2, <1>6, <1>7, Called, Zenon
<1>9. DOMAIN frames = 1..n /\ n \in Nat \ {0}
  BY <1>1, FrFacts
<1> QED BY <1>2, <1>5, <1>6, <1>8, <1>9

LEMMA EnterKeeps ==
  ASSUME IInv, AtItem, EnterMessage
  PROVE  IInv'
<1>1. ControlOK' /\ DataOK /\ heap \in Heap /\ Room(1)
  BY EnterFacts, Halves DEF EnterMessage, DataOK
<1>2. Allocate(heap, <<Blank>>) \in Heap /\ used + 1 \in 0..Len(Arena)
  BY <1>1, BlankTyped, OneAllocated DEF DataOK
<1>3. heap' = Allocate(heap, <<Blank>>) /\ used' = used + 1
  BY DEF EnterMessage
<1> QED BY <1>1, <1>2, <1>3, Together DEF DataOK

LEMMA SkipKeeps ==
  ASSUME IInv, SkipAbsent
  PROVE  IInv' /\ (\A n : n = Len(frames) =>
           /\ Len(frames') = n /\ DOMAIN frames' = 1..n /\ DOMAIN frames = 1..n
           /\ frames'[n] = [Fr EXCEPT !.i = Fr.i + 1] /\ frames[n] = Fr /\ n \in Nat \ {0}
           /\ \A k \in 1..n - 1 : frames'[k] = frames[k])
<1>1. /\ frames # <<>> /\ Fr \in Part /\ Fits(msgs, Fr) /\ Fr.i <= KnownAt(msgs, Fr)
      /\ msgs \in Tables /\ Fr.i \in Nat \ {0} /\ KnownAt(msgs, Fr) \in Nat
      /\ Fr.list = None /\ Fr = frames[Len(frames)]
  <2>1. frames # <<>> /\ Fr.i <= KnownAt(msgs, Fr) /\ FieldOf(Fr).label = "optional"
    BY DEF SkipAbsent, InParse, KnownAt
  <2>2. Fr \in Part /\ Fits(msgs, Fr) /\ msgs \in Tables /\ Fr = frames[Len(frames)]
    BY <2>1, FrFacts DEF IInv
  <2>3. FieldOf(Fr) = FieldAt(msgs, Fr) /\ Fr.i \in Nat \ {0} /\ KnownAt(msgs, Fr) \in Nat
    BY <2>2, PartFacts
  <2> QED BY <2>1, <2>2, <2>3 DEF Fits
<1>2. PICK fr : fr = [Fr EXCEPT !.i = Fr.i + 1]
  OBVIOUS
<1>3. fr \in Part /\ fr.msg = Fr.msg /\ fr.i = Fr.i + 1 /\ fr.list = None
  BY <1>1, <1>2 DEF Part
<1>4. Fits(msgs, fr)
  BY <1>1, <1>3 DEF Fits, KnownAt
<1>5. frames' = WithTop(frames, fr) /\ UNCHANGED <<msgs, held, replies>> /\ heap' = heap /\ used' = used
  BY <1>1, <1>2 DEF SkipAbsent, WithTop
<1>6. PICK n : n = Len(frames)
  OBVIOUS
<1>7. /\ ControlOK'
      /\ Len(frames') = n /\ DOMAIN frames' = 1..n /\ DOMAIN frames = 1..n
      /\ frames'[n] = fr /\ frames[n] = Fr /\ n \in Nat \ {0}
      /\ \A k \in 1..n - 1 : frames'[k] = frames[k]
  BY <1>1, <1>3, <1>4, <1>5, <1>6, Replaced, Zenon
<1>8. IInv'
  BY <1>5, <1>7, Together DEF IInv, TypeOK
<1> QED BY <1>2, <1>6, <1>7, <1>8

\* The array of a repeated field.
LEMMA BeginListFacts ==
  ASSUME IInv, BeginList, NEW n, n = Len(frames), NEW a, a = Arena[used + 1]
  PROVE  /\ ControlOK' /\ DataOK /\ Room(1) /\ a \in Objs /\ frames # <<>>
         /\ Len(frames') = n /\ DOMAIN frames' = 1..n /\ DOMAIN frames = 1..n
         /\ frames'[n] = [Fr EXCEPT !.list = a, !.j = 1] /\ frames[n] = Fr /\ n \in Nat \ {0}
         /\ \A k \in 1..n - 1 : frames'[k] = frames[k]
         /\ Fr \in Part /\ Fr.i <= KnownAt(msgs, Fr)
         /\ [k \in DOMAIN Items(Fr) |-> Undefined] \in Seq(Slot)
<1>1. frames # <<>> /\ Fr.i <= KnownAt(msgs, Fr) /\ FieldOf(Fr).label = "repeated"
  BY DEF BeginList, InParse, KnownAt
<1>2. Fr \in Part /\ Fits(msgs, Fr) /\ msgs \in Tables
  BY <1>1, FrFacts DEF IInv
<1>3. /\ FieldOf(Fr) = FieldAt(msgs, Fr) /\ Items(Fr) = ItemsAt(msgs, Fr)
      /\ Items(Fr) \in Seq(ItemsOf(FieldOf(Fr), msgs)) /\ None \notin Objs
  BY <1>1, <1>2, PartFacts
<1>4. DataOK /\ Room(1) /\ a \in Objs
  BY BlankTyped, Halves, OneAllocated DEF BeginList, DataOK
<1>5. PICK fr : fr = [Fr EXCEPT !.list = a, !.j = 1]
  OBVIOUS
<1>6. fr \in Part /\ fr.msg = Fr.msg /\ fr.i = Fr.i /\ fr.list = a /\ fr.j = 1
  BY <1>2, <1>4, <1>5 DEF Part
<1>7. Fits(msgs, fr)
  <2>1. Len(ItemsAt(msgs, Fr)) \in Nat
    BY <1>3
  <2> QED BY <1>1, <1>2, <1>3, <1>6, <2>1 DEF Fits, KnownAt, FieldAt, ItemsAt
<1>8. frames' = WithTop(frames, fr) /\ UNCHANGED <<msgs, held, replies>>
  BY <1>5 DEF BeginList, WithTop
<1>9. /\ ControlOK'
      /\ Len(frames') = n /\ DOMAIN frames' = 1..n /\ DOMAIN frames = 1..n
      /\ frames'[n] = fr /\ frames[n] = Fr /\ n \in Nat \ {0}
      /\ \A k \in 1..n - 1 : frames'[k] = frames[k]
  BY <1>1, <1>6, <1>7, <1>8, Replaced, Zenon
<1>10. [k \in DOMAIN Items(Fr) |-> Undefined] \in Seq(Slot)
  <2>1. Undefined \in Slot
    BY DEF Undefined, Slot, Value
  <2> QED BY <1>3, <2>1
<1> QED BY <1>1, <1>2, <1>4, <1>5, <1>9, <1>10

LEMMA BeginListKeeps ==
  ASSUME IInv, BeginList
  PROVE  IInv'
<1>1. /\ ControlOK' /\ DataOK /\ Room(1) /\ heap \in Heap
      /\ [k \in DOMAIN Items(Fr) |-> Undefined] \in Seq(Slot)
  BY BeginListFacts DEF DataOK
<1>2. PICK c : c = Listing([k \in DOMAIN Items(Fr) |-> Undefined])
  OBVIOUS
<1>3. c \in Contents
  BY <1>1, <1>2, ListingTyped
<1>4. Allocate(heap, <<c>>) \in Heap /\ used + 1 \in 0..Len(Arena)
  BY <1>1, <1>3, OneAllocated DEF DataOK
<1>5. heap' = Allocate(heap, <<c>>) /\ used' = used + 1
  BY <1>2 DEF BeginList
<1> QED BY <1>1, <1>4, <1>5, Together

LEMMA EndListFacts ==
  ASSUME IInv, EndList, NEW n, n = Len(frames)
  PROVE  /\ ControlOK' /\ heap \in Heap /\ used \in 0..Len(Arena) /\ used' = used /\ frames # <<>>
         /\ heap' = [heap EXCEPT ![Fr.ret].props[FieldOf(Fr).name] = [tag |-> ListTag(Fr), ref |-> Fr.list]]
         /\ Fr.ret \in Objs /\ FieldOf(Fr).name \in Names /\ Fr.list \in Objs
         /\ [tag |-> ListTag(Fr), ref |-> Fr.list] \in Slot
         /\ IsObject([tag |-> ListTag(Fr), ref |-> Fr.list])
         /\ Len(frames') = n /\ DOMAIN frames' = 1..n /\ DOMAIN frames = 1..n
         /\ frames'[n].list = None /\ frames'[n].i = Fr.i + 1
         /\ frames'[n].ret = Fr.ret /\ frames'[n].msg = Fr.msg
         /\ frames[n] = Fr /\ n \in Nat \ {0} /\ Fr \in Part /\ Fr.i <= KnownAt(msgs, Fr)
         /\ \A k \in 1..n - 1 : frames'[k] = frames[k]
<1>1. frames # <<>> /\ Fr.i <= KnownAt(msgs, Fr) /\ InList(Fr)
  BY DEF EndList, InParse, KnownAt
<1>2. Fr \in Part /\ Fits(msgs, Fr) /\ msgs \in Tables
  BY <1>1, FrFacts DEF IInv
<1>3. /\ Fr.ret \in Objs /\ FieldOf(Fr).name \in Names /\ Fr.list \in Objs
      /\ KnownAt(msgs, Fr) \in Nat /\ Fr.i \in Nat \ {0}
  BY <1>1, <1>2, PartFacts
<1>4. PICK done : done = [Fr EXCEPT !.list = None]
  OBVIOUS
<1>5. /\ done \in Part /\ done.list = None /\ done.i = Fr.i /\ done.ret = Fr.ret /\ done.msg = Fr.msg
      /\ done.j = Fr.j
  BY <1>2, <1>4 DEF Part
<1>6. Fits(msgs, done) /\ done.i <= KnownAt(msgs, done) /\ ~InList(done) /\ FieldOf(done) = FieldOf(Fr)
  BY <1>1, <1>2, <1>5 DEF Fits, KnownAt, InList, FieldOf
<1>7. PICK fr : fr = Onward(done)
  OBVIOUS
<1>8. fr \in Part /\ Fits(msgs, fr) /\ fr.list = None /\ fr.i = Fr.i + 1 /\ fr.ret = Fr.ret /\ fr.msg = Fr.msg
  BY <1>2, <1>5, <1>6, <1>7, OnwardFits
<1>9. /\ frames' = WithTop(frames, fr) /\ UNCHANGED <<msgs, held, replies>> /\ used' = used
      /\ heap' = Set(heap, done, [tag |-> ListTag(Fr), ref |-> Fr.list])
  BY <1>4, <1>7 DEF EndList, WithTop
<1>10. heap' = [heap EXCEPT ![Fr.ret].props[FieldOf(Fr).name] = [tag |-> ListTag(Fr), ref |-> Fr.list]]
  BY <1>5, <1>6, <1>9 DEF Set
<1>11. [tag |-> ListTag(Fr), ref |-> Fr.list] \in Slot /\ IsObject([tag |-> ListTag(Fr), ref |-> Fr.list])
  BY <1>3, RefTyped DEF ListTag
<1>12. /\ ControlOK'
       /\ Len(frames') = n /\ DOMAIN frames' = 1..n /\ DOMAIN frames = 1..n
       /\ frames'[n] = fr /\ frames[n] = Fr /\ n \in Nat \ {0}
       /\ \A k \in 1..n - 1 : frames'[k] = frames[k]
  BY <1>1, <1>8, <1>9, Replaced, Zenon
<1> QED BY <1>1, <1>2, <1>3, <1>8, <1>9, <1>10, <1>11, <1>12 DEF IInv, TypeOK

LEMMA EndListKeeps ==
  ASSUME IInv, EndList
  PROVE  IInv'
<1>1. PICK v, name, o : v = [tag |-> ListTag(Fr), ref |-> Fr.list] /\ name = FieldOf(Fr).name /\ o = Fr.ret
  OBVIOUS
<1>2. /\ ControlOK' /\ heap \in Heap /\ used \in 0..Len(Arena) /\ used' = used
      /\ heap' = [heap EXCEPT ![o].props[name] = v] /\ v \in Slot /\ name \in Names /\ o \in Objs
  BY <1>1, EndListFacts
<1>3. heap' \in Heap
  BY <1>2, PropSet
<1> QED BY <1>2, <1>3, Together

\* The outermost message is complete: its answer gets the value.
LEMMA AnswerFilled ==
  ASSUME IInv, frames # <<>>, frames' = <<>>, held' = held - 1, msgs' = msgs,
         NEW v \in Value, NEW n, n = Len(replies),
         replies' = [replies EXCEPT ![Len(replies)].value = v]
  PROVE  /\ ControlOK' /\ n \in Nat \ {0} /\ DOMAIN replies = 1..n /\ DOMAIN replies' = 1..n
         /\ replies[n].value = Pending /\ replies'[n].value = v
         /\ \A k \in 1..n - 1 : replies'[k] = replies[k]
<1> DEFINE R == [call : Call, value : Value, exc : BOOLEAN]
<1>1. replies \in Seq(R) /\ replies # <<>> /\ replies[n].value = Pending
  BY DEF IInv, TypeOK, Awaited
<1>2. n \in Nat \ {0} /\ DOMAIN replies = 1..n /\ replies[n] \in R
  <2>1. ASSUME NEW s \in Seq(R), s # <<>>, n = Len(s)
        PROVE  n \in Nat \ {0} /\ DOMAIN s = 1..n /\ s[n] \in R
    <3> HIDE DEF R
    <3> QED BY <2>1
  <2> QED BY <1>1, <2>1
<1>3. PICK r : r = [replies[n] EXCEPT !.value = v]
  OBVIOUS
<1>4. r \in R /\ r.value = v
  BY <1>2, <1>3
<1>5. replies' = WithTop(replies, r)
  BY <1>3 DEF WithTop
<1> HIDE DEF R
<1>6. Topped(replies', replies, r, R)
  <2>1. PICK s : s = replies
    OBVIOUS
  <2>2. s \in Seq(R) /\ s # <<>> /\ r \in R /\ replies' = WithTop(s, r)
    BY <1>1, <1>4, <1>5, <2>1
  <2>3. Topped(replies', s, r, R)
    BY <2>2, TopReplaced, ZenonT(40)
  <2> QED BY <2>1, <2>3
<1>7. /\ replies' \in Seq(R) /\ DOMAIN replies' = 1..n /\ replies'[n] = r
      /\ \A k \in 1..n - 1 : replies'[k] = replies[k]
  BY <1>6 DEF Topped
<1>8. held = 1 /\ held' = 0
  BY Held01
<1>9. ControlOK'
  <2>1. replies' \in Seq([call : Call', value : Value, exc : BOOLEAN])
    BY <1>7, SameTable DEF R
  <2>2. msgs' \in Tables /\ msgs' \in Seq(Message)
    BY Halves DEF ControlOK
  <2>3. frames' \in Seq(Part')
    OBVIOUS
  <2>4. FramesFit' /\ Awaited' /\ Released'
    BY <1>8 DEF FramesFit, Awaited, Released
  <2> QED BY <1>8, <2>1, <2>2, <2>3, <2>4 DEF ControlOK
<1> QED BY <1>1, <1>2, <1>4, <1>7, <1>9

\* A complete object goes to the activation that asked for it, or to the answer.
LEMMA Delivered ==
  ASSUME IInv, frames # <<>>, NEW h \in Heap, Deliver(h, Fr), msgs' = msgs
  PROVE  ControlOK' /\ heap' \in Heap
<1>1. Fr \in Part /\ msgs \in Tables /\ Fr.ret \in Objs
  BY FrFacts, PartFacts DEF IInv
<1>2. PICK v : v = [tag |-> "object", ref |-> Fr.ret]
  OBVIOUS
<1>3. v \in Value
  BY <1>1, <1>2, RefTyped
<1>4. PICK rest, n : rest = Front(frames) /\ n = Len(rest)
  OBVIOUS
<1>5. CASE rest = <<>>
  <2>1. /\ heap' = h /\ replies' = [replies EXCEPT ![Len(replies)].value = v]
        /\ frames' = <<>> /\ held' = held - 1
    BY <1>2, <1>4, <1>5 DEF Deliver
  <2> QED BY <1>3, <2>1, AnswerFilled
<1>6. CASE rest # <<>>
  <2>1. /\ heap' = Set(h, Last(rest), v) /\ UNCHANGED <<replies, held>>
        /\ frames' = WithTop(rest, Onward(Last(rest)))
    BY <1>2, <1>4, <1>6 DEF Deliver, WithTop
  <2>2. ControlOK' /\ frames[n] = Last(rest) /\ frames[n] \in Part /\ Waits(msgs, frames[n])
    BY <1>4, <1>6, <2>1, Returned, Zenon
  <2>3. Last(rest) \in Part /\ Last(rest).i <= KnownAt(msgs, Last(rest))
    BY <2>2 DEF Waits
  <2>4. heap' \in Heap
    BY <1>1, <1>3, <2>1, <2>3, SetTyped
  <2> QED BY <2>2, <2>4
<1> QED BY <1>5, <1>6

LEMMA EndPartKeeps ==
  ASSUME IInv, EndPart
  PROVE  IInv'
<1>1. heap \in Heap /\ used \in 0..Len(Arena)
  BY DEF IInv, TypeOK
<1>2. ControlOK' /\ heap' \in Heap
  BY <1>1, Delivered DEF EndPart
<1> QED BY <1>1, <1>2, Together DEF EndPart

\* The unknown fields of a message, and the objects for them.
LEMMA BeyondTyped ==
  ASSUME msgs \in Tables, NEW m \in DOMAIN msgs
  PROVE  Beyond(m) \in Seq(DOMAIN Schema[msgs[m].type])
<1>1. PICK t, D, vals, known : /\ t = msgs[m].type /\ D = DOMAIN Schema[t]
                               /\ vals = msgs[m].vals /\ known = Known[t]
  OBVIOUS
<1>2. /\ t \in Types /\ Len(vals) = Len(Schema[t]) /\ vals \in Seq(Seq(Item))
      /\ Schema[t] \in Seq(FieldDescriptor) /\ known \in 0..Len(Schema[t])
  BY <1>1, InTable, NamesOfFields
<1>3. D = 1..Len(Schema[t]) /\ Len(Schema[t]) \in Nat
  BY <1>1, <1>2
<1> DEFINE Entries(n) == [k \in DOMAIN vals[n] |-> n]
           pieces == [k \in 1..Len(Schema[t]) - known |-> Entries(known + k)]
<1>4. ASSUME NEW n \in D  PROVE Entries(n) \in Seq(D)
  <2>1. vals[n] \in Seq(Item)
    BY <1>2, <1>3
  <2>2. PICK s : s = vals[n]
    OBVIOUS
  <2>3. [k \in DOMAIN s |-> n] \in Seq(D)
    BY <2>1, <2>2
  <2> QED BY <2>2, <2>3
<1>5. \A k \in 1..Len(Schema[t]) - known : known + k \in D
  BY <1>2, <1>3
<1>6. Len(Schema[t]) - known \in Nat
  BY <1>2, <1>3
<1> HIDE DEF Entries
<1>7. pieces \in Seq(Seq(D))
  <2>1. \A k \in 1..Len(Schema[t]) - known : Entries(known + k) \in Seq(D)
    BY <1>4, <1>5
  <2> QED BY <1>6, <2>1
<1>8. Beyond(m) = FlattenSeq(pieces)
  BY <1>1 DEF Beyond, Entries
<1> HIDE DEF pieces
<1> QED BY <1>1, <1>7, <1>8, Flattened

LEMMA EntryTyped ==
  ASSUME NEW t \in Types, NEW n \in DOMAIN Schema[t]
  PROVE  /\ UnknownEntry(t, n) \in Contents /\ UnknownEntry(t, n).elems = <<>>
         /\ \A name \in Names : ~IsObject(UnknownEntry(t, n).props[name])
<1>1. Schema[t] \in Seq(FieldDescriptor) /\ Len(Schema[t]) <= Len(Numerals) /\ Numerals \in Seq(Data)
  BY NamesOfFields, ReaderAssumption
<1>2. Numerals[n] \in Data
  BY <1>1
<1>3. Schema[t][n] \in FieldDescriptor
  BY <1>1
<1>4. WireTypes[Schema[t][n].kind] \in Data
  BY <1>3, ReaderAssumption DEF FieldDescriptor
<1>5. PICK a, b : a = Num(Numerals[n]) /\ b = Str(WireTypes[Schema[t][n].kind])
  OBVIOUS
<1>6. a \in Slot /\ b \in Slot /\ ~IsObject(a) /\ ~IsObject(b)
  BY <1>2, <1>4, <1>5 DEF Num, Str, Slot, Value, Primitive, IsObject
<1>7. UnknownEntry(t, n) = [Blank EXCEPT !.props["number"] = a, !.props["type"] = b]
  BY <1>5 DEF UnknownEntry
<1>8. PICK p : p = [[[x \in Names |-> Undefined] EXCEPT !["number"] = a] EXCEPT !["type"] = b]
  OBVIOUS
<1>9. p \in [Names -> Slot] /\ \A name \in Names : ~IsObject(p[name])
  <2>1. Undefined \in Slot /\ ~IsObject(Undefined)
    BY DEF Undefined, Slot, Value, IsObject
  <2> QED BY <1>6, <1>8, <2>1
<1>10. UnknownEntry(t, n) = [props |-> p, elems |-> <<>>]
  BY <1>7, <1>8 DEF Blank
<1> QED BY <1>9, <1>10 DEF Contents

LEMMA UnknownFieldsTyped ==
  ASSUME msgs \in Tables, NEW m \in DOMAIN msgs, used \in 0..Len(Arena),
         NEW n, n = Len(Beyond(m)), Room(n + 1)
  PROVE  /\ n \in Nat /\ UnknownFields(m) \in Seq(Contents) /\ Len(UnknownFields(m)) = n + 1
         /\ \A k \in 1..n : /\ UnknownFields(m)[k].elems = <<>>
                            /\ \A name \in Names : ~IsObject(UnknownFields(m)[k].props[name])
         /\ UnknownFields(m)[n + 1] =
              Listing([k \in 1..n |-> [tag |-> "object", ref |-> Arena[used + k]]])
         /\ [k \in 1..n |-> [tag |-> "object", ref |-> Arena[used + k]]] \in Seq(Slot)
         /\ \A k \in 1..n + 1 : used + k \in DOMAIN Arena /\ Arena[used + k] \in Objs
<1>1. PICK seq, t : seq = Beyond(m) /\ t = msgs[m].type
  OBVIOUS
<1>2. t \in Types /\ seq \in Seq(DOMAIN Schema[t])
  BY <1>1, InTable, BeyondTyped
<1>3. n \in Nat /\ DOMAIN seq = 1..n
  BY <1>1, <1>2
<1>4. \A k \in 1..n + 1 : used + k \in DOMAIN Arena /\ Arena[used + k] \in Objs
  BY <1>3, ArenaAssumption DEF Room
<1>5. PICK refs : refs = [k \in 1..n |-> [tag |-> "object", ref |-> Arena[used + k]]]
  OBVIOUS
<1>6. refs \in Seq(Slot)
  <2>1. \A k \in 1..n : [tag |-> "object", ref |-> Arena[used + k]] \in Slot
    <3>1. \A k \in 1..n : k \in 1..n + 1
      BY <1>3
    <3>2. \A k \in 1..n : Arena[used + k] \in Objs
      BY <1>4, <3>1
    <3> QED BY <3>2, RefTyped
  <2> QED BY <1>3, <1>5, <2>1
<1>7. PICK entries : entries = [k \in 1..n |-> UnknownEntry(t, seq[k])]
  OBVIOUS
<1>8. ASSUME NEW k \in 1..n
      PROVE  /\ UnknownEntry(t, seq[k]) \in Contents /\ UnknownEntry(t, seq[k]).elems = <<>>
             /\ \A name \in Names : ~IsObject(UnknownEntry(t, seq[k]).props[name])
  <2>1. seq[k] \in DOMAIN Schema[t]
    BY <1>2, <1>3
  <2> QED BY <1>2, <2>1, EntryTyped
<1>9. entries \in Seq(Contents) /\ Len(entries) = n
  BY <1>3, <1>7, <1>8
<1>10. Listing(refs) \in Contents
  BY <1>6, ListingTyped
<1>11. UnknownFields(m) = Append(entries, Listing(refs))
  BY <1>1, <1>3, <1>5, <1>7 DEF UnknownFields
<1>12. /\ UnknownFields(m) \in Seq(Contents) /\ Len(UnknownFields(m)) = n + 1
       /\ UnknownFields(m)[n + 1] = Listing(refs)
       /\ \A k \in 1..n : UnknownFields(m)[k] = entries[k]
  BY <1>9, <1>10, <1>11, Push
<1> QED BY <1>3, <1>4, <1>5, <1>6, <1>7, <1>8, <1>12

LEMMA EndUnknownFacts ==
  ASSUME IInv, EndPartWithUnknown, NEW new, new = UnknownFields(Fr.msg), NEW n, n = Len(Beyond(Fr.msg))
  PROVE  /\ n \in Nat /\ used' = used + n + 1 /\ used' \in 0..Len(Arena)
         /\ Room(n + 1) /\ new \in Seq(Contents) /\ Len(new) = n + 1
         /\ Fr \in Part /\ Fr.msg \in DOMAIN msgs /\ Fr.ret \in Objs /\ frames # <<>>
         /\ Allocate(heap, new) \in Heap
         /\ Deliver([Allocate(heap, new) EXCEPT ![Fr.ret].props["$unknownFields"] =
                      [tag |-> "array", ref |-> Arena[used + n + 1]]], Fr)
         /\ Arena[used + n + 1] \in Objs
<1>1. /\ frames # <<>> /\ Fr \in Part /\ msgs \in Tables /\ heap \in Heap /\ used \in 0..Len(Arena)
      /\ Fr.msg \in DOMAIN msgs /\ Fr.ret \in Objs
  <2>1. frames # <<>> /\ msgs \in Tables /\ heap \in Heap /\ used \in 0..Len(Arena)
    BY DEF EndPartWithUnknown, IInv, TypeOK
  <2> QED BY <2>1, FrFacts, PartFacts
<1>2. Room(n + 1)
  BY DEF EndPartWithUnknown
<1>3. n \in Nat /\ new \in Seq(Contents) /\ Len(new) = n + 1 /\ Arena[used + (n + 1)] \in Objs
  <2>1. PICK m : m = Fr.msg
    OBVIOUS
  <2>2. /\ n \in Nat /\ UnknownFields(m) \in Seq(Contents) /\ Len(UnknownFields(m)) = n + 1
        /\ \A k \in 1..n + 1 : used + k \in DOMAIN Arena /\ Arena[used + k] \in Objs
    BY <1>1, <1>2, <2>1, UnknownFieldsTyped, Zenon
  <2>3. n + 1 \in 1..n + 1
    BY <2>2
  <2> QED BY <2>1, <2>2, <2>3
<1>4. used + (n + 1) = used + n + 1 /\ used + (n + 1) \in 0..Len(Arena)
  BY <1>1, <1>2, <1>3, ArenaAssumption DEF Room
<1>5. Allocate(heap, new) \in Heap
  BY <1>1, <1>2, <1>3, Allocated
<1>6. /\ used' = used + Len(new)
      /\ Deliver([Allocate(heap, new) EXCEPT ![Fr.ret].props["$unknownFields"] =
                    [tag |-> "array", ref |-> Arena[used + Len(new)]]], Fr)
  BY DEF EndPartWithUnknown
<1> QED BY <1>1, <1>2, <1>3, <1>4, <1>5, <1>6

LEMMA EndUnknownKeeps ==
  ASSUME IInv, EndPartWithUnknown
  PROVE  IInv'
<1>1. PICK new, n, v : /\ new = UnknownFields(Fr.msg) /\ n = Len(Beyond(Fr.msg))
                       /\ v = [tag |-> "array", ref |-> Arena[used + n + 1]]
  OBVIOUS
<1>2. /\ used' \in 0..Len(Arena) /\ Fr.ret \in Objs /\ frames # <<>>
      /\ Allocate(heap, new) \in Heap /\ v \in Slot
      /\ Deliver([Allocate(heap, new) EXCEPT ![Fr.ret].props["$unknownFields"] = v], Fr)
  BY <1>1, EndUnknownFacts, RefTyped
<1>3. PICK h : h = [Allocate(heap, new) EXCEPT ![Fr.ret].props["$unknownFields"] = v]
  OBVIOUS
<1>4. h \in Heap
  BY <1>2, <1>3, PropSet, ReaderAssumption
<1>5. ControlOK' /\ heap' \in Heap
  BY <1>2, <1>3, <1>4, Delivered DEF EndPartWithUnknown
<1> QED BY <1>2, <1>5, Together

\* A call that is refused leaves an answer.
LEMMA RefuseFacts ==
  ASSUME IInv, NEW c \in Call, Refuse(c), NEW n, n = Len(replies)
  PROVE  /\ ControlOK' /\ n \in Nat /\ DOMAIN replies = 1..n /\ DOMAIN replies' = 1..n + 1
         /\ replies'[n + 1].value = Null /\ \A k \in 1..n : replies'[k] = replies[k]
         /\ frames = <<>> /\ UNCHANGED <<msgs, heap, used, frames, held>>
<1> DEFINE R == [call : Call, value : Value, exc : BOOLEAN]
<1>1. PICK r : r = [call |-> c, value |-> Null, exc |-> TRUE]
  OBVIOUS
<1>2. r \in R /\ r.value = Null
  BY <1>1 DEF Null, Value
<1>3. replies \in Seq(R)
  BY DEF IInv, TypeOK
<1>4. replies' = Append(replies, r) /\ frames = <<>> /\ UNCHANGED <<msgs, heap, used, frames, held>>
  BY <1>1 DEF Refuse, Idle
<1> HIDE DEF R
<1>5. /\ replies' \in Seq(R) /\ n \in Nat /\ DOMAIN replies' = 1..n + 1
      /\ replies'[n + 1] = r /\ \A k \in 1..n : replies'[k] = replies[k]
  BY <1>2, <1>3, <1>4, Push
<1>6. DOMAIN replies = 1..n
  BY <1>3
<1>7. ControlOK'
  <2>1. replies' \in Seq([call : Call', value : Value, exc : BOOLEAN])
    BY <1>4, <1>5, SameTable DEF R
  <2>2. Awaited'
    BY <1>4 DEF Awaited
  <2>3. frames' \in Seq(Part') /\ FramesFit'
    BY <1>4 DEF FramesFit
  <2> QED BY <1>4, <2>1, <2>2, <2>3, Halves DEF ControlOK, Released
<1> QED BY <1>2, <1>4, <1>5, <1>6, <1>7

LEMMA RefuseKeeps ==
  ASSUME IInv, NEW c \in Call, Refuse(c)
  PROVE  IInv'
<1>1. ControlOK' /\ heap' = heap /\ used' = used
  BY RefuseFacts
<1> QED BY <1>1, Together DEF IInv, TypeOK

\* A call that is accepted leaves one to fill, and starts the walk.
LEMMA AcceptFacts ==
  ASSUME IInv, NEW c \in Call, Accept(c), NEW n, n = Len(replies)
  PROVE  LET fr == NewPart(c.buffer, Arena[used + 1], UseTypedArray(c), c.unknown)
         IN /\ ControlOK' /\ n \in Nat /\ DOMAIN replies = 1..n /\ DOMAIN replies' = 1..n + 1
            /\ replies'[n + 1].value = Pending /\ \A k \in 1..n : replies'[k] = replies[k]
            /\ frames = <<>> /\ DOMAIN frames' = 1..1 /\ frames'[1] = fr /\ fr \in Part
            /\ fr.ret = Arena[used + 1] /\ fr.list = None /\ fr.i = 1
            /\ Room(1) /\ heap' = Allocate(heap, <<Blank>>) /\ used' = used + 1 /\ msgs' = msgs
<1> DEFINE R == [call : Call, value : Value, exc : BOOLEAN]
<1>1. PICK r : r = [call |-> c, value |-> Pending, exc |-> FALSE]
  OBVIOUS
<1>2. r \in R /\ r.value = Pending
  BY <1>1 DEF Pending, Value
<1>3. replies \in Seq(R) /\ msgs \in Tables /\ msgs \in Seq(Message) /\ heap \in Heap /\ DataOK
  BY Halves DEF IInv, TypeOK
<1>4. PICK fr : fr = NewPart(c.buffer, Arena[used + 1], UseTypedArray(c), c.unknown)
  OBVIOUS
<1>5. /\ replies' = Append(replies, r) /\ frames = <<>> /\ frames' = <<fr>> /\ held' = held + 1
      /\ Room(1) /\ heap' = Allocate(heap, <<Blank>>) /\ used' = used + 1 /\ msgs' = msgs
  BY <1>1, <1>4 DEF Accept, Idle
<1>6. c.buffer \in DOMAIN msgs /\ c.unknown \in BOOLEAN /\ UseTypedArray(c) \in BOOLEAN
  BY DEF Accept, Readable, Call, UseTypedArray
<1>7. Arena[used + 1] \in Objs
  BY <1>3, <1>5, BlankTyped, OneAllocated DEF DataOK
<1>8. fr \in Part /\ Fits(msgs, fr) /\ fr.ret = Arena[used + 1] /\ fr.list = None /\ fr.i = 1
  BY <1>3, <1>4, <1>6, <1>7, PartBegins
<1> HIDE DEF R
<1>9. /\ replies' \in Seq(R) /\ n \in Nat /\ DOMAIN replies' = 1..n + 1 /\ Len(replies') = n + 1
      /\ replies'[n + 1] = r /\ \A k \in 1..n : replies'[k] = replies[k]
  BY <1>2, <1>3, <1>5, Push
<1>10. DOMAIN replies = 1..n
  BY <1>3
<1>11. /\ frames' \in Seq(Part) /\ Len(frames') = 1 /\ DOMAIN frames' = 1..1 /\ frames'[1] = fr
       /\ frames' # <<>>
  BY <1>5, <1>8
<1>12. ControlOK'
  <2>1. replies' \in Seq([call : Call', value : Value, exc : BOOLEAN])
    BY <1>5, <1>9, SameTable DEF R
  <2>2. Awaited'
    <3>1. replies' # <<>>
      BY <1>9
    <3> QED BY <1>2, <1>9, <3>1 DEF Awaited
  <2>3. frames' \in Seq(Part')
    BY <1>5, <1>11, SameTable
  <2>4. FramesFit'
    BY <1>5, <1>8, <1>11 DEF FramesFit
  <2>5. held' = 1
    BY <1>5, Held01
  <2> QED BY <1>3, <1>5, <1>11, <2>1, <2>2, <2>3, <2>4, <2>5 DEF ControlOK, Released
<1> QED BY <1>2, <1>4, <1>5, <1>8, <1>9, <1>10, <1>11, <1>12

LEMMA AcceptKeeps ==
  ASSUME IInv, NEW c \in Call, Accept(c)
  PROVE  IInv'
<1>1. /\ ControlOK' /\ Room(1) /\ heap' = Allocate(heap, <<Blank>>) /\ used' = used + 1
      /\ DataOK /\ heap \in Heap
  BY AcceptFacts, Halves DEF DataOK
<1>2. heap' \in Heap /\ used' \in 0..Len(Arena)
  BY <1>1, BlankTyped, OneAllocated DEF DataOK
<1> QED BY <1>1, <1>2, Together

----------------------------------------------------------------------------

\* Nothing has been parsed yet.
LEMMA InitIInv == Init => IInv
<1> SUFFICES ASSUME Init  PROVE IInv
  OBVIOUS
<1>1. msgs \in Tables /\ msgs \in Seq(Message)
  BY TableAssumption DEF Init
<1>2. heap \in Heap
  BY BlankTyped DEF Init, Heap
<1>3. used \in 0..Len(Arena)
  BY ArenaAssumption DEF Init
<1> QED BY <1>1, <1>2, <1>3 DEF Init, IInv, TypeOK, FramesFit, Awaited, Released

\* Every step keeps the invariant.
LEMMA NextIInv == IInv /\ [Next]_vars => IInv'
<1> SUFFICES ASSUME IInv, [Next]_vars  PROVE IInv'
  OBVIOUS
<1>1. ASSUME NEW c \in Call, Refuse(c)  PROVE IInv'
  BY <1>1, RefuseKeeps
<1>2. ASSUME NEW c \in Call, Accept(c)  PROVE IInv'
  BY <1>2, AcceptKeeps
<1>3. CASE SkipAbsent
  BY <1>3, SkipKeeps, Zenon
<1>4. CASE ParseSingular
  BY <1>4, SingularAtItem, SetScalarKeeps, SetBytesKeeps, EnterKeeps, Zenon
<1>5. CASE ParseElement
  BY <1>5, ElementAtItem, SetScalarKeeps, SetBytesKeeps, EnterKeeps, Zenon
<1>6. CASE BeginList
  BY <1>6, BeginListKeeps
<1>7. CASE EndList
  BY <1>7, EndListKeeps
<1>8. CASE EndPart
  BY <1>8, EndPartKeeps
<1>9. CASE EndPartWithUnknown
  BY <1>9, EndUnknownKeeps
<1>10. CASE UNCHANGED vars
  BY <1>10, NothingOwed
<1> QED BY <1>1, <1>2, <1>3, <1>4, <1>5, <1>6, <1>7, <1>8, <1>9, <1>10, Zenon DEF Next, Build

\* Whatever the tables, the invariant of the walk holds throughout.
THEOREM Invariance == Spec => []IInv
<1> QED BY InitIInv, NextIInv, PTL DEF Spec

\* The heap stays a heap of JavaScript values, every activation is of a message
\* of the table, and no object is taken from behind the arena (src/parse.cpp).
THEOREM TypeCorrect == Spec => []TypeOK
<1>1. IInv => TypeOK
  BY DEF IInv
<1> QED BY <1>1, Invariance, PTL

\* NativeProtobuf::Parse deletes what it allocated: between calls no message is
\* held, and within a call exactly one (src/native.cpp).
THEOREM AlwaysReleased == Spec => []Released
<1>1. IInv => Released
  BY DEF IInv
<1> QED BY <1>1, Invariance, PTL

----------------------------------------------------------------------------
(* Where objects are: a place is in a property of an object, in an element *)
(* of one, in an activation or in an answer.                               *)

Refers(v, o) == IsObject(v) /\ v.ref = o
InContents(c, g, b, o) ==
  \/ g = "prop" /\ b \in Names /\ Refers(c.props[b], o)
  \/ g = "elem" /\ b \in DOMAIN c.elems /\ Refers(c.elems[b], o)
InHeap(h, g, a, b, o) == a \in Objs /\ InContents(h[a], g, b, o)
InFrames(fs, g, a, b, o) ==
  g = "frame" /\ a \in DOMAIN fs /\ b = 0 /\ o \in {fs[a].ret, fs[a].list}
InReplies(rs, g, a, b, o) ==
  g = "reply" /\ a \in DOMAIN rs /\ b = 0 /\ Refers(rs[a].value, o)
At(h, fs, rs, g, a, b, o) ==
  InHeap(h, g, a, b, o) \/ InFrames(fs, g, a, b, o) \/ InReplies(rs, g, a, b, o)

\* The objects made so far, each of them in one place, and no others anywhere.
Made(u) == {Arena[k] : k \in 1..u}
OnlyAt(h, fs, rs, o, g, a, b) ==
  \A g1, a1, b1 : At(h, fs, rs, g1, a1, b1, o) <=> g1 = g /\ a1 = a /\ b1 = b
Owned(h, fs, rs, o) == \E g, a, b : OnlyAt(h, fs, rs, o, g, a, b)
Sole(h, u, fs, rs) ==
  /\ \A o \in Made(u) : Owned(h, fs, rs, o)
  /\ \A o \in Objs : \A g, a, b : At(h, fs, rs, g, a, b, o) => o \in Made(u)

\* Objects that are not made yet refer to none.
NoRefs(c) ==
  /\ \A n \in Names : ~IsObject(c.props[n])
  /\ \A k \in DOMAIN c.elems : ~IsObject(c.elems[k])
Unmade(h, u) == \A o \in Objs : o \notin Made(u) => NoRefs(h[o])

\* What an activation has yet to set refers to none either.
PropsAhead(c, fields, i) ==
  /\ ~IsObject(c.props["$unknownFields"])
  /\ \A n \in DOMAIN fields : n >= i => ~IsObject(c.props[fields[n].name])
ElemsAhead(c, n, j) ==
  DOMAIN c.elems = 1..n /\ \A k \in 1..n : k >= j => ~IsObject(c.elems[k])
Ahead(table, h, fr) ==
  /\ fr.list # fr.ret
  /\ PropsAhead(h[fr.ret], Schema[table[fr.msg].type], fr.i)
  /\ fr.list # None => ElemsAhead(h[fr.list], Len(ItemsAt(table, fr)), fr.j)

Placed(table, h, u, fs, rs) ==
  /\ Sole(h, u, fs, rs) /\ Unmade(h, u)
  /\ \A k \in DOMAIN fs : Ahead(table, h, fs[k])
Placing == Placed(msgs, heap, used, frames, replies)

LEMMA MadeMore ==
  ASSUME NEW u \in Nat, NEW n \in Nat, u + n <= Len(Arena)
  PROVE  /\ Made(u + n) = Made(u) \cup {Arena[u + k] : k \in 1..n}
         /\ \A k \in 1..n : Arena[u + k] \in Objs /\ Arena[u + k] \notin Made(u)
         /\ \A j, k \in 1..n : Arena[u + j] = Arena[u + k] => j = k
<1>1. /\ Arena \in Seq(Objs) /\ \A j, k \in DOMAIN Arena : Arena[j] = Arena[k] => j = k
      /\ Len(Arena) \in Nat /\ DOMAIN Arena = 1..Len(Arena)
  BY ArenaAssumption DEF IsInjective
<1>2. \A k \in 1..n : u + k \in DOMAIN Arena
  BY <1>1
<1>3. \A k \in 1..u : k \in DOMAIN Arena
  BY <1>1
<1>4. ASSUME NEW k \in 1..n  PROVE Arena[u + k] \notin Made(u)
  <2>1. ASSUME NEW j \in 1..u, Arena[j] = Arena[u + k]  PROVE FALSE
    <3>1. j = u + k
      BY <1>1, <1>2, <1>3, <2>1
    <3> QED BY <3>1
  <2> QED BY <2>1 DEF Made
<1>5. ASSUME NEW x \in 1..u + n  PROVE x \in 1..u \/ \E k \in 1..n : x = u + k
  <2>1. x \notin 1..u => x - u \in 1..n /\ x = u + (x - u)
    OBVIOUS
  <2> QED BY <2>1
<1>6. \A x \in 1..u : x \in 1..u + n
  OBVIOUS
<1>7. \A k \in 1..n : u + k \in 1..u + n
  OBVIOUS
<1>8. Made(u + n) = Made(u) \cup {Arena[u + k] : k \in 1..n}
  BY <1>5, <1>6, <1>7, Zenon DEF Made
<1>9. \A j, k \in 1..n : Arena[u + j] = Arena[u + k] => j = k
  <2>1. ASSUME NEW j \in 1..n, NEW k \in 1..n, Arena[u + j] = Arena[u + k]  PROVE j = k
    <3>1. u + j = u + k
      BY <1>1, <1>2, <2>1
    <3> QED BY <3>1
  <2> QED BY <2>1
<1>10. \A k \in 1..n : Arena[u + k] \in Objs
  BY <1>1, <1>2
<1> QED BY <1>4, <1>8, <1>9, <1>10

\* A step that moves nothing.
LEMMA Kept ==
  ASSUME NEW h, NEW fs, NEW rs, NEW h2, NEW fs2, NEW rs2, NEW u, Sole(h, u, fs, rs),
         \A o \in Objs : \A g, a, b : At(h2, fs2, rs2, g, a, b, o) <=> At(h, fs, rs, g, a, b, o),
         Made(u) \subseteq Objs
  PROVE  Sole(h2, u, fs2, rs2)
<1>1. ASSUME NEW o \in Made(u)  PROVE Owned(h2, fs2, rs2, o)
  <2>1. PICK g, a, b : OnlyAt(h, fs, rs, o, g, a, b)
    BY DEF Sole, Owned
  <2>2. o \in Objs
    OBVIOUS
  <2>3. OnlyAt(h2, fs2, rs2, o, g, a, b)
    BY <2>1, <2>2 DEF OnlyAt
  <2> QED BY <2>3, Zenon DEF Owned
<1> QED BY <1>1 DEF Sole

Gained(h, fs, rs, h2, fs2, rs2, u, n, G, A, B) ==
  \A o \in Objs : \A g, a, b : At(h2, fs2, rs2, g, a, b, o) <=>
    \/ At(h, fs, rs, g, a, b, o)
    \/ \E k \in 1..n : o = Arena[u + k] /\ g = G[k] /\ a = A[k] /\ b = B[k]

\* A step that makes objects and puts each of them in a place of its own.
LEMMA Gains ==
  ASSUME NEW h, NEW fs, NEW rs, NEW h2, NEW fs2, NEW rs2, NEW u \in Nat, NEW n \in Nat,
         Sole(h, u, fs, rs), u + n <= Len(Arena), Made(u) \subseteq Objs, NEW G, NEW A, NEW B,
         Gained(h, fs, rs, h2, fs2, rs2, u, n, G, A, B)
  PROVE  Sole(h2, u + n, fs2, rs2)
<1>1. /\ Made(u + n) = Made(u) \cup {Arena[u + k] : k \in 1..n}
      /\ \A k \in 1..n : Arena[u + k] \in Objs /\ Arena[u + k] \notin Made(u)
      /\ \A j, k \in 1..n : Arena[u + j] = Arena[u + k] => j = k
  BY MadeMore
<1>2. ASSUME NEW o \in Made(u)  PROVE Owned(h2, fs2, rs2, o)
  <2>1. PICK g, a, b : OnlyAt(h, fs, rs, o, g, a, b)
    BY DEF Sole, Owned
  <2>2. o \in Objs /\ \A k \in 1..n : o # Arena[u + k]
    BY <1>1
  <2>3. OnlyAt(h2, fs2, rs2, o, g, a, b)
    BY <2>1, <2>2 DEF OnlyAt, Gained
  <2> QED BY <2>3, Zenon DEF Owned
<1>3. ASSUME NEW j \in 1..n  PROVE Owned(h2, fs2, rs2, Arena[u + j])
  <2>1. PICK o : o = Arena[u + j]
    OBVIOUS
  <2>2. o \in Objs /\ o \notin Made(u) /\ \A k \in 1..n : o = Arena[u + k] <=> k = j
    BY <1>1, <2>1
  <2>3. \A g, a, b : ~At(h, fs, rs, g, a, b, o)
    BY <2>2 DEF Sole
  <2>4. \A g, a, b : At(h2, fs2, rs2, g, a, b, o) <=> g = G[j] /\ a = A[j] /\ b = B[j]
    BY <2>2, <2>3 DEF Gained
  <2>5. OnlyAt(h2, fs2, rs2, o, G[j], A[j], B[j])
    BY <2>4 DEF OnlyAt
  <2>6. Owned(h2, fs2, rs2, o)
    BY <2>5, Zenon DEF Owned
  <2> QED BY <2>1, <2>6
<1>4. ASSUME NEW o \in Objs, NEW g, NEW a, NEW b, At(h2, fs2, rs2, g, a, b, o)
      PROVE  o \in Made(u + n)
  BY <1>1, <1>4 DEF Sole, Gained
<1>5. \A o \in Made(u + n) : Owned(h2, fs2, rs2, o)
  BY <1>1, <1>2, <1>3
<1> QED BY <1>4, <1>5 DEF Sole

\* A step that makes one object.
GainedOne(h, fs, rs, h2, fs2, rs2, n, g0, a0, b0) ==
  \A o \in Objs : \A g, a, b : At(h2, fs2, rs2, g, a, b, o) <=>
    \/ At(h, fs, rs, g, a, b, o)
    \/ o = n /\ g = g0 /\ a = a0 /\ b = b0

LEMMA GainsOne ==
  ASSUME NEW h, NEW fs, NEW rs, NEW h2, NEW fs2, NEW rs2, NEW u \in Nat,
         Sole(h, u, fs, rs), u + 1 <= Len(Arena), Made(u) \subseteq Objs,
         NEW g0, NEW a0, NEW b0,
         GainedOne(h, fs, rs, h2, fs2, rs2, Arena[u + 1], g0, a0, b0)
  PROVE  Sole(h2, u + 1, fs2, rs2)
<1>1. \A k \in 1..1 : k = 1 /\ u + k = u + 1 /\ <<g0>>[k] = g0 /\ <<a0>>[k] = a0 /\ <<b0>>[k] = b0
  OBVIOUS
<1>2. 1 \in 1..1
  OBVIOUS
<1>3. PICK G, A, B : \A k \in 1..1 : k = 1 /\ u + k = u + 1 /\ G[k] = g0 /\ A[k] = a0 /\ B[k] = b0
  BY <1>1
<1>4. ASSUME NEW o \in Objs, NEW g, NEW a, NEW b
      PROVE  (o = Arena[u + 1] /\ g = g0 /\ a = a0 /\ b = b0) <=>
             \E k \in 1..1 : o = Arena[u + k] /\ g = G[k] /\ a = A[k] /\ b = B[k]
  BY <1>2, <1>3
<1>5. Gained(h, fs, rs, h2, fs2, rs2, u, 1, G, A, B)
  BY <1>4 DEF Gained, GainedOne
<1>6. PICK n \in Nat : n = 1
  OBVIOUS
<1>7. Sole(h2, u + n, fs2, rs2)
  BY <1>5, <1>6, Gains, Zenon
<1> QED BY <1>6, <1>7

\* A step that takes one object to another place.
Moved(h, fs, rs, h2, fs2, rs2, r, g0, a0, b0) ==
  \A o \in Objs : \A g, a, b : At(h2, fs2, rs2, g, a, b, o) <=>
    \/ o # r /\ At(h, fs, rs, g, a, b, o)
    \/ o = r /\ g = g0 /\ a = a0 /\ b = b0

LEMMA Moves ==
  ASSUME NEW h, NEW fs, NEW rs, NEW h2, NEW fs2, NEW rs2, NEW u,
         Sole(h, u, fs, rs), Made(u) \subseteq Objs, NEW r \in Made(u),
         NEW g0, NEW a0, NEW b0, Moved(h, fs, rs, h2, fs2, rs2, r, g0, a0, b0)
  PROVE  Sole(h2, u, fs2, rs2)
<1>1. ASSUME NEW o \in Made(u)  PROVE Owned(h2, fs2, rs2, o)
  <2>1. CASE o = r
    <3>1. OnlyAt(h2, fs2, rs2, o, g0, a0, b0)
      BY <2>1 DEF OnlyAt, Moved
    <3> QED BY <3>1, Zenon DEF Owned
  <2>2. CASE o # r
    <3>1. PICK g, a, b : OnlyAt(h, fs, rs, o, g, a, b)
      BY DEF Sole, Owned
    <3>2. o \in Objs
      OBVIOUS
    <3>3. OnlyAt(h2, fs2, rs2, o, g, a, b)
      BY <2>2, <3>1, <3>2 DEF OnlyAt, Moved
    <3> QED BY <3>3, Zenon DEF Owned
  <2> QED BY <2>1, <2>2
<1> QED BY <1>1 DEF Sole, Moved

LEMMA MadeObjs ==
  ASSUME NEW u \in 0..Len(Arena)
  PROVE  u \in Nat /\ Made(u) \subseteq Objs
<1>1. Arena \in Seq(Objs) /\ Len(Arena) \in Nat
  BY ArenaAssumption
<1>2. \A k \in 1..u : Arena[k] \in Objs
  BY <1>1
<1> QED BY <1>1, <1>2 DEF Made

\* What writing a property or an element changes.
PropWritten(h, h2, x, n, v) ==
  /\ h2 \in Heap /\ \A y \in Objs : y # x => h2[y] = h[y]
  /\ h2[x].elems = h[x].elems /\ h2[x].props[n] = v
  /\ \A m \in Names : m # n => h2[x].props[m] = h[x].props[m]
ElemWritten(h, h2, x, j, v) ==
  /\ h2 \in Heap /\ \A y \in Objs : y # x => h2[y] = h[y]
  /\ h2[x].props = h[x].props /\ DOMAIN h2[x].elems = DOMAIN h[x].elems
  /\ h2[x].elems[j] = v
  /\ \A m \in DOMAIN h[x].elems : m # j => h2[x].elems[m] = h[x].elems[m]
WriteProp(h, x, n, v) == [h EXCEPT ![x].props[n] = v]
WriteElem(h, x, j, v) == [h EXCEPT ![x].elems[j] = v]

LEMMA PropWrite ==
  ASSUME NEW h \in Heap, NEW x \in Objs, NEW n \in Names, NEW v \in Slot
  PROVE  PropWritten(h, WriteProp(h, x, n, v), x, n, v)
BY PropSet DEF PropWritten, WriteProp

LEMMA ElemWrite ==
  ASSUME NEW h \in Heap, NEW x \in Objs, NEW j \in Nat, NEW v \in Slot, j \in DOMAIN h[x].elems
  PROVE  ElemWritten(h, WriteElem(h, x, j, v), x, j, v)
BY ElemSet DEF ElemWritten, WriteElem

\* Of the places in the heap, h2 has those of h and one for the value v.
PlaceGained(h, h2, g0, a0, b0, v) ==
  \A g, a, b, o : InHeap(h2, g, a, b, o) <=>
    InHeap(h, g, a, b, o) \/ (g = g0 /\ a = a0 /\ b = b0 /\ Refers(v, o))

LEMMA PropPlace ==
  ASSUME NEW h, NEW h2, NEW x \in Objs, NEW n \in Names, NEW v,
         PropWritten(h, h2, x, n, v), ~IsObject(h[x].props[n])
  PROVE  PlaceGained(h, h2, "prop", x, n, v)
<1>1. ASSUME NEW g, NEW b, NEW o
      PROVE  InContents(h2[x], g, b, o) <=>
               InContents(h[x], g, b, o) \/ (g = "prop" /\ b = n /\ Refers(v, o))
  <2>1. CASE g = "prop"
    <3>1. CASE b = n
      BY <2>1, <3>1 DEF InContents, Refers, PropWritten
    <3>2. CASE b # n
      BY <2>1, <3>2 DEF InContents, PropWritten
    <3> QED BY <3>1, <3>2
  <2>2. CASE g # "prop"
    BY <2>2 DEF InContents, PropWritten
  <2> QED BY <2>1, <2>2
<1>2. ASSUME NEW g, NEW a, NEW b, NEW o
      PROVE  InHeap(h2, g, a, b, o) <=>
               InHeap(h, g, a, b, o) \/ (g = "prop" /\ a = x /\ b = n /\ Refers(v, o))
  <2>1. CASE a = x
    BY <1>1, <2>1 DEF InHeap
  <2>2. CASE a # x
    BY <2>2 DEF InHeap, PropWritten
  <2> QED BY <2>1, <2>2
<1> QED BY <1>2 DEF PlaceGained

LEMMA ElemPlace ==
  ASSUME NEW h, NEW h2, NEW x \in Objs, NEW j, NEW v,
         ElemWritten(h, h2, x, j, v), j \in DOMAIN h[x].elems, ~IsObject(h[x].elems[j])
  PROVE  PlaceGained(h, h2, "elem", x, j, v)
<1>1. ASSUME NEW g, NEW b, NEW o
      PROVE  InContents(h2[x], g, b, o) <=>
               InContents(h[x], g, b, o) \/ (g = "elem" /\ b = j /\ Refers(v, o))
  <2>1. CASE g = "elem"
    <3>1. CASE b = j
      BY <2>1, <3>1 DEF InContents, Refers, ElemWritten
    <3>2. CASE b # j
      BY <2>1, <3>2 DEF InContents, ElemWritten
    <3> QED BY <3>1, <3>2
  <2>2. CASE g # "elem"
    BY <2>2 DEF InContents, ElemWritten
  <2> QED BY <2>1, <2>2
<1>2. ASSUME NEW g, NEW a, NEW b, NEW o
      PROVE  InHeap(h2, g, a, b, o) <=>
               InHeap(h, g, a, b, o) \/ (g = "elem" /\ a = x /\ b = j /\ Refers(v, o))
  <2>1. CASE a = x
    BY <1>1, <2>1 DEF InHeap
  <2>2. CASE a # x
    BY <2>2 DEF InHeap, ElemWritten
  <2> QED BY <2>1, <2>2
<1> QED BY <1>2 DEF PlaceGained

\* What is ahead after a property or an element has been set.
LEMMA PropsOnward ==
  ASSUME NEW h, NEW h2, NEW x, NEW v, NEW t \in Types, NEW i \in DOMAIN Schema[t],
         PropWritten(h, h2, x, Schema[t][i].name, v), PropsAhead(h[x], Schema[t], i)
  PROVE  PropsAhead(h2[x], Schema[t], i + 1)
<1>1. PICK fields, n : fields = Schema[t] /\ n = fields[i].name
  OBVIOUS
<1>2. /\ fields \in Seq(FieldDescriptor) /\ n # "$unknownFields" /\ "$unknownFields" \in Names
      /\ \A m \in DOMAIN fields : fields[m].name \in Names
      /\ \A m \in DOMAIN fields : fields[m].name = n => m = i
  BY <1>1, NamesOfFields, NamesAssumption, ReaderAssumption
<1>3. ASSUME NEW m \in DOMAIN fields, m >= i + 1  PROVE ~IsObject(h2[x].props[fields[m].name])
  <2>1. m \in Nat /\ i \in Nat
    BY <1>1, <1>2
  <2>2. m >= i /\ m # i
    BY <1>3, <2>1
  <2>3. fields[m].name # n /\ fields[m].name \in Names
    BY <1>2, <2>2
  <2>4. ~IsObject(h[x].props[fields[m].name])
    BY <1>1, <2>2 DEF PropsAhead
  <2>5. h2[x].props[fields[m].name] = h[x].props[fields[m].name]
    BY <1>1, <2>3 DEF PropWritten
  <2> QED BY <2>4, <2>5
<1>4. ~IsObject(h2[x].props["$unknownFields"])
  BY <1>1, <1>2 DEF PropWritten, PropsAhead
<1> QED BY <1>1, <1>3, <1>4 DEF PropsAhead

LEMMA ElemsOnward ==
  ASSUME NEW h, NEW h2, NEW x, NEW v, NEW n \in Nat, NEW j \in Nat,
         ElemWritten(h, h2, x, j, v), ElemsAhead(h[x], n, j)
  PROVE  ElemsAhead(h2[x], n, j + 1)
<1>1. ASSUME NEW k \in 1..n, k >= j + 1  PROVE ~IsObject(h2[x].elems[k])
  <2>1. k >= j /\ k # j
    BY <1>1
  <2>2. k \in DOMAIN h[x].elems /\ ~IsObject(h[x].elems[k])
    BY <2>1 DEF ElemsAhead
  <2>3. h2[x].elems[k] = h[x].elems[k]
    BY <2>1, <2>2 DEF ElemWritten
  <2> QED BY <2>2, <2>3
<1>2. DOMAIN h2[x].elems = 1..n
  BY DEF ElemWritten, ElemsAhead
<1> QED BY <1>1, <1>2 DEF ElemsAhead

\* From h to h2, objects with the contents c have been made.
Filled(h, h2, c, n) ==
  /\ \A g, a, b, o : InHeap(h2, g, a, b, o) <=>
       \/ InHeap(h, g, a, b, o)
       \/ \E k \in 1..n : a = Arena[used + k] /\ InContents(c[k], g, b, o)
  /\ Unmade(h2, used + n) /\ \A o \in Made(used) : h2[o] = h[o]

LEMMA NewPlaces ==
  ASSUME NEW h \in Heap, used \in 0..Len(Arena), NEW c \in Seq(Contents), Room(Len(c)),
         Unmade(h, used), NEW h2, h2 = Allocate(h, c), NEW n, n = Len(c)
  PROVE  Filled(h, h2, c, n)
<1>1. n \in Nat /\ DOMAIN c = 1..n /\ used \in Nat /\ used + n <= Len(Arena)
  BY ArenaAssumption DEF Room
<1>2. /\ Made(used + n) = Made(used) \cup {Arena[used + k] : k \in 1..n}
      /\ \A k \in 1..n : Arena[used + k] \in Objs /\ Arena[used + k] \notin Made(used)
  BY <1>1, MadeMore
<1>3. /\ \A k \in 1..n : h2[Arena[used + k]] = c[k]
      /\ \A o \in Objs : (\A k \in 1..n : o # Arena[used + k]) => h2[o] = h[o]
  <2>1. /\ \A k \in DOMAIN c : h2[Arena[used + k]] = c[k]
        /\ \A o \in Objs : (\A k \in DOMAIN c : o # Arena[used + k]) => h2[o] = h[o]
    BY Allocated
  <2> QED BY <1>1, <2>1
<1>4. ASSUME NEW g, NEW a, NEW b, NEW o
      PROVE  InHeap(h2, g, a, b, o) <=>
              \/ InHeap(h, g, a, b, o)
              \/ \E k \in 1..n : a = Arena[used + k] /\ InContents(c[k], g, b, o)
  <2>1. CASE \A k \in 1..n : a # Arena[used + k]
    BY <1>3, <2>1 DEF InHeap
  <2>2. ASSUME NEW k \in 1..n, a = Arena[used + k]
        PROVE  InHeap(h2, g, a, b, o) <=>
                \/ InHeap(h, g, a, b, o)
                \/ \E j \in 1..n : a = Arena[used + j] /\ InContents(c[j], g, b, o)
    <3>1. a \in Objs /\ h2[a] = c[k] /\ \A j \in 1..n : a = Arena[used + j] => c[j] = h2[a]
      BY <1>2, <1>3, <2>2
    <3>2. NoRefs(h[a])
      BY <1>2, <2>2 DEF Unmade
    <3>3. ~InContents(h[a], g, b, o)
      BY <3>2 DEF NoRefs, InContents, Refers
    <3> QED BY <2>2, <3>1, <3>3 DEF InHeap
  <2> QED BY <2>1, <2>2
<1>5. ASSUME NEW o \in Objs, o \notin Made(used + n)  PROVE NoRefs(h2[o])
  <2>1. o \notin Made(used) /\ h2[o] = h[o]
    BY <1>2, <1>3, <1>5
  <2> QED BY <2>1 DEF Unmade
<1>6. ASSUME NEW o \in Made(used)  PROVE h2[o] = h[o]
  <2>1. o \in Objs /\ \A k \in 1..n : o # Arena[used + k]
    BY <1>2, MadeObjs
  <2> QED BY <1>3, <2>1
<1> QED BY <1>4, <1>5, <1>6 DEF Unmade, Filled

LEMMA OneNewPlace ==
  ASSUME NEW h \in Heap, used \in 0..Len(Arena), NEW c \in Contents, Room(1), NoRefs(c),
         Unmade(h, used), NEW h2, h2 = Allocate(h, <<c>>)
  PROVE  /\ \A g, a, b, o : InHeap(h2, g, a, b, o) <=> InHeap(h, g, a, b, o)
         /\ Unmade(h2, used + 1) /\ \A o \in Made(used) : h2[o] = h[o]
         /\ h2 \in Heap /\ h2[Arena[used + 1]] = c
         /\ Arena[used + 1] \in Objs /\ Arena[used + 1] \notin Made(used)
         /\ Made(used + 1) = Made(used) \cup {Arena[used + 1]}
         /\ used \in Nat /\ used + 1 <= Len(Arena) /\ used + 1 \in 0..Len(Arena)
<1>1. PICK s, n : s = <<c>> /\ n = 1
  OBVIOUS
<1>2. s \in Seq(Contents) /\ Len(s) = 1 /\ DOMAIN s = 1..1 /\ s[1] = c /\ 1 \in 1..1
      /\ \A k \in 1..n : s[k] = c
  BY <1>1
<1>3. Filled(h, h2, s, n)
  <2>1. Room(Len(s)) /\ h2 = Allocate(h, s) /\ n = Len(s)
    BY <1>1, <1>2
  <2> QED BY <1>2, <2>1, NewPlaces, Zenon
<1>4. \A g, b, o : ~InContents(c, g, b, o)
  BY DEF NoRefs, InContents, Refers
<1>5. /\ h2 \in Heap /\ h2[Arena[used + 1]] = c
      /\ used \in Nat /\ used + 1 <= Len(Arena) /\ used + 1 \in 0..Len(Arena)
  BY OneAllocated, ArenaAssumption DEF Room
<1>6. /\ Made(used + n) = Made(used) \cup {Arena[used + k] : k \in 1..n}
      /\ \A k \in 1..n : Arena[used + k] \in Objs /\ Arena[used + k] \notin Made(used)
  BY <1>1, <1>5, MadeMore
<1>7. \A k \in 1..n : k = 1
  BY <1>1
<1>8. 1 \in 1..n
  BY <1>1
<1>9. {Arena[used + k] : k \in 1..n} = {Arena[used + 1]}
  BY <1>7, <1>8
<1> QED BY <1>1, <1>2, <1>3, <1>4, <1>5, <1>6, <1>8, <1>9 DEF Filled

\* The place that an activation sets next.
SlotKind(fr) == IF InList(fr) THEN "elem" ELSE "prop"
SlotOf(fr)   == IF InList(fr) THEN fr.list ELSE fr.ret
SlotName(fr) == IF InList(fr) THEN fr.j ELSE FieldOf(fr).name

\* An activation that stands at a place it may set.
MaySet(h, fr) ==
  /\ fr \in Part /\ fr.i <= KnownAt(msgs, fr) /\ Ahead(msgs, h, fr)
  /\ fr.list # None => fr.j \in 1..Len(ItemsAt(msgs, fr))

SetDone(h, h2, fr, v) ==
  /\ PlaceGained(h, h2, SlotKind(fr), SlotOf(fr), SlotName(fr), v)
  /\ h2 \in Heap /\ SlotOf(fr) \in Objs /\ SlotOf(fr) \in {fr.ret, fr.list}
  /\ \A x \in Objs : x # SlotOf(fr) => h2[x] = h[x]
  /\ Ahead(msgs, h2, Onward(fr))

LEMMA SetPlace ==
  ASSUME msgs \in Tables, NEW h \in Heap, NEW fr, MaySet(h, fr), NEW v \in Value,
         NEW h2, h2 = Set(h, fr, v)
  PROVE  SetDone(h, h2, fr, v)
<1>1. /\ fr \in Part /\ fr.i <= KnownAt(msgs, fr)
      /\ fr.list # fr.ret /\ PropsAhead(h[fr.ret], Schema[msgs[fr.msg].type], fr.i)
      /\ fr.list # None => fr.j \in 1..Len(ItemsAt(msgs, fr))
      /\ fr.list # None => ElemsAhead(h[fr.list], Len(ItemsAt(msgs, fr)), fr.j)
  BY DEF MaySet, Ahead
<1>2. /\ fr.ret \in Objs /\ fr.i \in Nat \ {0} /\ fr.j \in Nat /\ (InList(fr) <=> fr.list # None)
      /\ fr.list \in Objs \cup {None} /\ None \notin Objs
      /\ fr.msg \in DOMAIN msgs /\ msgs[fr.msg].type \in Types
      /\ fr.i \in DOMAIN Schema[msgs[fr.msg].type] /\ FieldOf(fr).name \in Names
      /\ Items(fr) = ItemsAt(msgs, fr) /\ Items(fr) \in Seq(ItemsOf(FieldOf(fr), msgs))
  BY <1>1, PartFacts
<1>3. v \in Slot
  BY DEF Slot
<1>4. PICK up : up = Onward(fr)
  OBVIOUS
<1>5. CASE InList(fr)
  <2>1. PICK x, j, n : x = fr.list /\ j = fr.j /\ n = Len(ItemsAt(msgs, fr))
    OBVIOUS
  <2>2. n \in Nat /\ j \in Nat /\ j \in 1..n /\ x \in Objs /\ ElemsAhead(h[x], n, j)
    BY <1>1, <1>2, <1>5, <2>1
  <2>3. j \in DOMAIN h[x].elems /\ ~IsObject(h[x].elems[j])
    BY <2>2 DEF ElemsAhead
  <2>4. h2 = WriteElem(h, x, j, v)
    BY <1>5, <2>1 DEF Set, WriteElem
  <2>5. ElemWritten(h, h2, x, j, v)
    BY <1>3, <2>2, <2>3, <2>4, ElemWrite, Zenon
  <2>6. PlaceGained(h, h2, "elem", x, j, v)
    BY <2>2, <2>3, <2>5, ElemPlace, Zenon
  <2>7. SlotKind(fr) = "elem" /\ SlotOf(fr) = x /\ SlotName(fr) = j
    BY <1>5, <2>1 DEF SlotKind, SlotOf, SlotName
  <2>8. up.msg = fr.msg /\ up.ret = fr.ret /\ up.list = x /\ up.i = fr.i /\ up.j = j + 1
    BY <1>1, <1>4, <1>5, <2>1 DEF Onward, Part
  <2>9. x # fr.ret /\ h2[fr.ret] = h[fr.ret] /\ h2 \in Heap /\ \A y \in Objs : y # x => h2[y] = h[y]
    BY <1>1, <1>2, <2>1, <2>5 DEF ElemWritten
  <2>10. ElemsAhead(h2[x], n, j + 1)
    BY <2>2, <2>5, ElemsOnward
  <2>11. ItemsAt(msgs, up) = ItemsAt(msgs, fr)
    BY <2>8 DEF ItemsAt
  <2>12. Ahead(msgs, h2, up)
    BY <1>1, <2>1, <2>8, <2>9, <2>10, <2>11 DEF Ahead
  <2> QED BY <1>4, <2>1, <2>2, <2>6, <2>7, <2>9, <2>12 DEF SetDone
<1>6. CASE ~InList(fr)
  <2>1. PICK x, n, t : x = fr.ret /\ n = FieldOf(fr).name /\ t = msgs[fr.msg].type
    OBVIOUS
  <2>2. /\ x \in Objs /\ n \in Names /\ t \in Types /\ fr.i \in DOMAIN Schema[t]
        /\ n = Schema[t][fr.i].name /\ PropsAhead(h[x], Schema[t], fr.i)
    BY <1>1, <1>2, <2>1 DEF FieldOf
  <2>3. ~IsObject(h[x].props[n])
    <3>1. fr.i >= fr.i
      BY <1>2
    <3> QED BY <2>2, <3>1 DEF PropsAhead
  <2>4. h2 = WriteProp(h, x, n, v)
    BY <1>6, <2>1 DEF Set, WriteProp
  <2>5. PropWritten(h, h2, x, n, v)
    BY <1>3, <2>2, <2>4, PropWrite, Zenon
  <2>6. PlaceGained(h, h2, "prop", x, n, v)
    BY <2>2, <2>3, <2>5, PropPlace, Zenon
  <2>7. SlotKind(fr) = "prop" /\ SlotOf(fr) = x /\ SlotName(fr) = n
    BY <1>6, <2>1 DEF SlotKind, SlotOf, SlotName
  <2>8. up.msg = fr.msg /\ up.ret = x /\ up.list = None /\ up.i = fr.i + 1
    BY <1>1, <1>2, <1>4, <1>6, <2>1 DEF Onward, Part
  <2>9. h2 \in Heap /\ \A y \in Objs : y # x => h2[y] = h[y]
    BY <2>5 DEF PropWritten
  <2>10. PropWritten(h, h2, x, Schema[t][fr.i].name, v)
    BY <2>2, <2>5
  <2>11. PropsAhead(h2[x], Schema[t], fr.i + 1)
    BY <2>2, <2>10, PropsOnward, Zenon
  <2>12. Ahead(msgs, h2, up)
    BY <1>2, <2>1, <2>8, <2>11 DEF Ahead
  <2> QED BY <1>4, <2>1, <2>2, <2>6, <2>7, <2>9, <2>12 DEF SetDone
<1> QED BY <1>5, <1>6

\* What an activation has ahead depends on its own object and array only.
LEMMA AheadSame ==
  ASSUME NEW h, NEW h2, NEW fr, Ahead(msgs, h, fr), h2[fr.ret] = h[fr.ret],
         fr.list # None => h2[fr.list] = h[fr.list]
  PROVE  Ahead(msgs, h2, fr)
BY DEF Ahead

\* The object and the array of an activation are its own.
Holds(fr, u)   == fr.ret \in Made(u) /\ (fr.list # None => fr.list \in Made(u))
Apart(fr, fr2) == \A o \in {fr.ret, fr.list} : o # None => o \notin {fr2.ret, fr2.list}

LEMMA FramesApart ==
  ASSUME NEW h, NEW u, NEW fs, NEW rs, Sole(h, u, fs, rs), NEW k \in DOMAIN fs, fs[k] \in Part
  PROVE  Holds(fs[k], u) /\ \A j \in DOMAIN fs : j # k => Apart(fs[k], fs[j])
<1>1. fs[k].ret \in Objs /\ fs[k].list \in Objs \cup {None} /\ None \notin Objs
  BY PayloadAssumption DEF Part
<1>2. ASSUME NEW o \in {fs[k].ret, fs[k].list}, o # None
      PROVE  /\ o \in Made(u) /\ \A j \in DOMAIN fs : j # k => o \notin {fs[j].ret, fs[j].list}
  <2>1. o \in Objs
    BY <1>1, <1>2
  <2>2. \A j \in DOMAIN fs : o \in {fs[j].ret, fs[j].list} => At(h, fs, rs, "frame", j, 0, o)
    BY DEF At, InFrames
  <2>3. o \in Made(u)
    BY <1>2, <2>1, <2>2 DEF Sole
  <2>4. PICK g, a, b : OnlyAt(h, fs, rs, o, g, a, b)
    BY <2>3 DEF Sole, Owned
  <2>5. \A j \in DOMAIN fs : o \in {fs[j].ret, fs[j].list} => j = a
    BY <2>2, <2>4 DEF OnlyAt
  <2>6. k = a
    BY <1>2, <2>5
  <2> QED BY <2>3, <2>5, <2>6
<1> QED BY <1>1, <1>2 DEF Holds, Apart

----------------------------------------------------------------------------
(* The steps, and where the objects are after them.                        *)

\* The activation at an item may set its place.
LEMMA TopMaySet ==
  ASSUME IInv, Placing, AtItem
  PROVE  MaySet(heap, Fr) /\ Len(frames) \in DOMAIN frames /\ Fr = frames[Len(frames)]
<1>1. /\ frames # <<>> /\ Fr \in Part /\ Fr.i <= KnownAt(msgs, Fr)
      /\ InList(Fr) => Fr.j \in 1..Len(Items(Fr))
  BY AtItemFacts
<1>2. Len(frames) \in DOMAIN frames /\ Fr = frames[Len(frames)]
  BY <1>1, FrFacts
<1>3. (InList(Fr) <=> Fr.list # None) /\ Items(Fr) = ItemsAt(msgs, Fr)
  BY <1>1, PartFacts DEF IInv
<1> QED BY <1>1, <1>2, <1>3 DEF MaySet, Placing, Placed

\* The places of an activation that only moves on.
LEMMA SameFrames ==
  ASSUME NEW fs, NEW fs2, DOMAIN fs2 = DOMAIN fs,
         \A k \in DOMAIN fs : fs2[k].ret = fs[k].ret /\ fs2[k].list = fs[k].list
  PROVE  \A g, a, b, o : InFrames(fs2, g, a, b, o) <=> InFrames(fs, g, a, b, o)
BY DEF InFrames

\* Setting the place of the activation at an item, in a heap that has new
\* objects but no new places.
LEMMA SetStep ==
  ASSUME IInv, Placing, AtItem, NEW h \in Heap, NEW v \in Value, NEW u, Unmade(h, u),
         Made(used) \subseteq Made(u), \A o \in Made(used) : h[o] = heap[o],
         \A g, a, b, o : InHeap(h, g, a, b, o) <=> InHeap(heap, g, a, b, o),
         heap' = Set(h, Fr, v), frames' = [frames EXCEPT ![Len(frames)] = Onward(Fr)],
         UNCHANGED <<msgs, held, replies>>
  PROVE  /\ Unmade(heap', u) /\ \A k \in DOMAIN frames' : Ahead(msgs', heap', frames'[k])
         /\ \A o \in Objs : \A g, a, b : At(heap', frames', replies', g, a, b, o) <=>
              \/ At(heap, frames, replies, g, a, b, o)
              \/ Refers(v, o) /\ g = SlotKind(Fr) /\ a = SlotOf(Fr) /\ b = SlotName(Fr)
<1>1. MaySet(heap, Fr) /\ Len(frames) \in DOMAIN frames /\ Fr = frames[Len(frames)]
  BY TopMaySet
<1>2. PICK n : n = Len(frames)
  OBVIOUS
<1>3. /\ msgs \in Tables /\ frames \in Seq(Part) /\ Sole(heap, used, frames, replies)
      /\ \A k \in DOMAIN frames : frames[k] \in Part /\ Ahead(msgs, heap, frames[k])
  <2>1. frames \in Seq(Part)
    BY DEF IInv, TypeOK
  <2>2. \A k \in DOMAIN frames : frames[k] \in Part
    BY <2>1
  <2> QED BY <2>1, <2>2 DEF IInv, Placing, Placed
<1>4. /\ DOMAIN frames' = 1..n /\ DOMAIN frames = 1..n
      /\ frames'[n] = Onward(Fr) /\ frames[n] = Fr /\ n \in Nat \ {0}
      /\ \A k \in 1..n - 1 : frames'[k] = frames[k]
  BY <1>2, ItemPassed, Zenon
<1>5. /\ \A k \in DOMAIN frames : Holds(frames[k], used)
      /\ \A k \in DOMAIN frames : k # n => Apart(Fr, frames[k])
  <2>1. n \in DOMAIN frames /\ frames[n] = Fr
    BY <1>1, <1>2
  <2> QED BY <1>3, <2>1, FramesApart
<1>6. MaySet(h, Fr)
  <2>1. Fr.ret \in Made(used) /\ (Fr.list # None => Fr.list \in Made(used))
    BY <1>1, <1>5 DEF Holds
  <2>2. Ahead(msgs, h, Fr)
    BY <1>1, <2>1, AheadSame DEF MaySet
  <2> QED BY <1>1, <2>2 DEF MaySet
<1>7. PICK h2 : h2 = heap'
  OBVIOUS
<1>8. /\ PlaceGained(h, h2, SlotKind(Fr), SlotOf(Fr), SlotName(Fr), v)
      /\ SlotOf(Fr) \in Objs /\ SlotOf(Fr) \in {Fr.ret, Fr.list}
      /\ \A x \in Objs : x # SlotOf(Fr) => h2[x] = h[x]
      /\ Ahead(msgs, h2, Onward(Fr))
  <2>1. PICK fr : fr = Fr
    OBVIOUS
  <2>2. MaySet(h, fr) /\ h2 = Set(h, fr, v)
    BY <1>6, <1>7, <2>1
  <2>3. SetDone(h, h2, fr, v)
    BY <1>3, <2>2, SetPlace, Zenon
  <2> QED BY <2>1, <2>3 DEF SetDone
<1>9. None \notin Objs /\ Made(used) \subseteq Objs
  BY PayloadAssumption, MadeObjs DEF IInv, TypeOK
<1>10. SlotOf(Fr) \in Made(u)
  <2>1. Holds(Fr, used)
    BY <1>1, <1>5
  <2> QED BY <1>8, <1>9, <2>1 DEF Holds
<1>11. Unmade(h2, u)
  BY <1>8, <1>10 DEF Unmade
<1>12. ASSUME NEW k \in DOMAIN frames'  PROVE Ahead(msgs, h2, frames'[k])
  <2>1. CASE k = n
    BY <1>4, <1>8, <2>1
  <2>2. CASE k # n
    <3>1. k \in DOMAIN frames /\ frames'[k] = frames[k]
      BY <1>4, <2>2
    <3>2. /\ frames[k].ret \in Made(used) /\ frames[k].ret # SlotOf(Fr)
          /\ frames[k].list # None => frames[k].list \in Made(used) /\ frames[k].list # SlotOf(Fr)
      <4>1. Holds(frames[k], used) /\ Apart(Fr, frames[k])
        BY <1>5, <2>2, <3>1
      <4>2. SlotOf(Fr) # None
        BY <1>8, <1>9
      <4> QED BY <1>8, <4>1, <4>2 DEF Holds, Apart
    <3>3. h2[frames[k].ret] = heap[frames[k].ret] /\ (frames[k].list # None => h2[frames[k].list] = heap[frames[k].list])
      BY <1>8, <1>9, <3>2
    <3> QED BY <1>3, <3>1, <3>3, AheadSame
  <2> QED BY <2>1, <2>2
<1>13. \A g, a, b, o : InFrames(frames', g, a, b, o) <=> InFrames(frames, g, a, b, o)
  <2>1. Onward(Fr).ret = Fr.ret /\ Onward(Fr).list = Fr.list
    BY <1>1 DEF Onward, MaySet, Part
  <2>2. \A k \in DOMAIN frames : k = n \/ k \in 1..n - 1
    BY <1>4
  <2>3. \A k \in DOMAIN frames : frames'[k].ret = frames[k].ret /\ frames'[k].list = frames[k].list
    BY <1>4, <2>1, <2>2
  <2>4. DOMAIN frames' = DOMAIN frames
    BY <1>4
  <2> QED BY <2>3, <2>4, SameFrames
<1>14. ASSUME NEW o \in Objs, NEW g, NEW a, NEW b
       PROVE  At(h2, frames', replies', g, a, b, o) <=>
              \/ At(heap, frames, replies, g, a, b, o)
              \/ Refers(v, o) /\ g = SlotKind(Fr) /\ a = SlotOf(Fr) /\ b = SlotName(Fr)
  <2>1. InHeap(h2, g, a, b, o) <=>
          InHeap(heap, g, a, b, o) \/ (g = SlotKind(Fr) /\ a = SlotOf(Fr) /\ b = SlotName(Fr) /\ Refers(v, o))
    BY <1>8 DEF PlaceGained
  <2>2. InFrames(frames', g, a, b, o) <=> InFrames(frames, g, a, b, o)
    BY <1>13
  <2>3. replies' = replies
    OBVIOUS
  <2> QED BY <2>1, <2>2, <2>3, Zenon DEF At
<1> QED BY <1>7, <1>11, <1>12, <1>14

LEMMA SetScalarPlaces ==
  ASSUME IInv, Placing, AtItem, SetScalar
  PROVE  Placing'
<1>1. /\ Scalar(FieldOf(Fr), Here(Fr)) \in Value /\ ~IsObject(Scalar(FieldOf(Fr), Here(Fr)))
      /\ heap \in Heap /\ used' = used /\ used \in 0..Len(Arena)
  BY AtItemFacts, ScalarTyped DEF SetScalar, IInv, TypeOK
<1>2. PICK v : v = Scalar(FieldOf(Fr), Here(Fr))
  OBVIOUS
<1>3. /\ heap' = Set(heap, Fr, v) /\ frames' = [frames EXCEPT ![Len(frames)] = Onward(Fr)]
      /\ UNCHANGED <<msgs, held, replies>>
  BY <1>2 DEF SetScalar
<1>4. Unmade(heap, used) /\ Sole(heap, used, frames, replies) /\ v \in Value
  BY <1>1, <1>2 DEF Placing, Placed
<1>5. /\ Unmade(heap', used) /\ \A k \in DOMAIN frames' : Ahead(msgs', heap', frames'[k])
      /\ \A o \in Objs : \A g, a, b : At(heap', frames', replies', g, a, b, o) <=>
              \/ At(heap, frames, replies, g, a, b, o)
              \/ Refers(v, o) /\ g = SlotKind(Fr) /\ a = SlotOf(Fr) /\ b = SlotName(Fr)
  BY <1>1, <1>3, <1>4, SetStep, Zenon
<1>6. \A o : ~Refers(v, o)
  BY <1>1, <1>2 DEF Refers
<1>7. Made(used) \subseteq Objs
  BY <1>1, MadeObjs
<1>8. Sole(heap', used, frames', replies')
  BY <1>4, <1>5, <1>6, <1>7, Kept, Zenon
<1> QED BY <1>1, <1>5, <1>8 DEF Placing, Placed

LEMMA SetBytesPlaces ==
  ASSUME IInv, Placing, AtItem, SetBytes
  PROVE  Placing'
<1>1. /\ FieldOf(Fr) \in FieldDescriptor /\ FieldOf(Fr).kind = "bytes" /\ Room(1)
      /\ Here(Fr) \in ItemsOf(FieldOf(Fr), msgs) /\ heap \in Heap /\ used \in 0..Len(Arena)
      /\ used' = used + 1
  BY AtItemFacts DEF SetBytes, IInv, TypeOK
<1>2. PICK c, h, v : /\ c = Listing(BytesOf(Here(Fr))) /\ h = Allocate(heap, <<c>>)
                     /\ v = [tag |-> "typed", ref |-> Arena[used + 1]]
  OBVIOUS
<1>3. c \in Contents /\ NoRefs(c)
  <2>1. BytesOf(Here(Fr)) \in Seq(Value) /\ \A k \in DOMAIN BytesOf(Here(Fr)) : ~IsObject(BytesOf(Here(Fr))[k])
    BY <1>1, BytesTyped
  <2>2. BytesOf(Here(Fr)) \in Seq(Slot)
    BY <2>1 DEF Slot
  <2>3. c \in Contents /\ c.elems = BytesOf(Here(Fr)) /\ \A n \in Names : c.props[n] = Undefined
    BY <1>2, <2>2, ListingTyped DEF Listing, Blank
  <2> QED BY <2>1, <2>3 DEF NoRefs, Undefined, IsObject
<1>4. Unmade(heap, used) /\ Sole(heap, used, frames, replies)
  BY DEF Placing, Placed
<1>5. /\ \A g, a, b, o : InHeap(h, g, a, b, o) <=> InHeap(heap, g, a, b, o)
      /\ Unmade(h, used + 1) /\ \A o \in Made(used) : h[o] = heap[o]
      /\ h \in Heap /\ Arena[used + 1] \in Objs
      /\ Made(used + 1) = Made(used) \cup {Arena[used + 1]}
      /\ used \in Nat /\ used + 1 <= Len(Arena)
  BY <1>1, <1>2, <1>3, <1>4, OneNewPlace
<1>6. /\ heap' = Set(h, Fr, v) /\ frames' = [frames EXCEPT ![Len(frames)] = Onward(Fr)]
      /\ UNCHANGED <<msgs, held, replies>>
  BY <1>2 DEF SetBytes
<1>7. v \in Value /\ \A o : Refers(v, o) <=> o = Arena[used + 1]
  BY <1>2, <1>5, RefTyped DEF Refers
<1>8. Made(used) \subseteq Made(used + 1) /\ Made(used) \subseteq Objs
  BY <1>1, <1>5, MadeObjs
<1>9. PICK u : u = used + 1
  OBVIOUS
<1>10. /\ Unmade(heap', u) /\ \A k \in DOMAIN frames' : Ahead(msgs', heap', frames'[k])
      /\ \A o \in Objs : \A g, a, b : At(heap', frames', replies', g, a, b, o) <=>
              \/ At(heap, frames, replies, g, a, b, o)
              \/ Refers(v, o) /\ g = SlotKind(Fr) /\ a = SlotOf(Fr) /\ b = SlotName(Fr)
  BY <1>5, <1>6, <1>7, <1>8, <1>9, SetStep, Zenon
<1>11. GainedOne(heap, frames, replies, heap', frames', replies', Arena[used + 1],
                 SlotKind(Fr), SlotOf(Fr), SlotName(Fr))
  BY <1>7, <1>10 DEF GainedOne
<1>12. Sole(heap', used + 1, frames', replies')
  BY <1>4, <1>5, <1>8, <1>11, GainsOne, Zenon
<1> QED BY <1>1, <1>9, <1>10, <1>12 DEF Placing, Placed

\* A new object refers to nothing.
LEMMA BlankRefs ==
  /\ Blank \in Contents /\ NoRefs(Blank)
  /\ \A t \in Types : \A i : PropsAhead(Blank, Schema[t], i)
<1>1. \A n \in Names : ~IsObject(Blank.props[n])
  BY DEF Blank, Undefined, IsObject
<1>2. \A k \in DOMAIN Blank.elems : FALSE
  BY DEF Blank
<1>3. \A t \in Types : \A n \in DOMAIN Schema[t] : Schema[t][n].name \in Names
  BY NamesOfFields
<1>4. "$unknownFields" \in Names
  BY ReaderAssumption
<1> QED BY <1>1, <1>2, <1>3, <1>4, BlankTyped DEF NoRefs, PropsAhead

\* Making an object changes no activation's own.
LEMMA NewObject ==
  ASSUME IInv, Placing, Room(1), NEW c \in Contents, NoRefs(c), NEW h, h = Allocate(heap, <<c>>),
         NEW o1, o1 = Arena[used + 1]
  PROVE  /\ \A g, a, b, o : InHeap(h, g, a, b, o) <=> InHeap(heap, g, a, b, o)
         /\ Unmade(h, used + 1) /\ h[o1] = c /\ o1 \in Objs /\ o1 \notin Made(used)
         /\ \A o \in Made(used) : h[o] = heap[o]
         /\ \A k \in DOMAIN frames : Holds(frames[k], used) /\ Ahead(msgs, h, frames[k])
         /\ used \in Nat /\ used + 1 <= Len(Arena) /\ Made(used) \subseteq Objs
         /\ Sole(heap, used, frames, replies)
<1>1. /\ heap \in Heap /\ used \in 0..Len(Arena) /\ frames \in Seq(Part)
      /\ Unmade(heap, used) /\ Sole(heap, used, frames, replies)
      /\ \A k \in DOMAIN frames : Ahead(msgs, heap, frames[k])
  BY DEF IInv, TypeOK, Placing, Placed
<1>2. /\ \A g, a, b, o : InHeap(h, g, a, b, o) <=> InHeap(heap, g, a, b, o)
      /\ Unmade(h, used + 1) /\ h[o1] = c /\ o1 \in Objs /\ o1 \notin Made(used)
      /\ \A o \in Made(used) : h[o] = heap[o]
      /\ used \in Nat /\ used + 1 <= Len(Arena)
  BY <1>1, OneNewPlace
<1>3. ASSUME NEW k \in DOMAIN frames  PROVE Holds(frames[k], used) /\ Ahead(msgs, h, frames[k])
  <2>1. frames[k] \in Part
    BY <1>1
  <2>2. Holds(frames[k], used)
    BY <1>1, <2>1, FramesApart
  <2>3. h[frames[k].ret] = heap[frames[k].ret] /\ (frames[k].list # None => h[frames[k].list] = heap[frames[k].list])
    BY <1>2, <2>2 DEF Holds
  <2> QED BY <1>1, <2>2, <2>3, AheadSame
<1> QED BY <1>1, <1>2, <1>3, MadeObjs

LEMMA EnterPlaces ==
  ASSUME IInv, Placing, AtItem, EnterMessage
  PROVE  Placing'
<1>1. PICK n, o1, h, fr : /\ n = Len(frames) /\ o1 = Arena[used + 1] /\ h = heap'
                          /\ fr = NewPart(Here(Fr)[1], Arena[used + 1], TRUE, FALSE)
  OBVIOUS
<1>2. /\ Len(frames') = n + 1 /\ DOMAIN frames' = 1..n + 1
      /\ frames'[n + 1] = fr /\ fr \in Part
      /\ fr.ret = o1 /\ fr.list = None /\ fr.i = 1
      /\ DOMAIN frames = 1..n /\ n \in Nat \ {0}
      /\ \A k \in 1..n : frames'[k] = frames[k]
  BY <1>1, EnterFacts
<1>3. /\ h = Allocate(heap, <<Blank>>) /\ used' = used + 1 /\ Room(1)
      /\ UNCHANGED <<held, replies, msgs>>
  BY <1>1 DEF EnterMessage
<1>4. /\ \A g, a, b, o : InHeap(h, g, a, b, o) <=> InHeap(heap, g, a, b, o)
      /\ Unmade(h, used + 1) /\ h[o1] = Blank /\ o1 \in Objs
      /\ \A k \in DOMAIN frames : Ahead(msgs, h, frames[k])
      /\ used \in Nat /\ used + 1 <= Len(Arena) /\ Made(used) \subseteq Objs
      /\ Sole(heap, used, frames, replies)
  BY <1>1, <1>3, BlankRefs, NewObject
<1>5. Ahead(msgs, h, fr)
  <2>1. msgs[fr.msg].type \in Types /\ None \notin Objs
    BY <1>2, PartFacts DEF IInv
  <2> QED BY <1>2, <1>4, <2>1, BlankRefs DEF Ahead
<1>6. \A k \in DOMAIN frames' : Ahead(msgs, h, frames'[k])
  <2>1. \A k \in DOMAIN frames' : k = n + 1 \/ k \in 1..n
    BY <1>2
  <2> QED BY <1>2, <1>4, <1>5, <2>1
<1>7. ASSUME NEW o \in Objs, NEW g, NEW a, NEW b
      PROVE  InFrames(frames', g, a, b, o) <=>
               InFrames(frames, g, a, b, o) \/ (o = o1 /\ g = "frame" /\ a = n + 1 /\ b = 0)
  <2>1. None \notin Objs
    BY PayloadAssumption
  <2>2. CASE a = n + 1
    <3>1. a \in DOMAIN frames' /\ a \notin DOMAIN frames
      BY <1>2, <2>2
    <3> QED BY <1>2, <2>1, <2>2, <3>1 DEF InFrames
  <2>3. CASE a # n + 1
    <3>1. (a \in DOMAIN frames' <=> a \in DOMAIN frames) /\ (a \in DOMAIN frames => frames'[a] = frames[a])
      BY <1>2, <2>3
    <3> QED BY <2>3, <3>1 DEF InFrames
  <2> QED BY <2>2, <2>3
<1>8. GainedOne(heap, frames, replies, h, frames', replies', o1, "frame", n + 1, 0)
  <2>1. ASSUME NEW o \in Objs, NEW g, NEW a, NEW b
        PROVE  At(h, frames', replies', g, a, b, o) <=>
                 \/ At(heap, frames, replies, g, a, b, o)
                 \/ o = o1 /\ g = "frame" /\ a = n + 1 /\ b = 0
    BY <1>3, <1>4, <1>7 DEF At
  <2> QED BY <2>1 DEF GainedOne
<1>9. Sole(h, used + 1, frames', replies')
  BY <1>1, <1>4, <1>8, GainsOne
<1> QED BY <1>1, <1>3, <1>4, <1>6, <1>9 DEF Placing, Placed

LEMMA BeginListPlaces ==
  ASSUME IInv, Placing, BeginList
  PROVE  Placing'
<1>1. PICK n, o1, h, fr, undefs : /\ n = Len(frames) /\ o1 = Arena[used + 1] /\ h = heap'
                          /\ fr = [Fr EXCEPT !.list = o1, !.j = 1]
                          /\ undefs = [k \in DOMAIN Items(Fr) |-> Undefined]
  OBVIOUS
<1>2. /\ Len(frames') = n /\ DOMAIN frames' = 1..n /\ DOMAIN frames = 1..n
      /\ frames'[n] = fr /\ frames[n] = Fr /\ n \in Nat \ {0}
      /\ \A k \in 1..n - 1 : frames'[k] = frames[k]
      /\ Fr \in Part /\ Fr.i <= KnownAt(msgs, Fr) /\ undefs \in Seq(Slot)
  BY <1>1, BeginListFacts
<1>3. /\ h = Allocate(heap, <<Listing(undefs)>>) /\ used' = used + 1 /\ Room(1)
      /\ UNCHANGED <<held, replies, msgs>> /\ ~InList(Fr)
  BY <1>1 DEF BeginList
<1>4. PICK c : c = Listing(undefs)
  OBVIOUS
<1>5. c \in Contents /\ c.elems = undefs /\ NoRefs(c)
  <2>1. c \in Contents /\ c.elems = undefs /\ c.props = Blank.props
    BY <1>2, <1>4, ListingTyped DEF Listing, Blank
  <2>2. \A k \in DOMAIN undefs : ~IsObject(undefs[k])
    BY <1>1 DEF Undefined, IsObject
  <2>3. \A k \in Names : ~IsObject(c.props[k])
    BY <2>1, BlankRefs DEF NoRefs
  <2> QED BY <2>1, <2>2, <2>3 DEF NoRefs
<1>6. /\ \A g, a, b, o : InHeap(h, g, a, b, o) <=> InHeap(heap, g, a, b, o)
      /\ Unmade(h, used + 1) /\ h[o1] = c /\ o1 \in Objs /\ o1 \notin Made(used)
      /\ \A k \in DOMAIN frames : Holds(frames[k], used) /\ Ahead(msgs, h, frames[k])
      /\ used \in Nat /\ used + 1 <= Len(Arena) /\ Made(used) \subseteq Objs
      /\ Sole(heap, used, frames, replies)
  BY <1>1, <1>3, <1>4, <1>5, NewObject
<1>7. /\ fr.ret = Fr.ret /\ fr.msg = Fr.msg /\ fr.i = Fr.i /\ fr.list = o1 /\ fr.j = 1
      /\ Fr.list = None /\ None \notin Objs /\ Fr.ret # o1
  <2>1. Fr.list = None /\ None \notin Objs
    BY <1>2, <1>3, PartFacts DEF IInv
  <2>2. n \in DOMAIN frames
    BY <1>2
  <2>3. Fr.ret \in Made(used)
    BY <1>2, <1>6, <2>2 DEF Holds
  <2> QED BY <1>1, <1>2, <1>6, <2>1, <2>3 DEF Part
<1>8. Ahead(msgs, h, fr)
  <2>1. PropsAhead(h[fr.ret], Schema[msgs[fr.msg].type], fr.i)
    <3>1. n \in DOMAIN frames
      BY <1>2
    <3> QED BY <1>2, <1>6, <1>7, <3>1 DEF Ahead
  <2>2. ItemsAt(msgs, fr) = ItemsAt(msgs, Fr) /\ Items(Fr) = ItemsAt(msgs, Fr)
    BY <1>7 DEF ItemsAt, Items
  <2>3. Items(Fr) \in Seq(ItemsOf(FieldOf(Fr), msgs))
    BY <1>2, PartFacts DEF IInv
  <2>4. DOMAIN Items(Fr) = 1..Len(Items(Fr))
    BY <2>3
  <2>5. DOMAIN undefs = DOMAIN Items(Fr) /\ \A k \in DOMAIN undefs : ~IsObject(undefs[k])
    BY <1>1 DEF Undefined, IsObject
  <2>6. ElemsAhead(c, Len(ItemsAt(msgs, fr)), 1)
    BY <1>5, <2>2, <2>4, <2>5 DEF ElemsAhead
  <2> QED BY <1>6, <1>7, <2>1, <2>6 DEF Ahead
<1>9. \A k \in DOMAIN frames' : Ahead(msgs, h, frames'[k])
  <2>1. \A k \in DOMAIN frames' : k \in DOMAIN frames /\ (k = n \/ k \in 1..n - 1)
    BY <1>2
  <2> QED BY <1>2, <1>6, <1>8, <2>1
<1>10. ASSUME NEW o \in Objs, NEW g, NEW a, NEW b
      PROVE  InFrames(frames', g, a, b, o) <=>
               InFrames(frames, g, a, b, o) \/ (o = o1 /\ g = "frame" /\ a = n /\ b = 0)
  <2>1. CASE a = n
    <3>1. a \in DOMAIN frames' /\ a \in DOMAIN frames
      BY <1>2, <2>1
    <3>2. (o \in {frames'[a].ret, frames'[a].list}) <=> (o \in {frames[a].ret, frames[a].list} \/ o = o1)
      BY <1>2, <1>7, <2>1
    <3> QED BY <2>1, <3>1, <3>2 DEF InFrames
  <2>2. CASE a # n
    <3>1. (a \in DOMAIN frames' <=> a \in DOMAIN frames) /\ (a \in DOMAIN frames => frames'[a] = frames[a])
      BY <1>2, <2>2
    <3> QED BY <2>2, <3>1 DEF InFrames
  <2> QED BY <2>1, <2>2
<1>11. GainedOne(heap, frames, replies, h, frames', replies', o1, "frame", n, 0)
  <2>1. ASSUME NEW o \in Objs, NEW g, NEW a, NEW b
        PROVE  At(h, frames', replies', g, a, b, o) <=>
                 \/ At(heap, frames, replies, g, a, b, o)
                 \/ o = o1 /\ g = "frame" /\ a = n /\ b = 0
    BY <1>3, <1>6, <1>10 DEF At
  <2> QED BY <2>1 DEF GainedOne
<1>12. Sole(h, used + 1, frames', replies')
  BY <1>1, <1>6, <1>11, GainsOne
<1> QED BY <1>1, <1>3, <1>6, <1>9, <1>12 DEF Placing, Placed

LEMMA SkipPlaces ==
  ASSUME IInv, Placing, SkipAbsent
  PROVE  Placing'
<1>1. PICK n, fr : n = Len(frames) /\ fr = [Fr EXCEPT !.i = Fr.i + 1]
  OBVIOUS
<1>2. /\ DOMAIN frames' = 1..n /\ DOMAIN frames = 1..n
      /\ frames'[n] = fr /\ frames[n] = Fr /\ n \in Nat \ {0}
      /\ \A k \in 1..n - 1 : frames'[k] = frames[k]
  BY <1>1, SkipKeeps, Zenon
<1>3. /\ frames \in Seq(Part) /\ used \in 0..Len(Arena)
      /\ Unmade(heap, used) /\ Sole(heap, used, frames, replies)
      /\ \A k \in DOMAIN frames : Ahead(msgs, heap, frames[k])
      /\ UNCHANGED <<msgs, heap, used, replies, held>>
  BY DEF IInv, TypeOK, Placing, Placed, SkipAbsent
<1>4. Fr \in Part /\ Ahead(msgs, heap, Fr)
  <2>1. n \in DOMAIN frames
    BY <1>2
  <2> QED BY <1>2, <1>3, <2>1
<1>5. /\ fr.ret = Fr.ret /\ fr.msg = Fr.msg /\ fr.i = Fr.i + 1 /\ fr.list = Fr.list /\ fr.j = Fr.j
      /\ Fr.i \in Nat
  BY <1>1, <1>4 DEF Part
<1>6. Fr.list = None
  <2>1. frames # <<>> /\ Fits(msgs, Fr) /\ FieldOf(Fr).label = "optional"
    BY FrFacts DEF SkipAbsent, InParse
  <2> QED BY <2>1 DEF Fits, FieldOf, FieldAt
<1>7. Ahead(msgs, heap, fr)
  <2>1. PICK fields, i : fields = Schema[msgs[Fr.msg].type] /\ i = Fr.i
    OBVIOUS
  <2>2. PropsAhead(heap[Fr.ret], fields, i) /\ i \in Nat
    BY <1>4, <1>5, <2>1 DEF Ahead
  <2>3. DOMAIN fields \subseteq Nat
    <3>1. fields \in Seq(FieldDescriptor)
      BY <1>4, <2>1, PartFacts, NamesOfFields DEF IInv
    <3> QED BY <3>1
  <2>4. \A m \in DOMAIN fields : m >= i + 1 => m >= i
    BY <2>2, <2>3
  <2>5. PropsAhead(heap[Fr.ret], fields, i + 1)
    BY <2>2, <2>4 DEF PropsAhead
  <2> QED BY <1>4, <1>5, <1>6, <2>1, <2>5 DEF Ahead
<1>8. \A k \in DOMAIN frames' : Ahead(msgs, heap, frames'[k])
  <2>1. \A k \in DOMAIN frames' : k \in DOMAIN frames /\ (k = n \/ k \in 1..n - 1)
    BY <1>2
  <2> QED BY <1>2, <1>3, <1>7, <2>1
<1>9. \A g, a, b, o : InFrames(frames', g, a, b, o) <=> InFrames(frames, g, a, b, o)
  <2>1. \A k \in DOMAIN frames : k = n \/ k \in 1..n - 1
    BY <1>2
  <2>2. \A k \in DOMAIN frames : frames'[k].ret = frames[k].ret /\ frames'[k].list = frames[k].list
    BY <1>2, <1>5, <2>1
  <2>3. DOMAIN frames' = DOMAIN frames
    BY <1>2
  <2> QED BY <2>2, <2>3, SameFrames
<1>10. Sole(heap, used, frames', replies)
  <2>1. \A o \in Objs : \A g, a, b : At(heap, frames', replies, g, a, b, o) <=> At(heap, frames, replies, g, a, b, o)
    BY <1>9 DEF At
  <2>2. Made(used) \subseteq Objs
    BY <1>3, MadeObjs
  <2> QED BY <1>3, <2>1, <2>2, Kept, Zenon
<1> QED BY <1>3, <1>8, <1>10 DEF Placing, Placed

\* An object that an activation holds is nowhere else.
LEMMA HeldOnly ==
  ASSUME NEW h, NEW u, NEW fs, NEW rs, Sole(h, u, fs, rs), NEW k \in DOMAIN fs,
         NEW r \in Made(u), r \in {fs[k].ret, fs[k].list}
  PROVE  \A g, a, b : At(h, fs, rs, g, a, b, r) <=> g = "frame" /\ a = k /\ b = 0
<1>1. At(h, fs, rs, "frame", k, 0, r)
  BY DEF At, InFrames
<1>2. PICK g, a, b : OnlyAt(h, fs, rs, r, g, a, b)
  BY DEF Sole, Owned
<1> QED BY <1>1, <1>2 DEF OnlyAt

LEMMA EndListPlaces ==
  ASSUME IInv, Placing, EndList
  PROVE  Placing'
<1>1. PICK n, r, v, done, h : /\ n = Len(frames) /\ r = Fr.list /\ h = heap'
                              /\ v = [tag |-> ListTag(Fr), ref |-> Fr.list]
                              /\ done = [Fr EXCEPT !.list = None]
  OBVIOUS
<1>2. /\ used' = used /\ r \in Objs /\ Refers(v, r)
      /\ DOMAIN frames' = 1..n /\ DOMAIN frames = 1..n
      /\ frames'[n].list = None /\ frames'[n].i = Fr.i + 1
      /\ frames'[n].ret = Fr.ret /\ frames'[n].msg = Fr.msg
      /\ frames[n] = Fr /\ n \in Nat \ {0} /\ Fr \in Part /\ Fr.i <= KnownAt(msgs, Fr)
      /\ \A k \in 1..n - 1 : frames'[k] = frames[k]
  BY <1>1, EndListFacts DEF Refers
<1>3. /\ msgs \in Tables /\ heap \in Heap /\ frames \in Seq(Part) /\ used \in 0..Len(Arena)
      /\ Unmade(heap, used) /\ Sole(heap, used, frames, replies)
      /\ \A k \in DOMAIN frames : Ahead(msgs, heap, frames[k])
      /\ UNCHANGED <<msgs, replies, held>> /\ h = Set(heap, done, v)
  BY <1>1 DEF IInv, TypeOK, Placing, Placed, EndList
<1>4. n \in DOMAIN frames /\ None \notin Objs
  BY <1>2, PayloadAssumption
<1>5. /\ done \in Part /\ done.list = None /\ done.i = Fr.i /\ done.ret = Fr.ret /\ done.msg = Fr.msg
      /\ Fr.i \in Nat /\ Fr.ret \in Objs
  BY <1>1, <1>2 DEF Part
<1>6. MaySet(heap, done)
  <2>1. Ahead(msgs, heap, Fr)
    BY <1>2, <1>3, <1>4
  <2>2. Ahead(msgs, heap, done)
    BY <1>4, <1>5, <2>1 DEF Ahead
  <2>3. KnownAt(msgs, done) = KnownAt(msgs, Fr)
    BY <1>5 DEF KnownAt
  <2> QED BY <1>2, <1>5, <2>2, <2>3 DEF MaySet
<1>7. v \in Value
  BY <1>1, <1>2, RefTyped DEF ListTag
<1>8. /\ PlaceGained(heap, h, SlotKind(done), SlotOf(done), SlotName(done), v)
      /\ SlotOf(done) = Fr.ret /\ \A x \in Objs : x # Fr.ret => h[x] = heap[x]
      /\ Ahead(msgs, h, Onward(done))
  <2>1. SetDone(heap, h, done, v)
    BY <1>3, <1>6, <1>7, SetPlace, Zenon
  <2>2. SlotOf(done) = Fr.ret
    BY <1>5 DEF SlotOf, InList
  <2> QED BY <2>1, <2>2 DEF SetDone
<1>9. /\ \A k \in DOMAIN frames : Holds(frames[k], used)
      /\ \A k \in DOMAIN frames : k # n => Apart(Fr, frames[k])
  <2>1. \A k \in DOMAIN frames : frames[k] \in Part
    BY <1>3
  <2> QED BY <1>2, <1>3, <1>4, <2>1, FramesApart
<1>10. r \in Made(used) /\ Fr.ret \in Made(used) /\ r # Fr.ret
  BY <1>1, <1>2, <1>3, <1>4, <1>9 DEF Holds, Ahead
<1>11. Unmade(h, used)
  BY <1>3, <1>8, <1>10 DEF Unmade
<1>12. ASSUME NEW k \in DOMAIN frames'  PROVE Ahead(msgs, h, frames'[k])
  <2>1. CASE k = n
    <3>1. /\ Onward(done).list = None /\ Onward(done).i = Fr.i + 1
          /\ Onward(done).ret = Fr.ret /\ Onward(done).msg = Fr.msg
      BY <1>5 DEF Onward, InList, Part
    <3> QED BY <1>2, <1>8, <2>1, <3>1 DEF Ahead
  <2>2. CASE k # n
    <3>1. k \in DOMAIN frames /\ frames'[k] = frames[k]
      BY <1>2, <2>2
    <3>2. Holds(frames[k], used) /\ Apart(Fr, frames[k])
      BY <1>9, <2>2, <3>1
    <3>3. frames[k].ret # Fr.ret /\ frames[k].list # Fr.ret
      BY <1>4, <1>5, <3>2 DEF Apart
    <3>4. Made(used) \subseteq Objs
      BY <1>3, MadeObjs
    <3>5. h[frames[k].ret] = heap[frames[k].ret] /\ (frames[k].list # None => h[frames[k].list] = heap[frames[k].list])
      BY <1>8, <3>2, <3>3, <3>4 DEF Holds
    <3> QED BY <1>3, <3>1, <3>5, AheadSame
  <2> QED BY <2>1, <2>2
<1>13. \A g, a, b : At(heap, frames, replies, g, a, b, r) <=> g = "frame" /\ a = n /\ b = 0
  BY <1>1, <1>2, <1>3, <1>4, <1>10, HeldOnly
<1>14. ASSUME NEW o \in Objs, NEW g, NEW a, NEW b
       PROVE  InFrames(frames', g, a, b, o) <=> InFrames(frames, g, a, b, o) /\ ~(o = r /\ g = "frame" /\ a = n /\ b = 0)
  <2>1. CASE a = n
    <3>1. a \in DOMAIN frames' /\ a \in DOMAIN frames
      BY <1>2, <2>1
    <3>2. (o \in {frames'[a].ret, frames'[a].list}) <=> (o \in {frames[a].ret, frames[a].list} /\ o # r)
      BY <1>1, <1>2, <1>4, <1>10, <2>1
    <3> QED BY <2>1, <3>1, <3>2 DEF InFrames
  <2>2. CASE a # n
    <3>1. (a \in DOMAIN frames' <=> a \in DOMAIN frames) /\ (a \in DOMAIN frames => frames'[a] = frames[a])
      BY <1>2, <2>2
    <3> QED BY <2>2, <3>1 DEF InFrames
  <2> QED BY <2>1, <2>2
<1>15. Moved(heap, frames, replies, h, frames', replies', r, SlotKind(done), SlotOf(done), SlotName(done))
  <2>1. ASSUME NEW o \in Objs, NEW g, NEW a, NEW b
        PROVE  At(h, frames', replies', g, a, b, o) <=>
                 \/ o # r /\ At(heap, frames, replies, g, a, b, o)
                 \/ o = r /\ g = SlotKind(done) /\ a = SlotOf(done) /\ b = SlotName(done)
    <3>1. Refers(v, o) <=> o = r
      BY <1>2 DEF Refers
    <3>2. InHeap(h, g, a, b, o) <=> \/ InHeap(heap, g, a, b, o)
                                    \/ g = SlotKind(done) /\ a = SlotOf(done) /\ b = SlotName(done) /\ o = r
      BY <1>8, <3>1 DEF PlaceGained
    <3>3. CASE o = r
      <4>1. ~InHeap(heap, g, a, b, r) /\ ~InReplies(replies, g, a, b, r)
            /\ (InFrames(frames, g, a, b, r) => g = "frame" /\ a = n /\ b = 0)
        <5>1. InHeap(heap, g, a, b, r) => g # "frame"
          BY DEF InHeap, InContents
        <5>2. InReplies(replies, g, a, b, r) => g # "frame"
          BY DEF InReplies
        <5> QED BY <1>13, <5>1, <5>2 DEF At
      <4> QED BY <1>3, <1>14, <3>2, <3>3, <4>1 DEF At
    <3>4. CASE o # r
      BY <1>3, <1>14, <3>2, <3>4 DEF At
    <3> QED BY <3>3, <3>4
  <2> QED BY <2>1 DEF Moved
<1>16. Sole(h, used, frames', replies')
  <2>1. Made(used) \subseteq Objs
    BY <1>3, MadeObjs
  <2> QED BY <1>3, <1>10, <1>15, <2>1, Moves, Zenon
<1> QED BY <1>1, <1>2, <1>3, <1>11, <1>12, <1>16 DEF Placing, Placed

\* The object of the innermost activation is handed over; its own place in the
\* activation may have been written to before.
LEMMA DeliverPlaces ==
  ASSUME IInv, frames # <<>>, NEW h \in Heap, NEW u \in 0..Len(Arena), Deliver(h, Fr), msgs' = msgs,
         Sole(h, u, frames, replies), Unmade(h, u), Fr.list = None,
         \A k \in 1..Len(frames) - 1 : Ahead(msgs, h, frames[k])
  PROVE  Placed(msgs', heap', u, frames', replies')
<1>1. PICK m, r, v, rest, h2 : /\ m = Len(frames) /\ r = Fr.ret /\ rest = Front(frames) /\ h2 = heap'
                               /\ v = [tag |-> "object", ref |-> Fr.ret]
  OBVIOUS
<1>2. /\ m \in Nat \ {0} /\ DOMAIN frames = 1..m /\ m \in DOMAIN frames /\ Fr = frames[m]
      /\ Fr \in Part /\ frames \in Seq(Part) /\ msgs \in Tables
  BY <1>1, FrFacts DEF IInv
<1>3. r \in Objs /\ None \notin Objs /\ \A k \in DOMAIN frames : frames[k] \in Part
  <2>1. \A k \in DOMAIN frames : frames[k] \in Part
    BY <1>2
  <2>2. r \in Objs /\ None \notin Objs
    BY <1>1, <1>2, PartFacts
  <2> QED BY <2>1, <2>2
<1>4. v \in Value /\ \A o : Refers(v, o) <=> o = r
  BY <1>1, <1>3, RefTyped DEF Refers
<1>5. /\ \A k \in DOMAIN frames : Holds(frames[k], u)
      /\ \A j, k \in DOMAIN frames : k # j => Apart(frames[j], frames[k])
  BY <1>3, FramesApart
<1>6. r \in Made(u) /\ Made(u) \subseteq Objs
  BY <1>1, <1>2, <1>5, MadeObjs DEF Holds
<1>7. \A g, a, b : At(h, frames, replies, g, a, b, r) <=> g = "frame" /\ a = m /\ b = 0
  BY <1>1, <1>2, <1>6, HeldOnly
<1>8. ASSUME NEW g, NEW a, NEW b
      PROVE  /\ ~InHeap(h, g, a, b, r) /\ ~InReplies(replies, g, a, b, r)
             /\ (InFrames(frames, g, a, b, r) => g = "frame" /\ a = m /\ b = 0)
  <2>1. InHeap(h, g, a, b, r) => g # "frame"
    BY DEF InHeap, InContents
  <2>2. InReplies(replies, g, a, b, r) => g # "frame"
    BY DEF InReplies
  <2> QED BY <1>7, <2>1, <2>2 DEF At
<1>9. CASE rest = <<>>
  <2>1. /\ h2 = h /\ replies' = [replies EXCEPT ![Len(replies)].value = v]
        /\ frames' = <<>> /\ held' = held - 1
    BY <1>1, <1>9 DEF Deliver
  <2>2. PICK n : n = Len(replies)
    OBVIOUS
  <2>3. /\ n \in Nat \ {0} /\ DOMAIN replies = 1..n /\ DOMAIN replies' = 1..n
        /\ replies[n].value = Pending /\ replies'[n].value = v
        /\ \A k \in 1..n - 1 : replies'[k] = replies[k]
    BY <1>4, <2>1, <2>2, AnswerFilled
  <2>4. m = 1
    <3>1. Len(rest) = m - 1
      BY <1>1, <1>2, FrontOfStack
    <3>2. Len(rest) = 0
      BY <1>9
    <3> QED BY <1>2, <3>1, <3>2
  <2>5. \A o : ~Refers(replies[n].value, o)
    BY <2>3 DEF Refers, Pending, IsObject
  <2>6. ASSUME NEW o \in Objs, NEW g, NEW a, NEW b
        PROVE  InReplies(replies', g, a, b, o) <=>
                 InReplies(replies, g, a, b, o) \/ (o = r /\ g = "reply" /\ a = n /\ b = 0)
    <3>1. CASE a = n
      <4>1. a \in DOMAIN replies' /\ a \in DOMAIN replies
        BY <2>3, <3>1
      <4> QED BY <1>4, <2>3, <2>5, <3>1, <4>1 DEF InReplies
    <3>2. CASE a # n
      <4>1. (a \in DOMAIN replies' <=> a \in DOMAIN replies) /\ (a \in DOMAIN replies => replies'[a] = replies[a])
        BY <2>3, <3>2
      <4> QED BY <3>2, <4>1 DEF InReplies
    <3> QED BY <3>1, <3>2
  <2>7. ASSUME NEW o \in Objs, NEW g, NEW a, NEW b
        PROVE  ~InFrames(frames', g, a, b, o) /\ (InFrames(frames, g, a, b, o) => o = r)
    <3>1. \A k : k \notin DOMAIN frames'
      BY <2>1
    <3>2. a \in DOMAIN frames => a = m
      BY <1>2, <2>4
    <3> QED BY <1>1, <1>2, <1>3, <3>1, <3>2 DEF InFrames
  <2>8. Moved(h, frames, replies, h2, frames', replies', r, "reply", n, 0)
    <3>1. ASSUME NEW o \in Objs, NEW g, NEW a, NEW b
          PROVE  At(h2, frames', replies', g, a, b, o) <=>
                   \/ o # r /\ At(h, frames, replies, g, a, b, o)
                   \/ o = r /\ g = "reply" /\ a = n /\ b = 0
      <4>1. CASE o = r
        BY <1>8, <2>1, <2>6, <2>7, <4>1 DEF At
      <4>2. CASE o # r
        BY <2>1, <2>6, <2>7, <4>2 DEF At
      <4> QED BY <4>1, <4>2
    <3> QED BY <3>1 DEF Moved
  <2>9. Sole(h2, u, frames', replies')
    BY <1>6, <2>8, Moves, Zenon
  <2>10. \A k : k \notin DOMAIN frames'
    BY <2>1
  <2> QED BY <1>1, <2>1, <2>9, <2>10 DEF Placed
<1>10. CASE rest # <<>>
  <2>1. PICK n, up : n = Len(rest) /\ up = frames[n]
    OBVIOUS
  <2>2. /\ h2 = Set(h, Last(rest), v) /\ UNCHANGED <<replies, held, msgs>>
        /\ frames' = WithTop(rest, Onward(Last(rest)))
    BY <1>1, <1>10 DEF Deliver, WithTop
  <2>3. /\ n \in Nat \ {0} /\ n = Len(frames) - 1
        /\ Len(frames') = n /\ DOMAIN frames' = 1..n
        /\ frames'[n] = Onward(frames[n]) /\ frames[n] = Last(rest)
        /\ frames[n] \in Part /\ Fits(msgs, frames[n]) /\ Waits(msgs, frames[n])
        /\ \A k \in 1..n - 1 : frames'[k] = frames[k]
    BY <1>1, <1>10, <2>1, <2>2, Returned, Zenon
  <2>4. n \in DOMAIN frames /\ n # m /\ n \in 1..Len(frames) - 1 /\ m = n + 1 /\ n \in Nat
    BY <1>1, <1>2, <2>3
  <2>5. /\ DOMAIN frames' = 1..n /\ frames'[n] = Onward(up)
         /\ \A k \in 1..n - 1 : frames'[k] = frames[k]
    BY <2>1, <2>3, Zenon
  <2>6. ASSUME NEW k
         PROVE  /\ k \in DOMAIN frames' /\ k # n =>
                     k \in DOMAIN frames /\ k \in 1..Len(frames) - 1 /\ frames'[k] = frames[k]
                /\ k # m => (k \in DOMAIN frames' <=> k \in DOMAIN frames)
                /\ k # m /\ k \in DOMAIN frames => k = n \/ k \in 1..n - 1
                /\ m \notin DOMAIN frames'
    <3>1. ASSUME NEW D, D = 1..n, NEW E, E = 1..m
          PROVE  /\ k \in D /\ k # n => k \in E /\ k \in 1..m - 1 /\ k \in 1..n - 1
                 /\ k # m => (k \in D <=> k \in E)
                 /\ k # m /\ k \in E => k = n \/ k \in 1..n - 1
                 /\ m \notin D
      BY <2>4, <3>1
    <3> QED BY <1>1, <1>2, <2>5, <3>1, Zenon
  <2>7. MaySet(h, up)
    <3>1. up.i <= KnownAt(msgs, up) /\ (up.list # None => up.j <= Len(ItemsAt(msgs, up)) /\ up.j \in 1..Len(ItemsAt(msgs, up)) + 1)
      BY <2>1, <2>3 DEF Fits, Waits
    <3>2. Ahead(msgs, h, up)
      BY <2>1, <2>4
    <3>3. up.list # None => up.j \in 1..Len(ItemsAt(msgs, up))
      <4>1. ItemsAt(msgs, up) \in Seq(ItemsOf(FieldOf(up), msgs))
        BY <1>2, <2>1, <2>3, <3>1, PartFacts
      <4>2. Len(ItemsAt(msgs, up)) \in Nat
        BY <4>1
      <4> QED BY <3>1, <4>2
    <3> QED BY <2>1, <2>3, <3>1, <3>2, <3>3 DEF MaySet
  <2>8. h2 = Set(h, up, v)
    BY <2>1, <2>2, <2>3
  <2>9. /\ PlaceGained(h, h2, SlotKind(up), SlotOf(up), SlotName(up), v)
        /\ SlotOf(up) \in Objs /\ SlotOf(up) \in {up.ret, up.list}
        /\ \A x \in Objs : x # SlotOf(up) => h2[x] = h[x]
        /\ Ahead(msgs, h2, Onward(up))
    <3>1. SetDone(h, h2, up, v)
      BY <1>2, <1>4, <2>7, <2>8, SetPlace, Zenon
    <3> QED BY <3>1 DEF SetDone
  <2>10. SlotOf(up) \in Made(u) /\ SlotOf(up) # None
    <3>1. Holds(up, u)
      BY <1>5, <2>1, <2>4
    <3> QED BY <1>3, <2>9, <3>1 DEF Holds
  <2>11. Unmade(h2, u)
    BY <2>9, <2>10 DEF Unmade
  <2>12. ASSUME NEW k \in DOMAIN frames'  PROVE Ahead(msgs, h2, frames'[k])
    <3>1. CASE k = n
      BY <2>1, <2>3, <2>9, <3>1
    <3>2. CASE k # n
      <4>1. k \in DOMAIN frames /\ k \in 1..Len(frames) - 1 /\ frames'[k] = frames[k]
        BY <2>6, <3>2
      <4>2. Holds(frames[k], u) /\ Apart(up, frames[k])
        BY <1>5, <2>1, <2>4, <3>2, <4>1
      <4>3. frames[k].ret # SlotOf(up) /\ frames[k].list # SlotOf(up)
        BY <2>9, <2>10, <4>2 DEF Apart
      <4>4. h2[frames[k].ret] = h[frames[k].ret] /\ (frames[k].list # None => h2[frames[k].list] = h[frames[k].list])
        BY <1>6, <2>9, <4>2, <4>3 DEF Holds
      <4>5. Ahead(msgs, h, frames[k])
        BY <4>1
      <4> QED BY <4>1, <4>4, <4>5, AheadSame
    <3> QED BY <3>1, <3>2
  <2>13. Onward(up).ret = up.ret /\ Onward(up).list = up.list
    BY <2>7 DEF Onward, MaySet, Part
  <2>14. ASSUME NEW o \in Objs, NEW g, NEW a, NEW b
         PROVE  InFrames(frames', g, a, b, o) <=> InFrames(frames, g, a, b, o) /\ ~(o = r /\ g = "frame" /\ a = m /\ b = 0)
    <3>1. CASE a = m
      <4>1. a \notin DOMAIN frames' /\ a \in DOMAIN frames /\ frames[a] = Fr
        BY <1>2, <2>6, <3>1, Zenon
      <4>2. (o \in {frames[a].ret, frames[a].list}) <=> o = r
        BY <1>1, <1>3, <4>1
      <4> QED BY <3>1, <4>1, <4>2 DEF InFrames
    <3>2. CASE a # m
      <4>1. (a \in DOMAIN frames' <=> a \in DOMAIN frames) /\ (a \in DOMAIN frames => a = n \/ a \in 1..n - 1)
        BY <2>6, <3>2
      <4>2. a \in DOMAIN frames => frames'[a].ret = frames[a].ret /\ frames'[a].list = frames[a].list
        BY <2>1, <2>5, <2>13, <4>1, Zenon
      <4> QED BY <3>2, <4>1, <4>2 DEF InFrames
    <3> QED BY <3>1, <3>2
  <2>15. Moved(h, frames, replies, h2, frames', replies', r, SlotKind(up), SlotOf(up), SlotName(up))
    <3>1. ASSUME NEW o \in Objs, NEW g, NEW a, NEW b
          PROVE  At(h2, frames', replies', g, a, b, o) <=>
                   \/ o # r /\ At(h, frames, replies, g, a, b, o)
                   \/ o = r /\ g = SlotKind(up) /\ a = SlotOf(up) /\ b = SlotName(up)
      <4>1. InHeap(h2, g, a, b, o) <=> \/ InHeap(h, g, a, b, o)
                                       \/ g = SlotKind(up) /\ a = SlotOf(up) /\ b = SlotName(up) /\ o = r
        BY <1>4, <2>9 DEF PlaceGained
      <4>2. CASE o = r
        BY <1>8, <2>2, <2>14, <4>1, <4>2 DEF At
      <4>3. CASE o # r
        BY <2>2, <2>14, <4>1, <4>3 DEF At
      <4> QED BY <4>2, <4>3
    <3> QED BY <3>1 DEF Moved
  <2>16. Sole(h2, u, frames', replies')
    BY <1>6, <2>15, Moves, Zenon
  <2> QED BY <1>1, <2>2, <2>11, <2>12, <2>16 DEF Placed
<1> QED BY <1>9, <1>10

LEMMA EndedNoList ==
  ASSUME IInv, frames # <<>>, Fr.i > Known[msgs[Fr.msg].type]
  PROVE  Fr.list = None
<1>1. Fr \in Part /\ Fits(msgs, Fr) /\ msgs \in Tables
  BY FrFacts DEF IInv
<1>2. Fr.i \in Nat /\ KnownAt(msgs, Fr) \in Nat
  BY <1>1, PartFacts
<1> QED BY <1>1, <1>2 DEF Fits, KnownAt

LEMMA EndPartPlaces ==
  ASSUME IInv, Placing, EndPart
  PROVE  Placing'
<1>1. /\ heap \in Heap /\ used \in 0..Len(Arena) /\ frames \in Seq(Part) /\ frames # <<>>
      /\ Unmade(heap, used) /\ Sole(heap, used, frames, replies)
      /\ \A k \in DOMAIN frames : Ahead(msgs, heap, frames[k])
      /\ Deliver(heap, Fr) /\ msgs' = msgs /\ used' = used
  BY DEF IInv, TypeOK, Placing, Placed, EndPart
<1>2. Fr.list = None
  BY EndedNoList DEF EndPart
<1>3. \A k \in 1..Len(frames) - 1 : Ahead(msgs, heap, frames[k])
  <2>1. \A k \in 1..Len(frames) - 1 : k \in DOMAIN frames
    BY <1>1
  <2> QED BY <1>1, <2>1
<1>4. Placed(msgs', heap', used, frames', replies')
  BY <1>1, <1>2, <1>3, DeliverPlaces
<1> QED BY <1>1, <1>4 DEF Placing

\* The array of unknown fields has the objects it lists, and they have none.
Listed(list, n, g, a, b, o) == g = "elem" /\ a = list /\ b \in 1..n /\ o = Arena[used + b]
Noted(h, list, n) ==
  /\ \A g, a, b, o :
       InHeap(h, g, a, b, o) <=> InHeap(heap, g, a, b, o) \/ Listed(list, n, g, a, b, o)
  /\ Unmade(h, used + (n + 1)) /\ \A o \in Made(used) : h[o] = heap[o]

LEMMA UnknownHeap ==
  ASSUME msgs \in Tables, heap \in Heap, used \in 0..Len(Arena), Unmade(heap, used),
         NEW m \in DOMAIN msgs, NEW n, n = Len(Beyond(m)), Room(n + 1),
         NEW h, h = Allocate(heap, UnknownFields(m)), NEW list, list = Arena[used + (n + 1)]
  PROVE  Noted(h, list, n)
<1>1. PICK c, refs : /\ c = UnknownFields(m)
                     /\ refs = [k \in 1..n |-> [tag |-> "object", ref |-> Arena[used + k]]]
  OBVIOUS
<1>2. /\ n \in Nat /\ c \in Seq(Contents) /\ Len(c) = n + 1
      /\ \A k \in 1..n : c[k].elems = <<>> /\ \A name \in Names : ~IsObject(c[k].props[name])
      /\ c[n + 1] = Listing(refs)
  BY <1>1, UnknownFieldsTyped
<1>3. Filled(heap, h, c, n + 1)
  BY <1>1, <1>2, NewPlaces
<1>4. ASSUME NEW k \in 1..n, NEW g, NEW b, NEW o  PROVE ~InContents(c[k], g, b, o)
  BY <1>2 DEF InContents, Refers
<1>5. ASSUME NEW g, NEW b, NEW o
      PROVE  InContents(c[n + 1], g, b, o) <=> g = "elem" /\ b \in 1..n /\ o = Arena[used + b]
  <2>1. c[n + 1].elems = refs /\ \A name \in Names : ~IsObject(c[n + 1].props[name])
    BY <1>2, BlankRefs DEF Listing, Blank, NoRefs
  <2>2. DOMAIN refs = 1..n /\ \A k \in 1..n : Refers(refs[k], o) <=> o = Arena[used + k]
    BY <1>1 DEF Refers, IsObject
  <2> QED BY <2>1, <2>2 DEF InContents, Refers
<1>6. n + 1 \in 1..n + 1 /\ \A k \in 1..n + 1 : k \in 1..n \/ k = n + 1
  BY <1>2
<1>7. ASSUME NEW g, NEW a, NEW b, NEW o
      PROVE  InHeap(h, g, a, b, o) <=> InHeap(heap, g, a, b, o) \/ Listed(list, n, g, a, b, o)
  <2>1. InHeap(h, g, a, b, o) <=>
          \/ InHeap(heap, g, a, b, o)
          \/ \E k \in 1..n + 1 : a = Arena[used + k] /\ InContents(c[k], g, b, o)
    BY <1>3 DEF Filled
  <2>2. \A k \in 1..n : ~InContents(c[k], g, b, o)
    BY <1>4
  <2>3. InContents(c[n + 1], g, b, o) /\ a = list <=> Listed(list, n, g, a, b, o)
    BY <1>5 DEF Listed
  <2>4. (\E k \in 1..n + 1 : a = Arena[used + k] /\ InContents(c[k], g, b, o)) <=>
          a = list /\ InContents(c[n + 1], g, b, o)
    BY <1>6, <2>2, Zenon
  <2> QED BY <2>1, <2>3, <2>4, Zenon
<1> QED BY <1>3, <1>7, Zenon DEF Filled, Noted

\* An ended activation is given its unknown fields: h2 has the new objects, and
\* the array of them is a property of r.
UnknownAdded(h1, h2, n, r, list, v) ==
  /\ n \in Nat /\ used' = used + (n + 1) /\ used + (n + 1) \in 0..Len(Arena) /\ Room(n + 1)
  /\ r \in Made(used) /\ list \in Objs /\ Deliver(h2, Fr) /\ msgs' = msgs
  /\ \A o \in Made(used) : h1[o] = heap[o]
  /\ Unmade(h1, used + (n + 1)) /\ PropWritten(h1, h2, r, "$unknownFields", v)
  /\ \A g, a, b, o :
       InHeap(h2, g, a, b, o) <=>
         \/ InHeap(heap, g, a, b, o) \/ Listed(list, n, g, a, b, o)
         \/ g = "prop" /\ a = r /\ b = "$unknownFields" /\ o = list

LEMMA UnknownSet ==
  ASSUME IInv, Placing, EndPartWithUnknown, NEW n, n = Len(Beyond(Fr.msg)), NEW r, r = Fr.ret,
         NEW new, new = UnknownFields(Fr.msg), NEW list, list = Arena[used + (n + 1)],
         NEW v, v = [tag |-> "array", ref |-> list], NEW h1, h1 = Allocate(heap, new),
         NEW h2, h2 = WriteProp(h1, r, "$unknownFields", v)
  PROVE  UnknownAdded(h1, h2, n, r, list, v)
<1>1. /\ n \in Nat /\ used' = used + (n + 1) /\ used + (n + 1) \in 0..Len(Arena) /\ Room(n + 1)
      /\ Fr \in Part /\ Fr.msg \in DOMAIN msgs /\ r \in Objs /\ frames # <<>>
      /\ h1 \in Heap /\ Deliver(h2, Fr) /\ list \in Objs /\ msgs' = msgs
  <2>1. /\ n \in Nat /\ used' = used + n + 1 /\ used' \in 0..Len(Arena) /\ Room(n + 1)
        /\ Fr \in Part /\ Fr.msg \in DOMAIN msgs /\ Fr.ret \in Objs /\ frames # <<>>
        /\ Allocate(heap, new) \in Heap
        /\ Deliver([Allocate(heap, new) EXCEPT ![Fr.ret].props["$unknownFields"] =
                     [tag |-> "array", ref |-> Arena[used + n + 1]]], Fr)
        /\ Arena[used + n + 1] \in Objs
    BY EndUnknownFacts
  <2>2. used + n + 1 = used + (n + 1)
    BY <2>1 DEF IInv, TypeOK
  <2> QED BY <2>1, <2>2 DEF WriteProp, EndPartWithUnknown
<1>2. /\ msgs \in Tables /\ heap \in Heap /\ used \in 0..Len(Arena) /\ Unmade(heap, used)
      /\ frames \in Seq(Part) /\ Sole(heap, used, frames, replies)
      /\ Len(frames) \in DOMAIN frames /\ Fr = frames[Len(frames)] /\ Ahead(msgs, heap, Fr)
  <2>1. Len(frames) \in DOMAIN frames /\ Fr = frames[Len(frames)]
    BY <1>1, FrFacts
  <2> QED BY <2>1 DEF IInv, TypeOK, Placing, Placed
<1>3. Holds(Fr, used)
  BY <1>1, <1>2, FramesApart
<1>4. /\ \A g, a, b, o :
           InHeap(h1, g, a, b, o) <=> InHeap(heap, g, a, b, o) \/ Listed(list, n, g, a, b, o)
      /\ Unmade(h1, used + (n + 1)) /\ \A o \in Made(used) : h1[o] = heap[o]
  <2>1. PICK q : q = Fr.msg
    OBVIOUS
  <2>2. /\ q \in DOMAIN msgs /\ n = Len(Beyond(q)) /\ Room(n + 1)
        /\ h1 = Allocate(heap, UnknownFields(q)) /\ list = Arena[used + (n + 1)]
        /\ msgs \in Tables /\ heap \in Heap /\ used \in 0..Len(Arena) /\ Unmade(heap, used)
    BY <1>1, <1>2, <2>1, Zenon
  <2>3. Noted(h1, list, n)
    BY <2>2, UnknownHeap, Zenon
  <2> QED BY <2>3 DEF Noted
<1>5. r \in Made(used) /\ r # None /\ Made(used) \subseteq Objs /\ used \in Nat
  BY <1>2, <1>3, MadeObjs, PayloadAssumption DEF Holds
<1>6. ~IsObject(h1[r].props["$unknownFields"]) /\ "$unknownFields" \in Names
  BY <1>2, <1>4, <1>5, ReaderAssumption DEF Ahead, PropsAhead
<1>7. PropWritten(h1, h2, r, "$unknownFields", v)
  <2>1. v \in Slot
    BY <1>1, RefTyped
  <2> QED BY <1>1, <1>6, <2>1, PropWrite
<1>8. PlaceGained(h1, h2, "prop", r, "$unknownFields", v)
  BY <1>1, <1>6, <1>7, PropPlace
<1>9. ASSUME NEW g, NEW a, NEW b, NEW o
       PROVE  InHeap(h2, g, a, b, o) <=>
                \/ InHeap(heap, g, a, b, o) \/ Listed(list, n, g, a, b, o)
                \/ g = "prop" /\ a = r /\ b = "$unknownFields" /\ o = list
  <2>1. Refers(v, o) <=> o = list
    BY DEF Refers, IsObject
  <2> QED BY <1>4, <1>8, <2>1 DEF PlaceGained
<1> QED BY <1>1, <1>4, <1>5, <1>7, <1>9, Zenon DEF UnknownAdded

LEMMA EndUnknownPlaces ==
  ASSUME IInv, Placing, EndPartWithUnknown
  PROVE  Placing'
<1>1. PICK n, m, r, list, v, h1, h2 :
        /\ n = Len(Beyond(Fr.msg)) /\ m = Len(frames) /\ r = Fr.ret
        /\ list = Arena[used + (n + 1)] /\ v = [tag |-> "array", ref |-> list]
        /\ h1 = Allocate(heap, UnknownFields(Fr.msg))
        /\ h2 = WriteProp(h1, r, "$unknownFields", v)
  OBVIOUS
<1>2. UnknownAdded(h1, h2, n, r, list, v)
  BY <1>1, UnknownSet
<1>3. /\ n \in Nat /\ used' = used + (n + 1) /\ used + (n + 1) \in 0..Len(Arena) /\ Room(n + 1)
      /\ Fr \in Part /\ frames # <<>> /\ list \in Objs /\ Deliver(h2, Fr) /\ msgs' = msgs
  BY <1>2, EndUnknownFacts DEF UnknownAdded
<1>4. /\ msgs \in Tables /\ heap \in Heap /\ used \in 0..Len(Arena) /\ frames \in Seq(Part)
      /\ Unmade(heap, used) /\ Sole(heap, used, frames, replies)
      /\ \A k \in DOMAIN frames : Ahead(msgs, heap, frames[k])
  BY DEF IInv, TypeOK, Placing, Placed
<1>5. m \in Nat \ {0} /\ DOMAIN frames = 1..m /\ m \in DOMAIN frames /\ Fr = frames[m]
  BY <1>1, <1>3, FrFacts
<1>6. /\ \A k \in DOMAIN frames : Holds(frames[k], used)
      /\ \A k \in DOMAIN frames : k # m => Apart(Fr, frames[k])
  <2>1. \A k \in DOMAIN frames : frames[k] \in Part
    BY <1>4
  <2> QED BY <1>4, <1>5, <2>1, FramesApart
<1>7. /\ Unmade(h1, used + (n + 1)) /\ \A o \in Made(used) : h1[o] = heap[o]
  BY <1>2 DEF UnknownAdded
<1>8. r \in Made(used) /\ r # None /\ Made(used) \subseteq Objs /\ used \in Nat
  BY <1>4, <1>2, MadeObjs, PayloadAssumption DEF UnknownAdded
<1>9. PropWritten(h1, h2, r, "$unknownFields", v)
  BY <1>2 DEF UnknownAdded
<1>10. ASSUME NEW g, NEW a, NEW b, NEW o
       PROVE  InHeap(h2, g, a, b, o) <=>
                \/ InHeap(heap, g, a, b, o) \/ Listed(list, n, g, a, b, o)
                \/ g = "prop" /\ a = r /\ b = "$unknownFields" /\ o = list
  BY <1>2, Zenon DEF UnknownAdded
<1>11. PICK G, A, B : /\ G = [k \in 1..n + 1 |-> IF k = n + 1 THEN "prop" ELSE "elem"]
                      /\ A = [k \in 1..n + 1 |-> IF k = n + 1 THEN r ELSE list]
                      /\ B = [k \in 1..n + 1 |-> IF k = n + 1 THEN "$unknownFields" ELSE k]
  OBVIOUS
<1>12. /\ \A k \in 1..n : G[k] = "elem" /\ A[k] = list /\ B[k] = k
       /\ G[n + 1] = "prop" /\ A[n + 1] = r /\ B[n + 1] = "$unknownFields"
       /\ n + 1 \in 1..n + 1 /\ \A k \in 1..n + 1 : k \in 1..n \/ k = n + 1
       /\ \A k \in 1..n : k \in 1..n + 1
  <2>1. \A k \in 1..n : k \in 1..n + 1 /\ k # n + 1
    BY <1>3
  <2>2. n + 1 \in 1..n + 1 /\ \A k \in 1..n + 1 : k \in 1..n \/ k = n + 1
    BY <1>3
  <2> QED BY <1>11, <2>1, <2>2
<1>13. ASSUME NEW g, NEW a, NEW b, NEW o
       PROVE  At(h2, frames, replies, g, a, b, o) <=>
                \/ At(heap, frames, replies, g, a, b, o)
                \/ \E k \in 1..n + 1 : o = Arena[used + k] /\ g = G[k] /\ a = A[k] /\ b = B[k]
  <2>1. ASSUME NEW k \in 1..n + 1, o = Arena[used + k] /\ g = G[k] /\ a = A[k] /\ b = B[k]
        PROVE  Listed(list, n, g, a, b, o) \/ (g = "prop" /\ a = r /\ b = "$unknownFields" /\ o = list)
    BY <1>1, <1>12, <2>1 DEF Listed
  <2>2. ASSUME Listed(list, n, g, a, b, o)
        PROVE  \E k \in 1..n + 1 : o = Arena[used + k] /\ g = G[k] /\ a = A[k] /\ b = B[k]
    BY <1>12, <2>2 DEF Listed
  <2>3. ASSUME g = "prop" /\ a = r /\ b = "$unknownFields" /\ o = list
        PROVE  \E k \in 1..n + 1 : o = Arena[used + k] /\ g = G[k] /\ a = A[k] /\ b = B[k]
    BY <1>1, <1>12, <2>3
  <2> QED BY <1>10, <2>1, <2>2, <2>3, Zenon DEF At
<1>14. Gained(heap, frames, replies, h2, frames, replies, used, n + 1, G, A, B)
  BY <1>13 DEF Gained
<1>15. Sole(h2, used + (n + 1), frames, replies)
  <2>1. n + 1 \in Nat /\ used + (n + 1) <= Len(Arena)
    BY <1>3, ArenaAssumption
  <2> QED BY <1>4, <1>8, <1>14, <2>1, Gains, Zenon
<1>16. Unmade(h2, used + (n + 1))
  <2>1. used + (n + 1) <= Len(Arena) /\ n + 1 \in Nat
    BY <1>3, ArenaAssumption
  <2>2. r \in Made(used + (n + 1))
    BY <1>8, <2>1, MadeMore
  <2> QED BY <1>7, <1>9, <2>2 DEF Unmade, PropWritten
<1>17. ASSUME NEW k \in 1..Len(frames) - 1  PROVE Ahead(msgs, h2, frames[k])
  <2>1. k \in DOMAIN frames /\ k # m
    BY <1>1, <1>5
  <2>2. Holds(frames[k], used) /\ Apart(Fr, frames[k])
    BY <1>6, <2>1
  <2>3. frames[k].ret # r /\ frames[k].list # r
    BY <1>1, <1>8, <2>2 DEF Apart
  <2>4. h2[frames[k].ret] = heap[frames[k].ret] /\ (frames[k].list # None => h2[frames[k].list] = heap[frames[k].list])
    BY <1>7, <1>8, <1>9, <2>2, <2>3 DEF Holds, PropWritten
  <2> QED BY <1>4, <2>1, <2>4, AheadSame
<1>18. Fr.list = None
  BY EndedNoList DEF EndPartWithUnknown
<1>19. Placed(msgs', heap', used + (n + 1), frames', replies')
  <2>1. PICK u : u = used + (n + 1)
    OBVIOUS
  <2>2. h2 \in Heap
    BY <1>9 DEF PropWritten
  <2> QED BY <1>3, <1>15, <1>16, <1>17, <1>18, <2>1, <2>2, DeliverPlaces
<1> QED BY <1>3, <1>19 DEF Placing

\* An answer that is no object adds no place.
LEMMA AnswerAdded ==
  ASSUME NEW rs, NEW rs2, NEW n \in Nat, DOMAIN rs = 1..n, DOMAIN rs2 = 1..n + 1,
         ~IsObject(rs2[n + 1].value), \A k \in 1..n : rs2[k] = rs[k]
  PROVE  \A g, a, b, o : InReplies(rs2, g, a, b, o) <=> InReplies(rs, g, a, b, o)
<1> SUFFICES ASSUME NEW g, NEW a, NEW b, NEW o
             PROVE  InReplies(rs2, g, a, b, o) <=> InReplies(rs, g, a, b, o)
  OBVIOUS
<1>1. CASE a = n + 1
  <2>1. a \notin DOMAIN rs
    BY <1>1
  <2> QED BY <1>1, <2>1 DEF InReplies, Refers
<1>2. CASE a # n + 1
  <2>1. (a \in DOMAIN rs2 <=> a \in DOMAIN rs) /\ (a \in DOMAIN rs => rs2[a] = rs[a])
    BY <1>2
  <2> QED BY <2>1 DEF InReplies
<1> QED BY <1>1, <1>2

LEMMA RefusePlaces ==
  ASSUME IInv, Placing, NEW c \in Call, Refuse(c)
  PROVE  Placing'
<1>1. PICK n : n = Len(replies)
  OBVIOUS
<1>2. /\ n \in Nat /\ DOMAIN replies = 1..n /\ DOMAIN replies' = 1..n + 1
      /\ replies'[n + 1].value = Null /\ \A k \in 1..n : replies'[k] = replies[k]
      /\ frames = <<>> /\ UNCHANGED <<msgs, heap, used, frames, held>>
  BY <1>1, RefuseFacts
<1>3. /\ used \in 0..Len(Arena) /\ Sole(heap, used, frames, replies) /\ Unmade(heap, used)
      /\ \A k \in DOMAIN frames : Ahead(msgs, heap, frames[k])
  BY DEF IInv, TypeOK, Placing, Placed
<1>4. \A g, a, b, o : InReplies(replies', g, a, b, o) <=> InReplies(replies, g, a, b, o)
  <2>1. ~IsObject(replies'[n + 1].value)
    BY <1>2 DEF Null, IsObject
  <2> QED BY <1>2, <2>1, AnswerAdded
<1>5. \A o \in Objs : \A g, a, b : At(heap', frames', replies', g, a, b, o) <=> At(heap, frames, replies, g, a, b, o)
  BY <1>2, <1>4 DEF At
<1>6. Sole(heap', used, frames', replies')
  <2>1. Made(used) \subseteq Objs
    BY <1>3, MadeObjs
  <2> QED BY <1>3, <1>5, <2>1, Kept, Zenon
<1> QED BY <1>2, <1>3, <1>6 DEF Placing, Placed

LEMMA AcceptPlaces ==
  ASSUME IInv, Placing, NEW c \in Call, Accept(c)
  PROVE  Placing'
<1>1. PICK n, o1, h, fr : /\ n = Len(replies) /\ o1 = Arena[used + 1] /\ h = heap'
                          /\ fr = NewPart(c.buffer, Arena[used + 1], UseTypedArray(c), c.unknown)
  OBVIOUS
<1>2. /\ n \in Nat /\ DOMAIN replies = 1..n /\ DOMAIN replies' = 1..n + 1
      /\ replies'[n + 1].value = Pending /\ \A k \in 1..n : replies'[k] = replies[k]
      /\ frames = <<>> /\ DOMAIN frames' = 1..1 /\ frames'[1] = fr /\ fr \in Part
      /\ fr.ret = o1 /\ fr.list = None /\ fr.i = 1
      /\ Room(1) /\ h = Allocate(heap, <<Blank>>) /\ used' = used + 1 /\ msgs' = msgs
  BY <1>1, AcceptFacts
<1>3. /\ \A g, a, b, o : InHeap(h, g, a, b, o) <=> InHeap(heap, g, a, b, o)
      /\ Unmade(h, used + 1) /\ h[o1] = Blank /\ o1 \in Objs
      /\ used \in Nat /\ used + 1 <= Len(Arena) /\ Made(used) \subseteq Objs
      /\ Sole(heap, used, frames, replies)
  BY <1>1, <1>2, BlankRefs, NewObject
<1>4. Ahead(msgs, h, fr)
  <2>1. msgs[fr.msg].type \in Types /\ None \notin Objs
    BY <1>2, PartFacts DEF IInv
  <2> QED BY <1>2, <1>3, <2>1, BlankRefs DEF Ahead
<1>5. \A k \in DOMAIN frames' : Ahead(msgs, h, frames'[k])
  <2>1. \A k \in DOMAIN frames' : k = 1
    BY <1>2
  <2> QED BY <1>2, <1>4, <2>1
<1>6. \A g, a, b, o : InReplies(replies', g, a, b, o) <=> InReplies(replies, g, a, b, o)
  <2>1. ~IsObject(replies'[n + 1].value)
    BY <1>2 DEF Pending, IsObject
  <2> QED BY <1>2, <2>1, AnswerAdded
<1>7. ASSUME NEW o \in Objs, NEW g, NEW a, NEW b
      PROVE  InFrames(frames', g, a, b, o) <=>
               InFrames(frames, g, a, b, o) \/ (o = o1 /\ g = "frame" /\ a = 1 /\ b = 0)
  <2>1. None \notin Objs
    BY PayloadAssumption
  <2>2. \A k : k \notin DOMAIN frames
    BY <1>2
  <2>3. a \in DOMAIN frames' <=> a = 1
    BY <1>2
  <2> QED BY <1>2, <2>1, <2>2, <2>3 DEF InFrames
<1>8. GainedOne(heap, frames, replies, h, frames', replies', o1, "frame", 1, 0)
  <2>1. ASSUME NEW o \in Objs, NEW g, NEW a, NEW b
        PROVE  At(h, frames', replies', g, a, b, o) <=>
                 \/ At(heap, frames, replies, g, a, b, o)
                 \/ o = o1 /\ g = "frame" /\ a = 1 /\ b = 0
    BY <1>3, <1>6, <1>7 DEF At
  <2> QED BY <2>1 DEF GainedOne
<1>9. Sole(h, used + 1, frames', replies')
  BY <1>1, <1>3, <1>8, GainsOne
<1> QED BY <1>1, <1>2, <1>3, <1>5, <1>9 DEF Placing, Placed

\* Nothing is anywhere yet.
LEMMA InitPlacing == Init => Placing
<1> SUFFICES ASSUME Init  PROVE Placing
  OBVIOUS
<1>1. /\ \A o \in Objs : heap[o] = Blank
      /\ used = 0 /\ (\A k : k \notin DOMAIN frames) /\ (\A k : k \notin DOMAIN replies)
  BY DEF Init
<1>2. Made(used) = {}
  BY <1>1 DEF Made
<1>3. ASSUME NEW o \in Objs, NEW g, NEW a, NEW b  PROVE ~At(heap, frames, replies, g, a, b, o)
  <2>1. ~InHeap(heap, g, a, b, o)
    BY <1>1, BlankRefs DEF InHeap, InContents, NoRefs, Refers
  <2> QED BY <1>1, <2>1 DEF At, InFrames, InReplies
<1>4. Sole(heap, used, frames, replies)
  BY <1>2, <1>3 DEF Sole
<1>5. Unmade(heap, used)
  BY <1>1, BlankRefs DEF Unmade
<1> QED BY <1>1, <1>4, <1>5 DEF Placing, Placed

\* Every step leaves each object with one place.
LEMMA NextPlacing == IInv /\ Placing /\ [Next]_vars => Placing'
<1> SUFFICES ASSUME IInv, Placing, [Next]_vars  PROVE Placing'
  OBVIOUS
<1>1. ASSUME NEW c \in Call, Refuse(c)  PROVE Placing'
  BY <1>1, RefusePlaces
<1>2. ASSUME NEW c \in Call, Accept(c)  PROVE Placing'
  BY <1>2, AcceptPlaces
<1>3. CASE SkipAbsent
  BY <1>3, SkipPlaces, Zenon
<1>4. CASE ParseSingular
  BY <1>4, SingularAtItem, SetScalarPlaces, SetBytesPlaces, EnterPlaces, Zenon
<1>5. CASE ParseElement
  BY <1>5, ElementAtItem, SetScalarPlaces, SetBytesPlaces, EnterPlaces, Zenon
<1>6. CASE BeginList
  BY <1>6, BeginListPlaces
<1>7. CASE EndList
  BY <1>7, EndListPlaces
<1>8. CASE EndPart
  BY <1>8, EndPartPlaces
<1>9. CASE EndPartWithUnknown
  BY <1>9, EndUnknownPlaces
<1>10. CASE UNCHANGED vars
  BY <1>10 DEF Placing, vars
<1> QED BY <1>1, <1>2, <1>3, <1>4, <1>5, <1>6, <1>7, <1>8, <1>9, <1>10, Zenon DEF Next, Build

\* Throughout every run each object made is in one place, no object that is not
\* made is in any, and what an activation has yet to set is empty.
THEOREM PlacesKept == Spec => [](IInv /\ Placing)
<1>1. Init => IInv /\ Placing
  BY InitIInv, InitPlacing
<1>2. IInv /\ Placing /\ [Next]_vars => (IInv /\ Placing)'
  BY NextIInv, NextPlacing
<1> QED BY <1>1, <1>2, PTL DEF Spec

----------------------------------------------------------------------------
(* From places to owners.                                                  *)

PropOwners(h, o) == {p \in Objs \X Names : Refers(h[p[1]].props[p[2]], o)}
ElemOwners(h, o) == UNION {{<<x, k>> : k \in {y \in DOMAIN h[x].elems : Refers(h[x].elems[y], o)}} :
                             x \in Objs}
Active(fs, o)  == {k \in DOMAIN fs : o \in {fs[k].ret, fs[k].list}}
Answers(rs, o) == {r \in DOMAIN rs : Refers(rs[r].value, o)}

\* The owners of an object are its places.
LEMMA OwnersAt ==
  ASSUME NEW h, NEW fs, NEW rs, NEW o
  PROVE  /\ PropOwners(h, o) = {p \in Objs \X Names : At(h, fs, rs, "prop", p[1], p[2], o)}
         /\ \A p : p \in ElemOwners(h, o) <=> \E x, k : p = <<x, k>> /\ At(h, fs, rs, "elem", x, k, o)
         /\ Active(fs, o) = {k \in DOMAIN fs : At(h, fs, rs, "frame", k, 0, o)}
         /\ Answers(rs, o) = {r \in DOMAIN rs : At(h, fs, rs, "reply", r, 0, o)}
<1>1. ASSUME NEW p \in Objs \X Names
      PROVE  At(h, fs, rs, "prop", p[1], p[2], o) <=> Refers(h[p[1]].props[p[2]], o)
  BY DEF At, InHeap, InContents, InFrames, InReplies
<1>2. ASSUME NEW x, NEW k
      PROVE  At(h, fs, rs, "elem", x, k, o) <=>
               x \in Objs /\ k \in DOMAIN h[x].elems /\ Refers(h[x].elems[k], o)
  BY DEF At, InHeap, InContents, InFrames, InReplies
<1>3. ASSUME NEW p
      PROVE  p \in ElemOwners(h, o) <=> \E x, k : p = <<x, k>> /\ At(h, fs, rs, "elem", x, k, o)
  BY <1>2 DEF ElemOwners
<1>4. \A k \in DOMAIN fs : At(h, fs, rs, "frame", k, 0, o) <=> o \in {fs[k].ret, fs[k].list}
  BY DEF At, InHeap, InContents, InFrames, InReplies
<1>5. \A r \in DOMAIN rs : At(h, fs, rs, "reply", r, 0, o) <=> Refers(rs[r].value, o)
  BY DEF At, InHeap, InContents, InFrames, InReplies
<1> QED BY <1>1, <1>3, <1>4, <1>5 DEF PropOwners, Active, Answers

\* One place is one owner.
LEMMA OnePlaceOneOwner ==
  ASSUME NEW o, NEW g, NEW a, NEW b, OnlyAt(heap, frames, replies, o, g, a, b)
  PROVE  Owners(o) = 1
<1>1. PICK ps, es, ac, an : /\ ps = PropOwners(heap, o) /\ es = ElemOwners(heap, o)
                            /\ ac = Active(frames, o) /\ an = Answers(replies, o)
  OBVIOUS
<1>2. Owners(o) = Cardinality(ps) + Cardinality(es) + Cardinality(ac) + Cardinality(an)
  BY <1>1 DEF Owners, PropOwners, ElemOwners, Active, Answers, Refers
<1>3. \A g1, a1, b1 : At(heap, frames, replies, g1, a1, b1, o) <=> g1 = g /\ a1 = a /\ b1 = b
  BY DEF OnlyAt
<1>4. /\ ps = {p \in Objs \X Names : g = "prop" /\ p[1] = a /\ p[2] = b}
      /\ \A p : p \in es <=> g = "elem" /\ p = <<a, b>>
      /\ ac = {k \in DOMAIN frames : g = "frame" /\ k = a /\ b = 0}
      /\ an = {r \in DOMAIN replies : g = "reply" /\ r = a /\ b = 0}
  BY <1>1, <1>3, OwnersAt
<1>5. At(heap, frames, replies, g, a, b, o)
  BY <1>3
<1>6. Cardinality({}) = 0 /\ (\A x : Cardinality({x}) = 1)
  BY FS_EmptySet, FS_Singleton
<1>7. CASE g = "prop"
  <2>1. a \in Objs /\ b \in Names
    BY <1>5, <1>7 DEF At, InHeap, InContents, InFrames, InReplies
  <2>2. ps = {<<a, b>>} /\ es = {} /\ ac = {} /\ an = {}
    BY <1>4, <1>7, <2>1
  <2>3. /\ Cardinality(ps) = 1 /\ Cardinality(es) = 0
        /\ Cardinality(ac) = 0 /\ Cardinality(an) = 0
    BY <1>6, <2>2, Zenon
  <2> QED BY <1>2, <2>3
<1>8. CASE g = "elem"
  <2>1. ps = {} /\ es = {<<a, b>>} /\ ac = {} /\ an = {}
    BY <1>4, <1>8
  <2>2. /\ Cardinality(ps) = 0 /\ Cardinality(es) = 1
        /\ Cardinality(ac) = 0 /\ Cardinality(an) = 0
    BY <1>6, <2>1, Zenon
  <2> QED BY <1>2, <2>2
<1>9. CASE g = "frame"
  <2>1. a \in DOMAIN frames /\ b = 0
    BY <1>5, <1>9 DEF At, InHeap, InContents, InFrames, InReplies
  <2>2. ps = {} /\ es = {} /\ ac = {a} /\ an = {}
    BY <1>4, <1>9, <2>1
  <2>3. /\ Cardinality(ps) = 0 /\ Cardinality(es) = 0
        /\ Cardinality(ac) = 1 /\ Cardinality(an) = 0
    BY <1>6, <2>2, Zenon
  <2> QED BY <1>2, <2>3
<1>10. CASE g = "reply"
  <2>1. a \in DOMAIN replies /\ b = 0
    BY <1>5, <1>10 DEF At, InHeap, InContents, InFrames, InReplies
  <2>2. ps = {} /\ es = {} /\ ac = {} /\ an = {a}
    BY <1>4, <1>10, <2>1
  <2>3. /\ Cardinality(ps) = 0 /\ Cardinality(es) = 0
        /\ Cardinality(ac) = 0 /\ Cardinality(an) = 1
    BY <1>6, <2>2, Zenon
  <2> QED BY <1>2, <2>3
<1>11. g \in {"prop", "elem", "frame", "reply"}
  BY <1>5 DEF At, InHeap, InContents, InFrames, InReplies
<1> QED BY <1>7, <1>8, <1>9, <1>10, <1>11

\* Every object that ParsePart and ParseField make has exactly one owner, at
\* every step: two answers, or two parts of one, share nothing (src/parse.cpp).
THEOREM EachHasOneOwner == Spec => []OneOwner
<1>1. IInv /\ Placing => OneOwner
  <2> SUFFICES ASSUME IInv, Placing, NEW k \in 1..used  PROVE Owners(Arena[k]) = 1
    BY DEF OneOwner
  <2>1. Arena[k] \in Made(used)
    BY DEF Made
  <2>2. Owned(heap, frames, replies, Arena[k])
    BY <2>1 DEF Placing, Placed, Sole
  <2> QED BY <2>2, OnePlaceOneOwner DEF Owned
<1> QED BY <1>1, PlacesKept, PTL

----------------------------------------------------------------------------
(* What a call changes.                                                    *)

\* Made with or after the object first, among the first u.
After(u, first, o) == \E x \in 1..u : o = Arena[x] /\ \E y \in 1..x : Arena[y] = first
Recent(u, fs) ==
  \A k \in DOMAIN fs :
    /\ After(u, fs[1].ret, fs[k].ret)
    /\ fs[k].list # None => After(u, fs[1].ret, fs[k].list)

\* What the activations fill was made since the outermost of them began.
FillsRecent == Recent(used, frames)

LEMMA AfterMore ==
  ASSUME NEW u \in Nat, NEW n \in Nat, NEW first, NEW o, After(u, first, o)
  PROVE  /\ After(u + n, first, o)
         /\ \A k \in 1..n : After(u + n, first, Arena[u + k])
<1>1. PICK x \in 1..u : o = Arena[x] /\ \E y \in 1..x : Arena[y] = first
  BY DEF After
<1>2. PICK y \in 1..x : Arena[y] = first
  BY <1>1
<1>3. x \in 1..u + n
  OBVIOUS
<1>4. \A k \in 1..n : u + k \in 1..u + n /\ y \in 1..u + k
  OBVIOUS
<1> QED BY <1>1, <1>2, <1>3, <1>4 DEF After

LEMMA OwnFacts ==
  ASSUME used \in 0..Len(Arena)
  PROVE  /\ \A o : frames # <<>> /\ After(used, frames[1].ret, o) => o \in OwnObjects
         /\ \A k \in Nat \ {0} : used + k <= Len(Arena) => Arena[used + k] \in OwnObjects
<1>1. Len(Arena) \in Nat /\ DOMAIN Arena = 1..Len(Arena)
  BY ArenaAssumption
<1>2. \A x \in 1..used : x \in DOMAIN Arena
  BY <1>1
<1>3. \A k \in Nat \ {0} : used + k <= Len(Arena) => used + k \in DOMAIN Arena /\ used + k > used
  BY <1>1
<1> QED BY <1>2, <1>3 DEF OwnObjects, After

\* Setting writes to the object or the array of the activation.
LEMMA SetWrites ==
  ASSUME NEW h \in Heap, NEW fr, NEW v, NEW o \in Objs, o # SlotOf(fr)
  PROVE  Set(h, fr, v)[o] = h[o]
<1>1. DOMAIN h = Objs
  BY DEF Heap
<1>2. CASE InList(fr)
  BY <1>1, <1>2 DEF Set, SlotOf
<1>3. CASE ~InList(fr)
  BY <1>1, <1>3 DEF Set, SlotOf
<1> QED BY <1>2, <1>3

LEMMA SlotRecent ==
  ASSUME NEW u, NEW fs, Recent(u, fs), NEW k \in DOMAIN fs
  PROVE  After(u, fs[1].ret, SlotOf(fs[k]))
BY DEF Recent, SlotOf, InList

\* Activations that go on with what they had, or with one of n new arrays.
GoOn(u, n, fs, fs2) ==
  \A k \in DOMAIN fs2 :
    /\ k \in DOMAIN fs /\ fs2[k].ret = fs[k].ret
    /\ \/ fs2[k].list \in {None, fs[k].list}
       \/ \E j \in 1..n : fs2[k].list = Arena[u + j]

LEMMA RecentStep ==
  ASSUME NEW u \in Nat, NEW n \in Nat, NEW fs, NEW fs2, Recent(u, fs), 1 \in DOMAIN fs2,
         GoOn(u, n, fs, fs2)
  PROVE  Recent(u + n, fs2)
<1>1. PICK first : first = fs[1].ret
  OBVIOUS
<1>2. fs2[1].ret = first
  BY <1>1 DEF GoOn
<1>3. ASSUME NEW k \in DOMAIN fs2
      PROVE  /\ After(u + n, first, fs2[k].ret)
             /\ fs2[k].list # None => After(u + n, first, fs2[k].list)
  <2>1. /\ k \in DOMAIN fs /\ fs2[k].ret = fs[k].ret
        /\ fs2[k].list \in {None, fs[k].list} \/ \E j \in 1..n : fs2[k].list = Arena[u + j]
    BY DEF GoOn
  <2>2. After(u, first, fs[k].ret) /\ (fs[k].list # None => After(u, first, fs[k].list))
    BY <1>1, <2>1 DEF Recent
  <2>3. /\ After(u + n, first, fs[k].ret)
        /\ fs[k].list # None => After(u + n, first, fs[k].list)
        /\ \A j \in 1..n : After(u + n, first, Arena[u + j])
    BY <2>2, AfterMore
  <2> QED BY <2>1, <2>3
<1> QED BY <1>2, <1>3 DEF Recent

Keeping == FillsRecent' /\ \A o \in Objs : heap'[o] # heap[o] => o \in OwnObjects

LEMMA TopRecent ==
  ASSUME used \in 0..Len(Arena), FillsRecent, NEW m \in Nat, used' = used + m,
         NEW n \in Nat \ {0}, DOMAIN frames = 1..n, DOMAIN frames' = 1..n,
         \A k \in 1..n - 1 : frames'[k] = frames[k], frames'[n].ret = frames[n].ret,
         \/ frames'[n].list \in {None, frames[n].list}
         \/ \E j \in 1..m : frames'[n].list = Arena[used + j]
  PROVE  FillsRecent'
<1>1. PICK fs, fs2 : fs = frames /\ fs2 = frames'
  OBVIOUS
<1>2. ASSUME NEW k \in DOMAIN fs2
      PROVE  /\ k \in DOMAIN fs /\ fs2[k].ret = fs[k].ret
             /\ \/ fs2[k].list \in {None, fs[k].list}
                \/ \E j \in 1..m : fs2[k].list = Arena[used + j]
  <2>1. k \in 1..n /\ (k = n \/ k \in 1..n - 1)
    BY <1>1
  <2> QED BY <1>1, <2>1
<1>3. 1 \in DOMAIN fs2 /\ used \in Nat
  BY <1>1, ArenaAssumption
<1>4. PICK u : u = used
  OBVIOUS
<1>5. GoOn(u, m, fs, fs2) /\ Recent(u, fs) /\ u \in Nat
  BY <1>1, <1>2, <1>3, <1>4 DEF GoOn, FillsRecent
<1>6. Recent(u + m, fs2)
  BY <1>3, <1>5, RecentStep, Zenon
<1> QED BY <1>1, <1>4, <1>6 DEF FillsRecent

\* Setting the place of the innermost activation.
LEMMA TopWrites ==
  ASSUME IInv, FillsRecent, frames # <<>>, NEW h \in Heap, NEW v,
         \A o \in Objs : h[o] # heap[o] => o \in OwnObjects, heap' = Set(h, Fr, v)
  PROVE  \A o \in Objs : heap'[o] # heap[o] => o \in OwnObjects
<1>1. Len(frames) \in DOMAIN frames /\ Fr = frames[Len(frames)] /\ used \in 0..Len(Arena)
  BY FrFacts DEF IInv, TypeOK
<1>2. SlotOf(Fr) \in OwnObjects
  <2>1. PICK fs, k : fs = frames /\ k = Len(frames)
    OBVIOUS
  <2>2. After(used, fs[1].ret, SlotOf(fs[k]))
    BY <1>1, <2>1, SlotRecent DEF FillsRecent
  <2> QED BY <1>1, <2>1, <2>2, OwnFacts
<1>3. \A o \in Objs : o # SlotOf(Fr) => heap'[o] = h[o]
  BY SetWrites
<1> QED BY <1>2, <1>3

\* An object that is made was not there before.
LEMMA OneMade ==
  ASSUME IInv, NEW c \in Contents, Room(1), NEW h, h = Allocate(heap, <<c>>)
  PROVE  /\ h \in Heap /\ used \in 0..Len(Arena) /\ used \in Nat /\ used + 1 <= Len(Arena)
         /\ \A o \in Objs : h[o] # heap[o] => o \in OwnObjects
<1>1. heap \in Heap /\ used \in 0..Len(Arena)
  BY DEF IInv, TypeOK
<1>2. /\ h \in Heap /\ used \in Nat /\ used + 1 <= Len(Arena)
      /\ \A o \in Objs : o # Arena[used + 1] => h[o] = heap[o]
  BY <1>1, OneAllocated, ArenaAssumption DEF Room
<1>3. Arena[used + 1] \in OwnObjects
  <2>1. 1 \in Nat \ {0}
    OBVIOUS
  <2> QED BY <1>1, <1>2, <2>1, OwnFacts
<1> QED BY <1>1, <1>2, <1>3

LEMMA SetScalarRecent ==
  ASSUME IInv, FillsRecent, AtItem, SetScalar
  PROVE  Keeping
<1>1. PICK n, v : n = Len(frames) /\ v = Scalar(FieldOf(Fr), Here(Fr))
  OBVIOUS
<1>2. /\ frames' = [frames EXCEPT ![Len(frames)] = Onward(Fr)] /\ UNCHANGED <<msgs, held, replies>>
      /\ heap' = Set(heap, Fr, v) /\ used' = used
  BY <1>1 DEF SetScalar
<1>3. /\ DOMAIN frames' = 1..n /\ DOMAIN frames = 1..n
      /\ frames'[n] = Onward(Fr) /\ frames[n] = Fr /\ n \in Nat \ {0}
      /\ \A k \in 1..n - 1 : frames'[k] = frames[k]
  BY <1>1, <1>2, ItemPassed, Zenon
<1>4. /\ frames # <<>> /\ Fr \in Part /\ heap \in Heap /\ used \in 0..Len(Arena)
  BY AtItemFacts DEF IInv, TypeOK
<1>5. Onward(Fr).ret = Fr.ret /\ Onward(Fr).list = Fr.list
  BY <1>4 DEF Onward, Part
<1>6. FillsRecent'
  <2>1. used' = used + 0 /\ 0 \in Nat
    BY <1>2, <1>4
  <2> QED BY <1>3, <1>4, <1>5, <2>1, TopRecent
<1>7. \A o \in Objs : heap'[o] # heap[o] => o \in OwnObjects
  BY <1>2, <1>4, TopWrites
<1> QED BY <1>6, <1>7 DEF Keeping

LEMMA SetBytesRecent ==
  ASSUME IInv, FillsRecent, AtItem, SetBytes
  PROVE  Keeping
<1>1. PICK n, v, c, h : /\ n = Len(frames) /\ v = [tag |-> "typed", ref |-> Arena[used + 1]]
                        /\ c = Listing(BytesOf(Here(Fr))) /\ h = Allocate(heap, <<c>>)
  OBVIOUS
<1>2. /\ frames' = [frames EXCEPT ![Len(frames)] = Onward(Fr)] /\ UNCHANGED <<msgs, held, replies>>
      /\ heap' = Set(h, Fr, v) /\ used' = used + 1 /\ Room(1) /\ FieldOf(Fr).kind = "bytes"
  BY <1>1 DEF SetBytes
<1>3. /\ DOMAIN frames' = 1..n /\ DOMAIN frames = 1..n
      /\ frames'[n] = Onward(Fr) /\ frames[n] = Fr /\ n \in Nat \ {0}
      /\ \A k \in 1..n - 1 : frames'[k] = frames[k]
  BY <1>1, <1>2, ItemPassed, Zenon
<1>4. /\ frames # <<>> /\ Fr \in Part /\ FieldOf(Fr) \in FieldDescriptor
      /\ Here(Fr) \in ItemsOf(FieldOf(Fr), msgs)
  BY AtItemFacts
<1>5. Onward(Fr).ret = Fr.ret /\ Onward(Fr).list = Fr.list
  BY <1>4 DEF Onward, Part
<1>6. c \in Contents
  <2>1. BytesOf(Here(Fr)) \in Seq(Value)
    BY <1>2, <1>4, BytesTyped
  <2>2. BytesOf(Here(Fr)) \in Seq(Slot)
    BY <2>1 DEF Slot
  <2> QED BY <1>1, <2>2, ListingTyped
<1>7. /\ h \in Heap /\ used \in 0..Len(Arena)
      /\ \A o \in Objs : h[o] # heap[o] => o \in OwnObjects
  BY <1>1, <1>2, <1>6, OneMade
<1>8. FillsRecent'
  BY <1>2, <1>3, <1>5, <1>7, TopRecent
<1>9. \A o \in Objs : heap'[o] # heap[o] => o \in OwnObjects
  BY <1>2, <1>4, <1>7, TopWrites
<1> QED BY <1>8, <1>9 DEF Keeping

LEMMA EnterRecent ==
  ASSUME IInv, FillsRecent, AtItem, EnterMessage
  PROVE  Keeping
<1>1. PICK n, o1, fr, fs, fs2 : /\ n = Len(frames) /\ o1 = Arena[used + 1] /\ fs = frames /\ fs2 = frames'
                          /\ fr = NewPart(Here(Fr)[1], Arena[used + 1], TRUE, FALSE)
  OBVIOUS
<1>2. /\ DOMAIN fs2 = 1..n + 1 /\ fs2[n + 1] = fr /\ fr.ret = o1 /\ fr.list = None
      /\ DOMAIN fs = 1..n /\ n \in Nat \ {0}
      /\ \A k \in 1..n : fs2[k] = fs[k]
  BY <1>1, EnterFacts
<1>3. heap' = Allocate(heap, <<Blank>>) /\ used' = used + 1 /\ Room(1)
  BY DEF EnterMessage
<1>4. /\ used \in Nat
      /\ \A o \in Objs : heap'[o] # heap[o] => o \in OwnObjects
  BY <1>3, BlankTyped, OneMade
<1>5. Recent(used, fs) /\ 1 \in DOMAIN fs /\ fs2[1] = fs[1]
  BY <1>1, <1>2 DEF FillsRecent
<1>6. ASSUME NEW k \in DOMAIN fs2
      PROVE  /\ After(used + 1, fs[1].ret, fs2[k].ret)
             /\ fs2[k].list # None => After(used + 1, fs[1].ret, fs2[k].list)
  <2>1. CASE k = n + 1
    <3>1. After(used, fs[1].ret, fs[1].ret)
      BY <1>5 DEF Recent
    <3>2. 1 \in 1..1 /\ 1 \in Nat
      OBVIOUS
    <3>3. After(used + 1, fs[1].ret, o1)
      BY <1>1, <1>4, <3>1, <3>2, AfterMore
    <3> QED BY <1>2, <2>1, <3>3
  <2>2. CASE k # n + 1
    <3>1. k \in DOMAIN fs /\ fs2[k] = fs[k]
      BY <1>2, <2>2
    <3>2. After(used, fs[1].ret, fs[k].ret) /\ (fs[k].list # None => After(used, fs[1].ret, fs[k].list))
      BY <1>5, <3>1 DEF Recent
    <3>3. 1 \in Nat
      OBVIOUS
    <3> QED BY <1>4, <3>1, <3>2, <3>3, AfterMore
  <2> QED BY <2>1, <2>2
<1>7. Recent(used + 1, fs2)
  BY <1>5, <1>6 DEF Recent
<1> QED BY <1>1, <1>3, <1>4, <1>7 DEF Keeping, FillsRecent

LEMMA BeginListRecent ==
  ASSUME IInv, FillsRecent, BeginList
  PROVE  Keeping
<1>1. PICK n, undefs, fr : /\ n = Len(frames) /\ undefs = [k \in DOMAIN Items(Fr) |-> Undefined]
                           /\ fr = [Fr EXCEPT !.list = Arena[used + 1], !.j = 1]
  OBVIOUS
<1>2. /\ DOMAIN frames' = 1..n /\ DOMAIN frames = 1..n
      /\ frames'[n] = fr /\ frames[n] = Fr /\ n \in Nat \ {0}
      /\ \A k \in 1..n - 1 : frames'[k] = frames[k]
      /\ Fr \in Part /\ undefs \in Seq(Slot)
  BY <1>1, BeginListFacts, Zenon
<1>3. heap' = Allocate(heap, <<Listing(undefs)>>) /\ used' = used + 1 /\ Room(1)
  BY <1>1 DEF BeginList
<1>4. /\ used \in 0..Len(Arena)
      /\ \A o \in Objs : heap'[o] # heap[o] => o \in OwnObjects
  <2>1. PICK c : c = Listing(undefs)
    OBVIOUS
  <2>2. c \in Contents
    BY <1>2, <2>1, ListingTyped
  <2> QED BY <1>3, <2>1, <2>2, OneMade
<1>5. fr.ret = Fr.ret /\ fr.list = Arena[used + 1] /\ 1 \in 1..1
  BY <1>1, <1>2 DEF Part
<1>6. FillsRecent'
  BY <1>2, <1>3, <1>4, <1>5, TopRecent
<1> QED BY <1>4, <1>6 DEF Keeping

LEMMA EndListRecent ==
  ASSUME IInv, FillsRecent, EndList
  PROVE  Keeping
<1>1. PICK n, v, done : /\ n = Len(frames) /\ v = [tag |-> ListTag(Fr), ref |-> Fr.list]
                        /\ done = [Fr EXCEPT !.list = None]
  OBVIOUS
<1>2. /\ used' = used /\ frames # <<>> /\ heap \in Heap /\ used \in 0..Len(Arena)
      /\ DOMAIN frames' = 1..n /\ DOMAIN frames = 1..n
      /\ frames'[n].list = None /\ frames'[n].ret = Fr.ret
      /\ frames[n] = Fr /\ n \in Nat \ {0} /\ Fr \in Part
      /\ \A k \in 1..n - 1 : frames'[k] = frames[k]
  BY <1>1, EndListFacts
<1>3. FillsRecent'
  <2>1. used' = used + 0 /\ 0 \in Nat
    BY <1>2
  <2> QED BY <1>2, <2>1, TopRecent
<1>4. heap' = Set(heap, done, v)
  BY <1>1 DEF EndList
<1>5. SlotOf(done) = Fr.ret
  BY <1>1, <1>2 DEF SlotOf, InList, Part
<1>6. Fr.ret \in OwnObjects
  <2>1. PICK fs : fs = frames
    OBVIOUS
  <2>2. n \in DOMAIN fs /\ fs[n] = Fr
    BY <1>2, <2>1
  <2>3. After(used, fs[1].ret, Fr.ret)
    BY <2>1, <2>2 DEF FillsRecent, Recent
  <2> QED BY <1>2, <2>1, <2>3, OwnFacts
<1>7. \A o \in Objs : o # Fr.ret => heap'[o] = heap[o]
  BY <1>2, <1>4, <1>5, SetWrites
<1> QED BY <1>3, <1>6, <1>7 DEF Keeping

LEMMA SkipRecent ==
  ASSUME IInv, FillsRecent, SkipAbsent
  PROVE  Keeping
<1>1. PICK n, fr : n = Len(frames) /\ fr = [Fr EXCEPT !.i = Fr.i + 1]
  OBVIOUS
<1>2. /\ DOMAIN frames' = 1..n /\ DOMAIN frames = 1..n
      /\ frames'[n] = fr /\ frames[n] = Fr /\ n \in Nat \ {0}
      /\ \A k \in 1..n - 1 : frames'[k] = frames[k]
  BY <1>1, SkipKeeps, Zenon
<1>3. used \in 0..Len(Arena) /\ frames # <<>> /\ heap' = heap /\ used' = used
  BY DEF IInv, TypeOK, SkipAbsent, InParse
<1>4. fr.ret = Fr.ret /\ fr.list = Fr.list
  <2>1. Fr \in Part
    BY <1>3, FrFacts
  <2> QED BY <1>1, <2>1 DEF Part
<1>5. FillsRecent'
  <2>1. used' = used + 0 /\ 0 \in Nat
    BY <1>3
  <2> QED BY <1>2, <1>3, <1>4, <2>1, TopRecent
<1> QED BY <1>3, <1>5 DEF Keeping

\* Handing a complete object over writes to the caller's.
LEMMA DeliverRecent ==
  ASSUME IInv, FillsRecent, frames # <<>>, NEW h \in Heap, Deliver(h, Fr), msgs' = msgs,
         NEW m \in Nat, used' = used + m,
         \A o \in Objs : h[o] # heap[o] => o \in OwnObjects
  PROVE  Keeping
<1>1. PICK v, rest, n : v = [tag |-> "object", ref |-> Fr.ret] /\ rest = Front(frames) /\ n = Len(rest)
  OBVIOUS
<1>2. used \in 0..Len(Arena)
  BY DEF IInv, TypeOK
<1>3. CASE rest = <<>>
  <2>1. heap' = h /\ \A k : k \notin DOMAIN frames'
    BY <1>1, <1>3 DEF Deliver
  <2> QED BY <2>1 DEF Keeping, FillsRecent, Recent
<1>4. CASE rest # <<>>
  <2>1. /\ heap' = Set(h, Last(rest), v) /\ UNCHANGED <<replies, held, msgs>>
        /\ frames' = WithTop(rest, Onward(Last(rest)))
    BY <1>1, <1>4 DEF Deliver, WithTop
  <2>2. /\ n \in Nat \ {0} /\ n = Len(frames) - 1 /\ DOMAIN frames' = 1..n
        /\ frames'[n] = Onward(frames[n]) /\ frames[n] = Last(rest) /\ frames[n] \in Part
        /\ \A k \in 1..n - 1 : frames'[k] = frames[k]
    BY <1>1, <1>4, <2>1, Returned, Zenon
  <2>3. DOMAIN frames = 1..Len(frames) /\ Len(frames) \in Nat
    BY FrFacts
  <2>4. PICK fs, fs2, up : fs = frames /\ fs2 = frames' /\ up = frames[n]
    OBVIOUS
  <2>5. /\ DOMAIN fs2 = 1..n /\ fs2[n] = Onward(up) /\ fs[n] = up
        /\ \A k \in 1..n - 1 : fs2[k] = fs[k]
        /\ \A k \in 1..n : k \in DOMAIN fs /\ (k = n \/ k \in 1..n - 1)
        /\ n \in DOMAIN fs /\ 1 \in DOMAIN fs2 /\ up \in Part
    BY <2>2, <2>3, <2>4
  <2>6. Onward(up).ret = up.ret /\ Onward(up).list = up.list
    BY <2>5 DEF Onward, Part
  <2>7. \A k \in DOMAIN fs2 : k \in DOMAIN fs /\ fs2[k].ret = fs[k].ret /\ fs2[k].list \in {None, fs[k].list}
    BY <2>5, <2>6, Zenon
  <2>8. Recent(used, fs) /\ used \in Nat
    BY <1>2, <2>4, ArenaAssumption DEF FillsRecent
  <2>9. Recent(used + m, fs2)
    <3>1. PICK u : u = used
      OBVIOUS
    <3>2. GoOn(u, m, fs, fs2) /\ Recent(u, fs) /\ u \in Nat
      BY <2>7, <2>8, <3>1 DEF GoOn
    <3>3. Recent(u + m, fs2)
      BY <2>5, <3>2, RecentStep, Zenon
    <3> QED BY <3>1, <3>3
  <2>10. SlotOf(up) \in OwnObjects
    <3>1. After(used, fs[1].ret, SlotOf(up))
      BY <2>5, <2>8, SlotRecent
    <3> QED BY <1>2, <2>4, <3>1, OwnFacts
  <2>11. \A o \in Objs : o # SlotOf(up) => heap'[o] = h[o]
    <3>1. heap' = Set(h, up, v)
      BY <2>1, <2>2, <2>4
    <3> QED BY <3>1, SetWrites
  <2> QED BY <2>4, <2>9, <2>10, <2>11 DEF Keeping, FillsRecent
<1> QED BY <1>3, <1>4

LEMMA EndPartRecent ==
  ASSUME IInv, FillsRecent, EndPart
  PROVE  Keeping
<1>1. /\ frames # <<>> /\ heap \in Heap /\ Deliver(heap, Fr) /\ msgs' = msgs /\ used' = used
      /\ used \in 0..Len(Arena)
  BY DEF IInv, TypeOK, EndPart
<1>2. used' = used + 0 /\ 0 \in Nat
  BY <1>1
<1> QED BY <1>1, <1>2, DeliverRecent

LEMMA EndUnknownRecent ==
  ASSUME IInv, FillsRecent, EndPartWithUnknown
  PROVE  Keeping
<1>1. PICK n, r, new, v, h1, h2 :
        /\ n = Len(Beyond(Fr.msg)) /\ r = Fr.ret /\ new = UnknownFields(Fr.msg)
        /\ v = [tag |-> "array", ref |-> Arena[used + n + 1]]
        /\ h1 = Allocate(heap, new) /\ h2 = WriteProp(h1, r, "$unknownFields", v)
  OBVIOUS
<1>2. /\ n \in Nat /\ used' = used + n + 1 /\ used' \in 0..Len(Arena) /\ Room(n + 1)
      /\ new \in Seq(Contents) /\ Len(new) = n + 1
      /\ Fr \in Part /\ r \in Objs /\ frames # <<>>
      /\ h1 \in Heap /\ Deliver(h2, Fr) /\ v \in Slot
  BY <1>1, EndUnknownFacts, RefTyped DEF WriteProp
<1>3. heap \in Heap /\ used \in 0..Len(Arena) /\ used \in Nat /\ msgs' = msgs
  BY ArenaAssumption DEF IInv, TypeOK, EndPartWithUnknown
<1>4. \A o \in Objs : h1[o] # heap[o] => o \in OwnObjects
  <2>1. \A o \in Objs : (\A k \in DOMAIN new : o # Arena[used + k]) => h1[o] = heap[o]
    BY <1>1, <1>2, <1>3, Allocated
  <2>2. \A k \in DOMAIN new : k \in Nat \ {0} /\ used + k <= Len(Arena)
    BY <1>2, <1>3, ArenaAssumption DEF Room
  <2> QED BY <1>3, <2>1, <2>2, OwnFacts
<1>5. r \in OwnObjects
  <2>1. PICK fs, k : fs = frames /\ k = Len(frames)
    OBVIOUS
  <2>2. k \in DOMAIN fs /\ r = fs[k].ret
    BY <1>1, <1>2, <2>1, FrFacts
  <2>3. After(used, fs[1].ret, r)
    BY <2>1, <2>2 DEF FillsRecent, Recent
  <2> QED BY <1>2, <1>3, <2>1, <2>3, OwnFacts
<1>6. h2 \in Heap /\ \A o \in Objs : o # r => h2[o] = h1[o]
  <2>1. PropWritten(h1, h2, r, "$unknownFields", v)
    BY <1>1, <1>2, ReaderAssumption, PropWrite
  <2> QED BY <2>1 DEF PropWritten
<1>7. \A o \in Objs : h2[o] # heap[o] => o \in OwnObjects
  BY <1>4, <1>5, <1>6
<1>8. n + 1 \in Nat /\ used' = used + (n + 1)
  BY <1>2, <1>3
<1> QED BY <1>2, <1>3, <1>6, <1>7, <1>8, DeliverRecent

\* A call that is refused makes and changes nothing.
LEMMA RefuseRecent ==
  ASSUME IInv, FillsRecent, NEW c \in Call, Refuse(c)
  PROVE  Keeping
BY DEF Refuse, Keeping, FillsRecent

LEMMA AcceptRecent ==
  ASSUME IInv, FillsRecent, NEW c \in Call, Accept(c)
  PROVE  Keeping
<1>1. PICK fr, o1 : /\ fr = NewPart(c.buffer, Arena[used + 1], UseTypedArray(c), c.unknown)
                    /\ o1 = Arena[used + 1]
  OBVIOUS
<1>2. /\ DOMAIN frames' = 1..1 /\ frames'[1] = fr /\ fr.ret = o1 /\ fr.list = None
      /\ Room(1) /\ heap' = Allocate(heap, <<Blank>>) /\ used' = used + 1
  BY <1>1, AcceptFacts
<1>3. used \in Nat /\ \A o \in Objs : heap'[o] # heap[o] => o \in OwnObjects
  BY <1>2, BlankTyped, OneMade
<1>4. After(used + 1, o1, o1)
  <2>1. used + 1 \in 1..used + 1
    BY <1>3
  <2> QED BY <1>1, <2>1 DEF After
<1>5. PICK fs2 : fs2 = frames'
  OBVIOUS
<1>6. DOMAIN fs2 = {1} /\ fs2[1] = fr
  BY <1>2, <1>5
<1>7. Recent(used + 1, fs2)
  BY <1>2, <1>4, <1>6 DEF Recent
<1> QED BY <1>2, <1>3, <1>5, <1>7 DEF Keeping, FillsRecent

LEMMA NextKeeping == IInv /\ FillsRecent /\ [Next]_vars => Keeping
<1> SUFFICES ASSUME IInv, FillsRecent, [Next]_vars  PROVE Keeping
  OBVIOUS
<1>1. ASSUME NEW c \in Call, Refuse(c)  PROVE Keeping
  BY <1>1, RefuseRecent
<1>2. ASSUME NEW c \in Call, Accept(c)  PROVE Keeping
  BY <1>2, AcceptRecent
<1>3. CASE SkipAbsent
  BY <1>3, SkipRecent
<1>4. CASE ParseSingular
  BY <1>4, SingularAtItem, SetScalarRecent, SetBytesRecent, EnterRecent, Zenon
<1>5. CASE ParseElement
  BY <1>5, ElementAtItem, SetScalarRecent, SetBytesRecent, EnterRecent, Zenon
<1>6. CASE BeginList
  BY <1>6, BeginListRecent
<1>7. CASE EndList
  BY <1>7, EndListRecent
<1>8. CASE EndPart
  BY <1>8, EndPartRecent
<1>9. CASE EndPartWithUnknown
  BY <1>9, EndUnknownRecent
<1>10. CASE UNCHANGED vars
  BY <1>10 DEF Keeping, FillsRecent, vars
<1> QED BY <1>1, <1>2, <1>3, <1>4, <1>5, <1>6, <1>7, <1>8, <1>9, <1>10, Zenon DEF Next, Build

\* parse() writes only to objects made since it began (ret, and the
\* arrays of its repeated fields): whatever an earlier call answered stays as it was answered.
THEOREM OlderObjectsStay == Spec => KeepsObjects
<1>1. Init => FillsRecent
  BY DEF Init, FillsRecent, Recent
<1>2. IInv /\ FillsRecent /\ [Next]_vars => FillsRecent'
  BY NextKeeping DEF Keeping
<1>3. IInv /\ FillsRecent /\ [Next]_vars =>
        [\A o \in Objs : heap'[o] # heap[o] => o \in OwnObjects]_vars
  BY NextKeeping DEF Keeping
<1> QED BY <1>1, <1>2, <1>3, Invariance, PTL DEF Spec, KeepsObjects

----------------------------------------------------------------------------
(* What each object stands for: the messages that the objects made so far   *)
(* were made from, and how much of them they show.                          *)

Standing(fr) == [msg |-> fr.msg, typed |-> fr.typed, unknown |-> fr.unknown]
Inner(m)     == [msg |-> m, typed |-> TRUE, unknown |-> FALSE]
Asked(c)     == [msg |-> c.buffer, typed |-> UseTypedArray(c), unknown |-> c.unknown]

FieldIn(table, m, n) == Schema[table[m].type][n]
KnownIn(table, m)    == 1..Known[table[m].type]
HereAt(table, fr)    == ItemsAt(table, fr)[IF fr.list # None THEN fr.j ELSE 1]
BeyondIn(table, m) ==
  LET t == table[m].type
      entries(n) == [k \in DOMAIN table[m].vals[n] |-> n]
  IN FlattenSeq([k \in 1..Len(Schema[t]) - Known[t] |-> entries(Known[t] + k)])

\* A value that shows an item, and refers to the object for it if it is a message.
ShownAs(of, h, f, e, v) ==
  /\ Shows(h, f, e, v)
  /\ f.kind = "message" => v.ref \in DOMAIN of /\ of[v.ref] = Inner(e[1])
\* An array that shows the items before the j-th.
ListDone(of, h, f, items, x, j) ==
  /\ h[x].props = Blank.props /\ DOMAIN h[x].elems = DOMAIN items
  /\ \A k \in DOMAIN items : k < j => ShownAs(of, h, f, items[k], h[x].elems[k])
FieldDone(of, h, f, items, typed, v) ==
  IF f.label = "repeated"
  THEN /\ v.tag = IF typed /\ f.kind = "number" /\ items # <<>> THEN "typed" ELSE "array"
       /\ ListDone(of, h, f, items, v.ref, Len(items) + 1)
  ELSE IF items = <<>> THEN v = Undefined ELSE ShownAs(of, h, f, items[1], v)
\* An object that shows the fields before the i-th, and no others.
FieldsDone(of, table, h, o, m, typed, i) ==
  \A n \in KnownIn(table, m) : n < i =>
    FieldDone(of, h, FieldIn(table, m, n), table[m].vals[n], typed,
              h[o].props[FieldIn(table, m, n).name])
NoneElse(table, h, o, m, i) ==
  \A name \in Names \ {"$unknownFields"} :
    (\A n \in KnownIn(table, m) : n < i => name # FieldIn(table, m, n).name) =>
      h[o].props[name] = Undefined

Extra(h, o) == h[o].props["$unknownFields"]
Complete(of, table, h, o, s) ==
  /\ h[o].elems = <<>>
  /\ FieldsDone(of, table, h, o, s.msg, s.typed, Known[table[s.msg].type] + 1)
  /\ NoneElse(table, h, o, s.msg, Known[table[s.msg].type] + 1)
  /\ s.unknown => UnknownShown(h, table[s.msg].type, BeyondIn(table, s.msg), Extra(h, o))
  /\ ~s.unknown => Extra(h, o) = Undefined
Partial(of, table, h, fr) ==
  /\ h[fr.ret].elems = <<>> /\ Extra(h, fr.ret) = Undefined
  /\ FieldsDone(of, table, h, fr.ret, fr.msg, fr.typed, fr.i)
  /\ NoneElse(table, h, fr.ret, fr.msg, fr.i)
  /\ fr.list # None => ListDone(of, h, FieldAt(table, fr), ItemsAt(table, fr), fr.list, fr.j)

Stands(of, table, u) == DOMAIN of \subseteq Made(u) /\ \A o \in DOMAIN of : of[o].msg \in DOMAIN table
Rets(fs) == {fs[k].ret : k \in DOMAIN fs}
StandIn(of, fs) ==
  \A k \in DOMAIN fs : /\ fs[k].ret \in DOMAIN of /\ of[fs[k].ret] = Standing(fs[k])
                       /\ fs[k].list \notin DOMAIN of
\* Each activation is for the item that its caller stands at.
HasItem(table, fr) == fr.list = None => ItemsAt(table, fr) # <<>>
Chained(table, fs) ==
  \A k \in DOMAIN fs : k + 1 \in DOMAIN fs =>
    HasItem(table, fs[k]) /\ Standing(fs[k + 1]) = Inner(HereAt(table, fs[k])[1])
AllComplete(of, table, h, fs) ==
  \A o \in DOMAIN of : o \notin Rets(fs) => Complete(of, table, h, o, of[o])
AllPartial(of, table, h, fs) == \A k \in DOMAIN fs : Partial(of, table, h, fs[k])

ReadableIn(table, b) ==
  /\ b # 0
  /\ \A m \in ReadIn(table, b) : \A n \in KnownIn(table, m) :
       FieldIn(table, m, n).label = "required" => table[m].vals[n] # <<>>

AnswerRight(of, table, r) ==
  /\ r.exc => ~r.call.known \/ ~ReadableIn(table, r.call.buffer)
  /\ ~r.exc /\ r.value # Pending =>
       r.value.tag = "object" /\ r.value.ref \in DOMAIN of /\ of[r.value.ref] = Asked(r.call)
Answering(of, table, rs) == \A r \in DOMAIN rs : AnswerRight(of, table, rs[r])
Asking(fs, rs) == fs # <<>> => ~rs[Len(rs)].exc /\ Standing(fs[1]) = Asked(rs[Len(rs)].call)

Consistent(of, table, h, u, fs, rs) ==
  /\ Stands(of, table, u) /\ StandIn(of, fs) /\ Chained(table, fs)
  /\ AllComplete(of, table, h, fs) /\ AllPartial(of, table, h, fs)
  /\ Answering(of, table, rs) /\ Asking(fs, rs)
Decoding == \E of : Consistent(of, msgs, heap, used, frames, replies)

----------------------------------------------------------------------------
(* What stays shown.                                                       *)

More(of, of2) == \A o \in DOMAIN of : o \in DOMAIN of2 /\ of2[o] = of[o]
Steady(h, h2) == \A g, a, b, x : InHeap(h, g, a, b, x) => h2[x] = h[x]

LEMMA ShownKept ==
  ASSUME NEW of, NEW of2, NEW h, NEW h2, NEW f, NEW e, NEW v, ShownAs(of, h, f, e, v),
         More(of, of2), IsObject(v) => h2[v.ref] = h[v.ref]
  PROVE  ShownAs(of2, h2, f, e, v)
<1>1. Shows(h2, f, e, v)
  BY DEF ShownAs, Shows, IsObject
<1>2. f.kind = "message" => v.ref \in DOMAIN of2 /\ of2[v.ref] = Inner(e[1])
  BY DEF ShownAs, More
<1> QED BY <1>1, <1>2 DEF ShownAs

LEMMA ListKept ==
  ASSUME NEW of, NEW of2, NEW h, NEW h2, NEW f, NEW items, NEW x \in Objs, NEW j,
         ListDone(of, h, f, items, x, j), More(of, of2), Steady(h, h2), h2[x] = h[x]
  PROVE  ListDone(of2, h2, f, items, x, j)
<1>1. ASSUME NEW k \in DOMAIN items, k < j
      PROVE  ShownAs(of2, h2, f, items[k], h[x].elems[k])
  <2>1. ShownAs(of, h, f, items[k], h[x].elems[k]) /\ k \in DOMAIN h[x].elems
    BY <1>1, Zenon DEF ListDone
  <2>2. IsObject(h[x].elems[k]) => InHeap(h, "elem", x, k, h[x].elems[k].ref)
    BY <2>1, Zenon DEF InHeap, InContents, Refers
  <2>3. IsObject(h[x].elems[k]) => h2[h[x].elems[k].ref] = h[h[x].elems[k].ref]
    BY <2>2, Zenon DEF Steady
  <2> QED BY <2>1, <2>3, ShownKept, Zenon
<1> QED BY <1>1 DEF ListDone

LEMMA FieldKept ==
  ASSUME NEW of, NEW of2, NEW h \in Heap, NEW h2, NEW f, NEW items, NEW typed,
         NEW o \in Objs, NEW name \in Names, NEW v, v = h[o].props[name],
         FieldDone(of, h, f, items, typed, v), More(of, of2), Steady(h, h2)
  PROVE  FieldDone(of2, h2, f, items, typed, v)
<1>1. IsObject(v) => h2[v.ref] = h[v.ref]
  <2>1. IsObject(v) => InHeap(h, "prop", o, name, v.ref)
    BY Zenon DEF InHeap, InContents, Refers
  <2> QED BY <2>1, Zenon DEF Steady
<1>2. IsObject(v) => v.ref \in Objs
  <2>1. v \in Slot
    BY DEF Heap, Contents
  <2> QED BY <2>1 DEF Slot, Value, Primitive, Reference, IsObject
<1>3. CASE f.label = "repeated"
  <2>1. IsObject(v) /\ ListDone(of, h, f, items, v.ref, Len(items) + 1)
    BY <1>3 DEF FieldDone, IsObject
  <2>2. ListDone(of2, h2, f, items, v.ref, Len(items) + 1)
    BY <1>1, <1>2, <2>1, ListKept, Zenon
  <2> QED BY <1>3, <2>2, Zenon DEF FieldDone
<1>4. CASE f.label # "repeated"
  <2>1. items # <<>> => ShownAs(of, h, f, items[1], v)
    BY <1>4, Zenon DEF FieldDone
  <2>2. items # <<>> => ShownAs(of2, h2, f, items[1], v)
    BY <2>1, <1>1, ShownKept, Zenon
  <2> QED BY <1>4, <2>2, Zenon DEF FieldDone
<1> QED BY <1>3, <1>4

\* A message of the table, and the names of its fields.
LEMMA FieldNames ==
  ASSUME msgs \in Tables, NEW m \in DOMAIN msgs
  PROVE  /\ KnownIn(msgs, m) \subseteq DOMAIN Schema[msgs[m].type]
         /\ KnownIn(msgs, m) \subseteq Nat /\ Known[msgs[m].type] \in Nat
         /\ \A n \in KnownIn(msgs, m) :
              /\ FieldIn(msgs, m, n).name \in Names \ {"$unknownFields"}
              /\ \A k \in KnownIn(msgs, m) :
                   FieldIn(msgs, m, k).name = FieldIn(msgs, m, n).name => k = n
<1> DEFINE t == msgs[m].type
<1>1. t \in Types
  BY InTable, Zenon
<1> HIDE DEF t
<1>2. /\ Schema[t] \in Seq(FieldDescriptor) /\ Known[t] \in 0..Len(Schema[t])
      /\ \A n \in DOMAIN Schema[t] : Schema[t][n].name \in Names
  BY <1>1, NamesOfFields, Zenon
<1>3. 1..Known[t] \subseteq DOMAIN Schema[t] /\ 1..Known[t] \subseteq Nat /\ Known[t] \in Nat
  BY <1>2
<1>4. \A n \in DOMAIN Schema[t] :
        /\ Schema[t][n].name # "$unknownFields"
        /\ \A k \in DOMAIN Schema[t] : Schema[t][k].name = Schema[t][n].name => k = n
  BY <1>1, NamesAssumption, Zenon
<1>5. \A n \in 1..Known[t] :
              /\ Schema[t][n].name \in Names \ {"$unknownFields"}
              /\ \A k \in 1..Known[t] : Schema[t][k].name = Schema[t][n].name => k = n
  BY <1>2, <1>3, <1>4
<1> QED BY <1>3, <1>5 DEF KnownIn, FieldIn, t

LEMMA FieldsKept ==
  ASSUME msgs \in Tables, NEW m \in DOMAIN msgs, NEW of, NEW of2, NEW h \in Heap, NEW h2,
         NEW o \in Objs, NEW typed, NEW i, FieldsDone(of, msgs, h, o, m, typed, i),
         More(of, of2), Steady(h, h2),
         \A n \in KnownIn(msgs, m) : n < i =>
           h2[o].props[FieldIn(msgs, m, n).name] = h[o].props[FieldIn(msgs, m, n).name]
  PROVE  FieldsDone(of2, msgs, h2, o, m, typed, i)
<1>1. ASSUME NEW n \in KnownIn(msgs, m), n < i
      PROVE  FieldDone(of2, h2, FieldIn(msgs, m, n), msgs[m].vals[n], typed,
                       h2[o].props[FieldIn(msgs, m, n).name])
  <2>1. FieldDone(of, h, FieldIn(msgs, m, n), msgs[m].vals[n], typed,
                  h[o].props[FieldIn(msgs, m, n).name])
    BY <1>1, Zenon DEF FieldsDone
  <2>2. FieldIn(msgs, m, n).name \in Names
    BY FieldNames
  <2>3. FieldDone(of2, h2, FieldIn(msgs, m, n), msgs[m].vals[n], typed,
                  h[o].props[FieldIn(msgs, m, n).name])
    BY <2>1, <2>2, FieldKept, Zenon
  <2> QED BY <1>1, <2>3, Zenon
<1> QED BY <1>1 DEF FieldsDone

LEMMA UnknownKept ==
  ASSUME NEW h \in Heap, NEW h2, NEW t, NEW seq, NEW v \in Slot, UnknownShown(h, t, seq, v),
         Steady(h, h2), IsObject(v) => h2[v.ref] = h[v.ref]
  PROVE  UnknownShown(h2, t, seq, v)
<1>1. /\ v.tag = "array" /\ h[v.ref].props = Blank.props /\ DOMAIN h[v.ref].elems = DOMAIN seq
      /\ \A k \in DOMAIN seq : /\ h[v.ref].elems[k].tag = "object"
                               /\ h[h[v.ref].elems[k].ref] = UnknownEntry(t, seq[k])
  BY DEF UnknownShown
<1>2. IsObject(v)
  BY <1>1 DEF IsObject
<1>3. v.ref \in Objs
  BY <1>2 DEF Slot, Value, Primitive, Reference, IsObject
<1>4. ASSUME NEW k \in DOMAIN seq
      PROVE  h2[h[v.ref].elems[k].ref] = h[h[v.ref].elems[k].ref]
  <2>1. IsObject(h[v.ref].elems[k]) /\ k \in DOMAIN h[v.ref].elems
    BY <1>1 DEF IsObject
  <2>2. InHeap(h, "elem", v.ref, k, h[v.ref].elems[k].ref)
    BY <1>3, <2>1, Zenon DEF InHeap, InContents, Refers
  <2> QED BY <2>2, Zenon DEF Steady
<1> QED BY <1>1, <1>2, <1>4 DEF UnknownShown

LEMMA CompleteKept ==
  ASSUME msgs \in Tables, NEW of, NEW of2, NEW h \in Heap, NEW h2, NEW o \in Objs, NEW s,
         s.msg \in DOMAIN msgs, "$unknownFields" \in Names,
         Complete(of, msgs, h, o, s), More(of, of2), Steady(h, h2), h2[o] = h[o]
  PROVE  Complete(of2, msgs, h2, o, s)
<1>1. FieldsDone(of2, msgs, h2, o, s.msg, s.typed, Known[msgs[s.msg].type] + 1)
  BY FieldsKept, Zenon DEF Complete
<1>2. ASSUME NEW t, NEW seq, UnknownShown(h, t, seq, Extra(h, o))
      PROVE  UnknownShown(h2, t, seq, Extra(h2, o))
  <2>1. Extra(h, o) = h[o].props["$unknownFields"] /\ Extra(h2, o) = Extra(h, o)
    BY Zenon DEF Extra
  <2>2. Extra(h, o) \in Slot
    BY <2>1 DEF Heap, Contents
  <2>3. IsObject(Extra(h, o)) => InHeap(h, "prop", o, "$unknownFields", Extra(h, o).ref)
    BY <2>1, Zenon DEF InHeap, InContents, Refers
  <2>4. IsObject(Extra(h, o)) => h2[Extra(h, o).ref] = h[Extra(h, o).ref]
    BY <2>3, Zenon DEF Steady
  <2> QED BY <1>2, <2>1, <2>2, <2>4, UnknownKept, Zenon
<1>3. Extra(h2, o) = Extra(h, o) /\ h2[o].elems = h[o].elems
  BY DEF Extra
<1>4. NoneElse(msgs, h2, o, s.msg, Known[msgs[s.msg].type] + 1)
  BY DEF Complete, NoneElse
<1> QED BY <1>1, <1>2, <1>3, <1>4, Zenon DEF Complete

LEMMA PartialKept ==
  ASSUME msgs \in Tables, NEW of, NEW of2, NEW h \in Heap, NEW h2, NEW fr \in Part,
         Partial(of, msgs, h, fr), More(of, of2), Steady(h, h2), h2[fr.ret] = h[fr.ret],
         fr.list # None => h2[fr.list] = h[fr.list]
  PROVE  Partial(of2, msgs, h2, fr)
<1>1. fr.msg \in DOMAIN msgs /\ fr.ret \in Objs /\ (fr.list # None => fr.list \in Objs)
  BY DEF Part
<1>2. FieldsDone(of2, msgs, h2, fr.ret, fr.msg, fr.typed, fr.i)
  BY <1>1, FieldsKept, Zenon DEF Partial
<1>3. fr.list # None => ListDone(of2, h2, FieldAt(msgs, fr), ItemsAt(msgs, fr), fr.list, fr.j)
  BY <1>1, ListKept, Zenon DEF Partial
<1>4. Extra(h2, fr.ret) = Extra(h, fr.ret) /\ h2[fr.ret].elems = h[fr.ret].elems
  BY DEF Extra
<1>5. NoneElse(msgs, h2, fr.ret, fr.msg, fr.i)
  BY DEF Partial, NoneElse
<1> QED BY <1>2, <1>3, <1>4, <1>5, Zenon DEF Partial

\* The object and the array of each activation are in no other place.
Private(h, u, fs) ==
  /\ \A g, a, b, x : InHeap(h, g, a, b, x) => x \in Made(u)
  /\ \A k \in DOMAIN fs :
       /\ Holds(fs[k], u) /\ fs[k].list # fs[k].ret
       /\ \A g, a, b, x : InHeap(h, g, a, b, x) => x # fs[k].ret /\ x # fs[k].list
       /\ \A j \in DOMAIN fs : j # k => Apart(fs[k], fs[j])

LEMMA IsPrivate ==
  ASSUME IInv, Placing
  PROVE  Private(heap, used, frames)
<1> DEFINE h == heap
<1>1. Sole(heap, used, frames, replies) /\ \A k \in DOMAIN frames : Ahead(msgs, heap, frames[k])
  BY DEF Placing, Placed
<1>2. heap \in Heap /\ frames \in Seq(Part)
  BY DEF IInv, TypeOK
<1>3. ASSUME NEW g, NEW a, NEW b, NEW x, InHeap(heap, g, a, b, x)
      PROVE  x \in Objs /\ x \in Made(used)
  <2>1. PICK v \in Slot : Refers(v, x)
    <3>1. a \in Objs /\ InContents(heap[a], g, b, x)
      BY <1>3 DEF InHeap
    <3>2. heap[a].props \in [Names -> Slot] /\ heap[a].elems \in Seq(Slot)
      BY <1>2, <3>1 DEF Heap, Contents
    <3>3. CASE g = "prop" /\ b \in Names /\ Refers(heap[a].props[b], x)
      BY <3>2, <3>3
    <3>4. CASE g = "elem" /\ b \in DOMAIN heap[a].elems /\ Refers(heap[a].elems[b], x)
      BY <3>2, <3>4
    <3> QED BY <3>1, <3>3, <3>4, Zenon DEF InContents
  <2>2. x \in Objs
    BY <2>1 DEF Slot, Value, Primitive, Reference, Refers, IsObject
  <2>3. At(heap, frames, replies, g, a, b, x)
    BY <1>3, Zenon DEF At
  <2> QED BY <1>1, <2>2, <2>3, Zenon DEF Sole
<1>4. ASSUME NEW k \in DOMAIN frames
      PROVE  /\ Holds(frames[k], used) /\ frames[k].list # frames[k].ret
             /\ \A j \in DOMAIN frames : j # k => Apart(frames[k], frames[j])
  <2>1. frames[k] \in Part
    BY <1>2
  <2>2. frames[k].list # frames[k].ret
    BY <1>1 DEF Ahead
  <2> QED BY <1>1, <2>1, <2>2, FramesApart, Zenon
<1>5. ASSUME NEW k \in DOMAIN frames, NEW g, NEW a, NEW b, NEW x, InHeap(heap, g, a, b, x),
             x \in {frames[k].ret, frames[k].list}
      PROVE  FALSE
  <2>1. x \in Made(used) /\ At(heap, frames, replies, g, a, b, x)
    BY <1>3, <1>5, Zenon DEF At
  <2>2. \A g1, a1, b1 :
          At(heap, frames, replies, g1, a1, b1, x) <=> g1 = "frame" /\ a1 = k /\ b1 = 0
    <3> HIDE <1>3, <1>4
    <3>1. Sole(heap, used, frames, replies) /\ x \in Made(used)
      BY <1>1, <2>1
    <3> QED BY <1>5, <3>1, HeldOnly
  <2>3. g \in {"prop", "elem"}
    BY <1>5 DEF InHeap, InContents
  <2>4. g = "frame"
    BY <2>1, <2>2, Zenon
  <2> QED BY <2>3, <2>4
<1>6. ASSUME NEW k \in DOMAIN frames, NEW g, NEW a, NEW b, NEW x, InHeap(heap, g, a, b, x)
      PROVE  x # frames[k].ret /\ x # frames[k].list
  BY <1>5, <1>6
<1> QED BY <1>3, <1>4, <1>6, Zenon DEF Private

\* Of the objects made so far, only those of the k-th activation are written.
WritesOnly(h, h2, u, fs, k) ==
  \A x \in Made(u) : h2[x] # h[x] => k \in DOMAIN fs /\ x \in {fs[k].ret, fs[k].list}

LEMMA SteadyStep ==
  ASSUME NEW h, NEW h2, NEW u, NEW fs, NEW k, Private(h, u, fs), WritesOnly(h, h2, u, fs, k),
         Made(u) \subseteq Objs
  PROVE  /\ Steady(h, h2)
         /\ \A j \in DOMAIN fs : j # k =>
              h2[fs[j].ret] = h[fs[j].ret] /\ (fs[j].list # None => h2[fs[j].list] = h[fs[j].list])
<1>1. ASSUME NEW g, NEW a, NEW b, NEW x, InHeap(h, g, a, b, x)
      PROVE  h2[x] = h[x]
  <2>1. x \in Made(u) /\ (k \in DOMAIN fs => x # fs[k].ret /\ x # fs[k].list)
    BY <1>1, Zenon DEF Private
  <2> QED BY <2>1 DEF WritesOnly
<1>2. ASSUME NEW j \in DOMAIN fs, j # k, NEW o \in {fs[j].ret, fs[j].list}, o # None
      PROVE  h2[o] = h[o]
  <2>1. o \in Made(u)
    BY <1>2 DEF Private, Holds
  <2>2. k \in DOMAIN fs => o \notin {fs[k].ret, fs[k].list}
    <3>1. k \in DOMAIN fs => Apart(fs[j], fs[k])
      BY <1>2, Zenon DEF Private
    <3> QED BY <1>2, <3>1 DEF Apart
  <2> QED BY <2>1, <2>2 DEF WritesOnly
<1>3. ASSUME NEW j \in DOMAIN fs, j # k
      PROVE  h2[fs[j].ret] = h[fs[j].ret]
  <2>1. fs[j].ret \in Made(u)
    BY DEF Private, Holds
  <2>2. fs[j].ret # None
    BY <2>1, PayloadAssumption
  <2> QED BY <1>2, <1>3, <2>2
<1> QED BY <1>1, <1>2, <1>3 DEF Steady

\* What a state of the heap must be for the steps below.
Sound(h, u, fs) ==
  h \in Heap /\ fs \in Seq(Part) /\ Made(u) \subseteq Objs /\ Private(h, u, fs)

\* What the activations other than the k-th show, and the objects of none.
LEMMA OthersKept ==
  ASSUME msgs \in Tables, NEW of, NEW of2, NEW h, NEW h2, NEW u, NEW fs, NEW rs, NEW k,
         Sound(h, u, fs), Consistent(of, msgs, h, u, fs, rs), WritesOnly(h, h2, u, fs, k),
         More(of, of2)
  PROVE  /\ \A o \in DOMAIN of : o \notin Rets(fs) => Complete(of2, msgs, h2, o, of[o])
         /\ \A j \in DOMAIN fs : j # k => Partial(of2, msgs, h2, fs[j])
<1>1. /\ Steady(h, h2)
      /\ \A j \in DOMAIN fs : j # k =>
           h2[fs[j].ret] = h[fs[j].ret] /\ (fs[j].list # None => h2[fs[j].list] = h[fs[j].list])
  <2>1. Private(h, u, fs) /\ Made(u) \subseteq Objs
    BY DEF Sound
  <2> QED BY <2>1, SteadyStep
<1>2. "$unknownFields" \in Names
  BY ReaderAssumption
<1>3. ASSUME NEW o \in DOMAIN of, o \notin Rets(fs)
      PROVE  Complete(of2, msgs, h2, o, of[o])
  <2>1. Complete(of, msgs, h, o, of[o])
    BY <1>3, Zenon DEF Consistent, AllComplete
  <2>2. o \in Made(u) /\ o \in Objs /\ of[o].msg \in DOMAIN msgs
    BY DEF Consistent, Stands, Sound
  <2>3. k \in DOMAIN fs => o # fs[k].ret /\ o # fs[k].list
    BY <1>3 DEF Rets, Consistent, StandIn
  <2>4. h2[o] = h[o]
    BY <2>2, <2>3 DEF WritesOnly
  <2> QED BY <1>1, <1>2, <2>1, <2>2, <2>4, CompleteKept, Zenon DEF Sound
<1>4. ASSUME NEW j \in DOMAIN fs, j # k
      PROVE  Partial(of2, msgs, h2, fs[j])
  <2>1. fs[j] \in Part /\ h \in Heap
    BY DEF Sound
  <2>2. Partial(of, msgs, h, fs[j])
    BY Zenon DEF Consistent, AllPartial
  <2> QED BY <1>1, <1>4, <2>1, <2>2, PartialKept, Zenon
<1> QED BY <1>3, <1>4

\* The innermost activation has gone on.
GoneOn(fs, fs2, n) ==
  /\ n \in Nat \ {0} /\ DOMAIN fs = 1..n /\ DOMAIN fs2 = 1..n
  /\ \A k \in 1..n - 1 : fs2[k] = fs[k]
  /\ fs2[n].ret = fs[n].ret /\ Standing(fs2[n]) = Standing(fs[n])

LEMMA TopGoesOn ==
  ASSUME msgs \in Tables, NEW of, NEW h, NEW h2, NEW u, NEW u2, NEW fs, NEW fs2, NEW rs, NEW n,
         Sound(h, u, fs), Consistent(of, msgs, h, u, fs, rs), WritesOnly(h, h2, u, fs, n),
         GoneOn(fs, fs2, n), Partial(of, msgs, h2, fs2[n]), fs2[n].list \notin DOMAIN of,
         Made(u) \subseteq Made(u2)
  PROVE  Consistent(of, msgs, h2, u2, fs2, rs)
<1>1. More(of, of)
  BY DEF More
<1>2. /\ \A o \in DOMAIN of : o \notin Rets(fs) => Complete(of, msgs, h2, o, of[o])
      /\ \A j \in DOMAIN fs : j # n => Partial(of, msgs, h2, fs[j])
  BY <1>1, OthersKept, Zenon
<1>3. n \in 1..n /\ \A k \in 1..n : k = n \/ k \in 1..n - 1
  BY DEF GoneOn
<1>4. \A k \in 1..n : fs2[k].ret = fs[k].ret /\ Standing(fs2[k]) = Standing(fs[k])
  BY <1>3, Zenon DEF GoneOn
<1>5. Rets(fs2) = Rets(fs)
  BY <1>4 DEF Rets, GoneOn
<1>6. Stands(of, msgs, u2)
  BY DEF Consistent, Stands
<1>7. StandIn(of, fs2)
  <2>1. ASSUME NEW k \in 1..n
        PROVE  fs2[k].list \notin DOMAIN of
    BY <1>3 DEF Consistent, StandIn, GoneOn
  <2> QED BY <1>4, <2>1 DEF Consistent, StandIn, GoneOn
<1>8. Chained(msgs, fs2)
  <2>1. ASSUME NEW k \in 1..n, k + 1 \in 1..n
        PROVE  HasItem(msgs, fs2[k]) /\ Standing(fs2[k + 1]) = Inner(HereAt(msgs, fs2[k])[1])
    <3>1. k \in 1..n - 1
      BY <2>1 DEF GoneOn
    <3>2. fs2[k] = fs[k] /\ Standing(fs2[k + 1]) = Standing(fs[k + 1])
      BY <1>4, <2>1, <3>1 DEF GoneOn
    <3> QED BY <2>1, <3>2, Zenon DEF Consistent, Chained, GoneOn
  <2> QED BY <2>1, Zenon DEF Chained, GoneOn
<1>9. AllComplete(of, msgs, h2, fs2)
  BY <1>2, <1>5, Zenon DEF AllComplete
<1>10. AllPartial(of, msgs, h2, fs2)
  <2>1. ASSUME NEW k \in 1..n
        PROVE  Partial(of, msgs, h2, fs2[k])
    <3>1. CASE k = n
      BY <3>1
    <3>2. CASE k # n
      <4>1. k \in DOMAIN fs /\ fs2[k] = fs[k]
        BY <1>3, <3>2, Zenon DEF GoneOn
      <4> QED BY <1>2, <3>2, <4>1, Zenon
    <3> QED BY <3>1, <3>2
  <2> QED BY <2>1, Zenon DEF AllPartial, GoneOn
<1>11. Asking(fs2, rs)
  <2>1. fs # <<>> /\ 1 \in 1..n
    BY DEF GoneOn
  <2>2. Standing(fs2[1]) = Standing(fs[1])
    BY <1>4, <2>1
  <2> QED BY <2>1, <2>2, Zenon DEF Consistent, Asking
<1> QED BY <1>6, <1>7, <1>8, <1>9, <1>10, <1>11, Zenon DEF Consistent

\* A new object stands for a message.
Taken(of, o1, s) == [o \in DOMAIN of \cup {o1} |-> IF o = o1 THEN s ELSE of[o]]

LEMMA NoneOf ==
  ASSUME NEW of, NEW table, NEW u, Stands(of, table, u), Made(u) \subseteq Objs
  PROVE  None \notin DOMAIN of
BY PayloadAssumption DEF Stands

LEMMA AnsweringMore ==
  ASSUME NEW of, NEW of2, NEW table, NEW rs, Answering(of, table, rs), More(of, of2)
  PROVE  Answering(of2, table, rs)
<1>1. ASSUME NEW r \in DOMAIN rs  PROVE AnswerRight(of2, table, rs[r])
  <2>1. AnswerRight(of, table, rs[r])
    BY DEF Answering
  <2> QED BY <2>1 DEF AnswerRight, More
<1> QED BY <1>1 DEF Answering

\* An activation has begun, for a new object.
Begun(fs, fs2, n, fr) ==
  /\ n \in Nat /\ DOMAIN fs = 1..n /\ DOMAIN fs2 = 1..n + 1
  /\ \A k \in 1..n : fs2[k] = fs[k]
  /\ fs2[n + 1] = fr /\ fr.list = None /\ fr.i = 1 /\ fr.msg \in DOMAIN msgs
  /\ n # 0 => HasItem(msgs, fs[n]) /\ Standing(fr) = Inner(HereAt(msgs, fs[n])[1])

LEMMA TopBegins ==
  ASSUME msgs \in Tables, NEW of, NEW h, NEW h2, NEW u, NEW u2, NEW fs, NEW fs2,
         NEW rs, NEW rs2, NEW n, NEW fr,
         Sound(h, u, fs), Consistent(of, msgs, h, u, fs, rs), WritesOnly(h, h2, u, fs, 0),
         Begun(fs, fs2, n, fr), fr.ret \in Objs, fr.ret \notin Made(u), h2[fr.ret] = Blank,
         Made(u2) = Made(u) \cup {fr.ret}, Answering(of, msgs, rs2), Asking(fs2, rs2)
  PROVE  Consistent(Taken(of, fr.ret, Standing(fr)), msgs, h2, u2, fs2, rs2)
<1> DEFINE of2 == Taken(of, fr.ret, Standing(fr))
<1>1. /\ DOMAIN of2 = DOMAIN of \cup {fr.ret} /\ of2[fr.ret] = Standing(fr)
      /\ fr.ret \notin DOMAIN of /\ \A o \in DOMAIN of : of2[o] = of[o]
  <2>1. fr.ret \notin DOMAIN of
    BY DEF Consistent, Stands
  <2> QED BY <2>1 DEF Taken
<1>2. More(of, of2)
  BY <1>1 DEF More
<1> HIDE DEF of2
<1>3. /\ \A o \in DOMAIN of : o \notin Rets(fs) => Complete(of2, msgs, h2, o, of[o])
      /\ \A j \in DOMAIN fs : j # 0 => Partial(of2, msgs, h2, fs[j])
  BY <1>2, OthersKept, Zenon
<1>4. n + 1 \in 1..n + 1 /\ \A k \in 1..n + 1 : k = n + 1 \/ k \in 1..n
  BY DEF Begun
<1>5. Rets(fs2) = Rets(fs) \cup {fr.ret}
  <2>1. \A k \in 1..n : k \in 1..n + 1 /\ fs2[k].ret = fs[k].ret
    BY DEF Begun
  <2>2. fs2[n + 1].ret = fr.ret
    BY DEF Begun
  <2> QED BY <1>4, <2>1, <2>2 DEF Rets, Begun
<1>6. Stands(of2, msgs, u2)
  BY <1>1 DEF Consistent, Stands, Begun, Standing
<1>7. StandIn(of2, fs2)
  <2>1. ASSUME NEW k \in 1..n
        PROVE  fs2[k].ret \in DOMAIN of2 /\ of2[fs2[k].ret] = Standing(fs2[k]) /\ fs2[k].list \notin DOMAIN of2
    <3>1. fs2[k] = fs[k] /\ k \in DOMAIN fs
      BY DEF Begun
    <3>2. fs[k].ret \in DOMAIN of /\ of[fs[k].ret] = Standing(fs[k]) /\ fs[k].list \notin DOMAIN of
      BY <3>1 DEF Consistent, StandIn
    <3>3. fs[k].list # fr.ret
      <4>1. fs[k].list # None => fs[k].list \in Made(u)
        BY <3>1 DEF Sound, Private, Holds
      <4> QED BY <4>1, PayloadAssumption
    <3> QED BY <1>1, <3>1, <3>2, <3>3
  <2>2. fr.ret \in DOMAIN of2 /\ of2[fr.ret] = Standing(fr) /\ fr.list \notin DOMAIN of2
    <3>1. None \notin DOMAIN of
      BY NoneOf, Zenon DEF Consistent, Sound
    <3> QED BY <1>1, <3>1, PayloadAssumption DEF Begun
  <2>3. ASSUME NEW k \in 1..n + 1
        PROVE  fs2[k].ret \in DOMAIN of2 /\ of2[fs2[k].ret] = Standing(fs2[k]) /\ fs2[k].list \notin DOMAIN of2
    <3>1. CASE k = n + 1
      <4>1. fs2[k] = fr
        BY <3>1, Zenon DEF Begun
      <4> QED BY <4>1, <2>2
    <3> QED BY <1>4, <2>1, <3>1, Zenon
  <2> QED BY <2>3, Zenon DEF StandIn, Begun
<1>8. Chained(msgs, fs2)
  <2>1. ASSUME NEW k \in 1..n + 1, k + 1 \in 1..n + 1
        PROVE  HasItem(msgs, fs2[k]) /\ Standing(fs2[k + 1]) = Inner(HereAt(msgs, fs2[k])[1])
    <3>1. k \in 1..n /\ fs2[k] = fs[k]
      BY <2>1 DEF Begun
    <3>2. CASE k = n
      <4>1. n # 0 /\ fs2[k + 1] = fr /\ fs2[k] = fs[n]
        BY <3>1, <3>2 DEF Begun
      <4> QED BY <4>1, Zenon DEF Begun
    <3>3. CASE k # n
      <4>1. k + 1 \in 1..n
        BY <2>1, <3>3 DEF Begun
      <4>2. fs2[k + 1] = fs[k + 1]
        BY <4>1 DEF Begun
      <4> QED BY <3>1, <4>1, <4>2, Zenon DEF Consistent, Chained, Begun
    <3> QED BY <3>2, <3>3
  <2> QED BY <2>1, Zenon DEF Chained, Begun
<1>9. AllComplete(of2, msgs, h2, fs2)
  <2>1. ASSUME NEW o \in DOMAIN of2, o \notin Rets(fs2)
        PROVE  Complete(of2, msgs, h2, o, of2[o])
    <3>1. o \in DOMAIN of /\ o \notin Rets(fs) /\ of2[o] = of[o]
      BY <1>1, <1>5, <2>1
    <3> QED BY <1>3, <3>1, Zenon
  <2> QED BY <2>1, Zenon DEF AllComplete
<1>10. Partial(of2, msgs, h2, fr)
  <2>1. Blank.elems = <<>> /\ \A name \in Names : Blank.props[name] = Undefined
    BY DEF Blank
  <2>2. FieldsDone(of2, msgs, h2, fr.ret, fr.msg, fr.typed, fr.i)
    <3>1. \A n1 \in KnownIn(msgs, fr.msg) : ~(n1 < fr.i)
      BY DEF KnownIn, Begun
    <3> QED BY <3>1, Zenon DEF FieldsDone
  <2>3. NoneElse(msgs, h2, fr.ret, fr.msg, fr.i)
    BY <2>1 DEF NoneElse
  <2>4. "$unknownFields" \in Names
    BY ReaderAssumption
  <2> QED BY <2>1, <2>2, <2>3, <2>4 DEF Partial, Extra, Begun
<1>11. AllPartial(of2, msgs, h2, fs2)
  <2>1. ASSUME NEW k \in 1..n
        PROVE  Partial(of2, msgs, h2, fs2[k])
    <3>1. k \in DOMAIN fs /\ k # 0 /\ fs2[k] = fs[k]
      BY DEF Begun
    <3> QED BY <1>3, <3>1, Zenon
  <2>2. fs2[n + 1] = fr
    BY DEF Begun
  <2>3. \A k \in 1..n + 1 : Partial(of2, msgs, h2, fs2[k])
    BY <1>4, <1>10, <2>1, <2>2, Zenon
  <2> QED BY <2>3, Zenon DEF AllPartial, Begun
<1>12. Answering(of2, msgs, rs2)
  BY <1>2, AnsweringMore, Zenon
<1> QED BY <1>6, <1>7, <1>8, <1>9, <1>11, <1>12, Zenon DEF Consistent, of2

\* The innermost activation has ended.
LEMMA TopEnds ==
  ASSUME msgs \in Tables, NEW of, NEW h, NEW h2, NEW u, NEW u2, NEW fs, NEW fs2, NEW rs, NEW n,
         Sound(h, u, fs), Consistent(of, msgs, h, u, fs, rs), WritesOnly(h, h2, u, fs, n),
         n \in Nat \ {0}, DOMAIN fs = 1..n, fs2 \in Seq(Part), DOMAIN fs2 = 1..n - 1,
         \A k \in 1..n - 1 : fs2[k] = fs[k],
         Complete(of, msgs, h2, fs[n].ret, Standing(fs[n])), Made(u) \subseteq Made(u2)
  PROVE  Consistent(of, msgs, h2, u2, fs2, rs)
<1>1. More(of, of)
  BY DEF More
<1>2. /\ \A o \in DOMAIN of : o \notin Rets(fs) => Complete(of, msgs, h2, o, of[o])
      /\ \A j \in DOMAIN fs : j # n => Partial(of, msgs, h2, fs[j])
  BY <1>1, OthersKept, ZenonT(40)
<1>3. n \in 1..n /\ \A k \in 1..n - 1 : k \in 1..n /\ k # n
  OBVIOUS
<1>4. \A k \in 1..n : k = n \/ k \in 1..n - 1
  OBVIOUS
<1>5. Rets(fs) = Rets(fs2) \cup {fs[n].ret}
  BY <1>3, <1>4 DEF Rets
<1>6. Stands(of, msgs, u2)
  BY DEF Consistent, Stands
<1>7. StandIn(of, fs2)
  BY <1>3 DEF Consistent, StandIn
<1>8. Chained(msgs, fs2)
  <2>1. ASSUME NEW k \in 1..n - 1, k + 1 \in 1..n - 1
        PROVE  HasItem(msgs, fs2[k]) /\ Standing(fs2[k + 1]) = Inner(HereAt(msgs, fs2[k])[1])
    <3>1. k \in DOMAIN fs /\ k + 1 \in DOMAIN fs /\ fs2[k] = fs[k] /\ fs2[k + 1] = fs[k + 1]
      BY <1>3, <2>1
    <3> QED BY <3>1, Zenon DEF Consistent, Chained
  <2> QED BY <2>1, Zenon DEF Chained
<1>9. AllComplete(of, msgs, h2, fs2)
  <2>1. of[fs[n].ret] = Standing(fs[n])
    BY <1>3 DEF Consistent, StandIn
  <2>2. ASSUME NEW o \in DOMAIN of, o \notin Rets(fs2)
        PROVE  Complete(of, msgs, h2, o, of[o])
    <3>1. CASE o = fs[n].ret
      BY <2>1, <3>1, Zenon
    <3>2. CASE o # fs[n].ret
      BY <1>2, <1>5, <2>2, <3>2
    <3> QED BY <3>1, <3>2
  <2> QED BY <2>2, Zenon DEF AllComplete
<1>10. AllPartial(of, msgs, h2, fs2)
  <2>1. ASSUME NEW k \in 1..n - 1
        PROVE  Partial(of, msgs, h2, fs2[k])
    BY <1>2, <1>3, Zenon
  <2> QED BY <2>1, Zenon DEF AllPartial
<1>11. Asking(fs2, rs)
  <2>1. ASSUME fs2 # <<>>
        PROVE  fs # <<>> /\ fs2[1] = fs[1]
    <3>1. 1 \in 1..n - 1
      BY <2>1
    <3> QED BY <3>1
  <2> QED BY <2>1 DEF Consistent, Asking
<1> QED BY <1>6, <1>7, <1>8, <1>9, <1>10, <1>11, Zenon DEF Consistent

\* A property, or the place of an activation, has been set, and nothing else.
OnlyProp(h, h2, o, n, v) ==
  /\ h2[o].elems = h[o].elems /\ h2[o].props[n] = v
  /\ \A name \in Names : name # n => h2[o].props[name] = h[o].props[name]
Shown(h, h2, fr, v) ==
  IF fr.list # None
  THEN /\ h2[fr.ret] = h[fr.ret] /\ h2[fr.list].props = h[fr.list].props
       /\ DOMAIN h2[fr.list].elems = DOMAIN h[fr.list].elems /\ h2[fr.list].elems[fr.j] = v
       /\ \A k \in DOMAIN h[fr.list].elems : k # fr.j => h2[fr.list].elems[k] = h[fr.list].elems[k]
  ELSE OnlyProp(h, h2, fr.ret, FieldAt(msgs, fr).name, v)

\* An activation whose next field or item may be set.
Stops(fr) ==
  /\ fr \in Part /\ fr.i <= KnownAt(msgs, fr)
  /\ fr.list # None => fr.j \in 1..Len(ItemsAt(msgs, fr))
  /\ fr.list = None => FieldAt(msgs, fr).label # "repeated" /\ ItemsAt(msgs, fr) # <<>>

\* The property of the i-th field has been set to a value that shows the field.
FieldSet(of, h, h2, o, m, typed, i, v) ==
  /\ FieldsDone(of, msgs, h, o, m, typed, i) /\ NoneElse(msgs, h, o, m, i)
  /\ OnlyProp(h, h2, o, FieldIn(msgs, m, i).name, v)
  /\ FieldDone(of, h2, FieldIn(msgs, m, i), msgs[m].vals[i], typed, v)
FieldPassed(of, h, h2, o, m, typed, i) ==
  /\ FieldsDone(of, msgs, h2, o, m, typed, i + 1) /\ NoneElse(msgs, h2, o, m, i + 1)
  /\ Extra(h2, o) = Extra(h, o)

LEMMA FieldsOnward ==
  ASSUME msgs \in Tables, NEW of, NEW h \in Heap, NEW h2, NEW o \in Objs, NEW m \in DOMAIN msgs,
         NEW typed, NEW i \in KnownIn(msgs, m), Steady(h, h2), NEW v,
         FieldSet(of, h, h2, o, m, typed, i, v)
  PROVE  FieldPassed(of, h, h2, o, m, typed, i)
<1> USE DEF FieldSet, OnlyProp
<1>1. /\ KnownIn(msgs, m) \subseteq Nat
      /\ \A n \in KnownIn(msgs, m) :
              /\ FieldIn(msgs, m, n).name \in Names \ {"$unknownFields"}
              /\ \A k \in KnownIn(msgs, m) :
                   FieldIn(msgs, m, k).name = FieldIn(msgs, m, n).name => k = n
  BY FieldNames, Zenon
<1>2. More(of, of)
  BY DEF More
<1>3. \A n \in KnownIn(msgs, m) : n < i =>
           h2[o].props[FieldIn(msgs, m, n).name] = h[o].props[FieldIn(msgs, m, n).name]
  BY <1>1
<1>4. FieldsDone(of, msgs, h2, o, m, typed, i)
  <2>1. FieldsDone(of, msgs, h, o, m, typed, i)
    OBVIOUS
  <2> QED BY <1>2, <1>3, <2>1, FieldsKept, Zenon
<1>5. \A n \in KnownIn(msgs, m) : n < i + 1 <=> n < i \/ n = i
  BY <1>1
<1>6. FieldsDone(of, msgs, h2, o, m, typed, i + 1)
  BY <1>4, <1>5, Zenon DEF FieldsDone
<1>7. NoneElse(msgs, h2, o, m, i + 1)
  <2>1. ASSUME NEW name \in Names \ {"$unknownFields"},
               \A n \in KnownIn(msgs, m) : n < i + 1 => name # FieldIn(msgs, m, n).name
        PROVE  h2[o].props[name] = Undefined
    <3>1. name # FieldIn(msgs, m, i).name
      BY <1>5, <2>1, Zenon
    <3>2. \A n \in KnownIn(msgs, m) : n < i => name # FieldIn(msgs, m, n).name
      BY <1>5, <2>1, Zenon
    <3>3. h[o].props[name] = Undefined
      BY <3>2, Zenon DEF NoneElse
    <3> QED BY <3>1, <3>3
  <2> QED BY <2>1, Zenon DEF NoneElse
<1>8. Extra(h2, o) = Extra(h, o)
  BY <1>1, ReaderAssumption DEF Extra
<1> QED BY <1>6, <1>7, <1>8, Zenon DEF FieldPassed

LEMMA AtField ==
  ASSUME msgs \in Tables, NEW fr \in Part, fr.i <= KnownAt(msgs, fr)
  PROVE  /\ fr.msg \in DOMAIN msgs /\ fr.ret \in Objs /\ fr.i \in KnownIn(msgs, fr.msg)
         /\ FieldIn(msgs, fr.msg, fr.i) = FieldAt(msgs, fr)
         /\ msgs[fr.msg].vals[fr.i] = ItemsAt(msgs, fr) /\ Len(ItemsAt(msgs, fr)) \in Nat
         /\ DOMAIN ItemsAt(msgs, fr) = 1..Len(ItemsAt(msgs, fr))
<1>1. /\ fr.msg \in DOMAIN msgs /\ fr.ret \in Objs /\ fr.i \in Nat \ {0}
      /\ KnownAt(msgs, fr) \in 0..Len(Schema[msgs[fr.msg].type])
      /\ Items(fr) = ItemsAt(msgs, fr) /\ Items(fr) \in Seq(ItemsOf(FieldOf(fr), msgs))
  BY PartFacts
<1>2. fr.i \in 1..Known[msgs[fr.msg].type]
  <2>1. KnownAt(msgs, fr) \in Nat
    BY FieldNames, <1>1 DEF KnownAt
  <2> QED BY <1>1, <2>1 DEF KnownAt
<1> QED BY <1>1, <1>2 DEF KnownIn, FieldIn, FieldAt, ItemsAt

LEMMA SetShows ==
  ASSUME msgs \in Tables, NEW of, NEW h \in Heap, NEW h2, NEW fr, Stops(fr), NEW v,
         Steady(h, h2), Partial(of, msgs, h, fr), Shown(h, h2, fr, v),
         ShownAs(of, h2, FieldAt(msgs, fr), HereAt(msgs, fr), v)
  PROVE  Partial(of, msgs, h2, Onward(fr))
<1>1. /\ fr.msg \in DOMAIN msgs /\ fr.ret \in Objs /\ fr.i \in KnownIn(msgs, fr.msg)
      /\ FieldIn(msgs, fr.msg, fr.i) = FieldAt(msgs, fr)
      /\ msgs[fr.msg].vals[fr.i] = ItemsAt(msgs, fr)
      /\ DOMAIN ItemsAt(msgs, fr) = 1..Len(ItemsAt(msgs, fr))
  BY AtField DEF Stops
<1>2. CASE fr.list = None
  <2>1. FieldAt(msgs, fr).label # "repeated" /\ ItemsAt(msgs, fr) # <<>>
    BY <1>2 DEF Stops
  <2>2. FieldDone(of, h2, FieldAt(msgs, fr), ItemsAt(msgs, fr), fr.typed, v)
    BY <1>2, <2>1 DEF FieldDone, HereAt
  <2>3. OnlyProp(h, h2, fr.ret, FieldAt(msgs, fr).name, v)
    BY <1>2, Zenon DEF Shown
  <2>4. /\ FieldsDone(of, msgs, h2, fr.ret, fr.msg, fr.typed, fr.i + 1)
        /\ NoneElse(msgs, h2, fr.ret, fr.msg, fr.i + 1)
        /\ Extra(h2, fr.ret) = Extra(h, fr.ret)
    <3>1. FieldsDone(of, msgs, h, fr.ret, fr.msg, fr.typed, fr.i) /\ NoneElse(msgs, h, fr.ret, fr.msg, fr.i)
      BY Zenon DEF Partial
    <3>2. FieldDone(of, h2, FieldIn(msgs, fr.msg, fr.i), msgs[fr.msg].vals[fr.i], fr.typed, v)
      BY <1>1, <2>2, Zenon
    <3>3. OnlyProp(h, h2, fr.ret, FieldIn(msgs, fr.msg, fr.i).name, v)
      BY <1>1, <2>3, Zenon
    <3>4. fr.msg \in DOMAIN msgs /\ fr.ret \in Objs /\ fr.i \in KnownIn(msgs, fr.msg)
      BY <1>1
    <3>5. FieldSet(of, h, h2, fr.ret, fr.msg, fr.typed, fr.i, v)
      BY <3>1, <3>2, <3>3, Zenon DEF FieldSet
    <3>6. FieldPassed(of, h, h2, fr.ret, fr.msg, fr.typed, fr.i)
      BY <3>4, <3>5, FieldsOnward, Zenon
    <3> QED BY <3>6, Zenon DEF FieldPassed
  <2>5. /\ Onward(fr).i = fr.i + 1 /\ Onward(fr).ret = fr.ret /\ Onward(fr).msg = fr.msg
        /\ Onward(fr).typed = fr.typed /\ Onward(fr).list = None
    BY <1>2 DEF Onward, InList, Stops, Part
  <2> QED BY <2>3, <2>4, <2>5 DEF Partial, OnlyProp
<1>3. CASE fr.list # None
  <2>1. fr.j \in 1..Len(ItemsAt(msgs, fr)) /\ fr.list \in Objs
    BY <1>3 DEF Stops, Part
  <2>2. /\ h2[fr.ret] = h[fr.ret] /\ h2[fr.list].props = h[fr.list].props
        /\ DOMAIN h2[fr.list].elems = DOMAIN h[fr.list].elems /\ h2[fr.list].elems[fr.j] = v
        /\ \A k \in DOMAIN h[fr.list].elems : k # fr.j => h2[fr.list].elems[k] = h[fr.list].elems[k]
    BY <1>3, Zenon DEF Shown
  <2> DEFINE f == FieldAt(msgs, fr)
             items == ItemsAt(msgs, fr)
  <2> HIDE DEF f, items
  <2>3. ListDone(of, h, f, items, fr.list, fr.j)
    BY <1>3, Zenon DEF Partial, f, items
  <2>4. ASSUME NEW k \in DOMAIN items, k < fr.j + 1
        PROVE  ShownAs(of, h2, f, items[k], h2[fr.list].elems[k])
    <3>1. CASE k = fr.j
      <4>1. ShownAs(of, h2, f, items[fr.j], v)
        BY <1>3 DEF HereAt, f, items
      <4> QED BY <2>2, <3>1, <4>1
    <3>2. CASE k # fr.j
      <4>1. k < fr.j
        BY <1>1, <2>1, <2>4, <3>2 DEF items
      <4>2. ShownAs(of, h, f, items[k], h[fr.list].elems[k]) /\ k \in DOMAIN h[fr.list].elems
        BY <2>3, <4>1, Zenon DEF ListDone
      <4>3. IsObject(h[fr.list].elems[k]) => InHeap(h, "elem", fr.list, k, h[fr.list].elems[k].ref)
        BY <2>1, <4>2, Zenon DEF InHeap, InContents, Refers
      <4>4. IsObject(h[fr.list].elems[k]) => h2[h[fr.list].elems[k].ref] = h[h[fr.list].elems[k].ref]
        BY <4>3, ZenonT(40) DEF Steady
      <4>5. More(of, of)
        BY DEF More
      <4>6. ShownAs(of, h2, f, items[k], h[fr.list].elems[k])
        BY <4>2, <4>4, <4>5, ShownKept, Zenon
      <4> QED BY <2>2, <3>2, <4>2, <4>6
    <3> QED BY <3>1, <3>2
  <2>5. ListDone(of, h2, f, items, fr.list, fr.j + 1)
    BY <2>2, <2>3, <2>4 DEF ListDone
  <2>6. FieldsDone(of, msgs, h2, fr.ret, fr.msg, fr.typed, fr.i)
    <3>1. FieldsDone(of, msgs, h, fr.ret, fr.msg, fr.typed, fr.i)
      BY Zenon DEF Partial
    <3>2. More(of, of)
      BY DEF More
    <3> QED BY <1>1, <2>2, <3>1, <3>2, FieldsKept, Zenon
  <2>7. NoneElse(msgs, h2, fr.ret, fr.msg, fr.i) /\ Extra(h2, fr.ret) = Extra(h, fr.ret)
    BY <2>2 DEF Partial, NoneElse, Extra
  <2>8. /\ Onward(fr).i = fr.i /\ Onward(fr).ret = fr.ret /\ Onward(fr).msg = fr.msg
        /\ Onward(fr).typed = fr.typed /\ Onward(fr).list = fr.list /\ Onward(fr).j = fr.j + 1
    BY <1>3 DEF Onward, InList, Stops, Part
  <2>9. FieldAt(msgs, Onward(fr)) = f /\ ItemsAt(msgs, Onward(fr)) = items
    BY <2>8 DEF FieldAt, ItemsAt, f, items
  <2> QED BY <2>2, <2>5, <2>6, <2>7, <2>8, <2>9 DEF Partial
<1> QED BY <1>2, <1>3

\* The innermost activation has set its place, and has gone on.
SetOn(of, h, h2, fs, fs2, n, v) ==
  /\ n \in Nat \ {0} /\ DOMAIN fs = 1..n /\ DOMAIN fs2 = 1..n
  /\ \A k \in 1..n - 1 : fs2[k] = fs[k]
  /\ fs2[n] = Onward(fs[n]) /\ Stops(fs[n]) /\ Shown(h, h2, fs[n], v)
  /\ ShownAs(of, h2, FieldAt(msgs, fs[n]), HereAt(msgs, fs[n]), v)

LEMMA TopSets ==
  ASSUME msgs \in Tables, NEW of, NEW h, NEW h2, NEW u, NEW u2, NEW fs, NEW fs2, NEW rs, NEW n,
         NEW v, Sound(h, u, fs), Consistent(of, msgs, h, u, fs, rs), WritesOnly(h, h2, u, fs, n),
         SetOn(of, h, h2, fs, fs2, n, v), Made(u) \subseteq Made(u2)
  PROVE  Consistent(of, msgs, h2, u2, fs2, rs)
<1>1. n \in DOMAIN fs
  BY DEF SetOn
<1>2. Steady(h, h2) /\ h \in Heap
  BY SteadyStep DEF Sound
<1>3. Partial(of, msgs, h, fs[n])
  BY <1>1, Zenon DEF Consistent, AllPartial
<1>4. Partial(of, msgs, h2, fs2[n])
  BY <1>2, <1>3, SetShows, Zenon DEF SetOn
<1>5. /\ fs2[n].ret = fs[n].ret /\ fs2[n].list = fs[n].list /\ fs2[n].msg = fs[n].msg
      /\ fs2[n].typed = fs[n].typed /\ fs2[n].unknown = fs[n].unknown
  <2>1. fs2[n] = Onward(fs[n]) /\ fs[n] \in Part
    BY DEF SetOn, Stops
  <2> QED BY <2>1 DEF Onward, Part
<1>6. GoneOn(fs, fs2, n)
  BY <1>5, Zenon DEF GoneOn, SetOn, Standing
<1>7. fs2[n].list \notin DOMAIN of
  BY <1>1, <1>5, Zenon DEF Consistent, StandIn
<1> QED BY <1>4, <1>6, <1>7, TopGoesOn, Zenon

\* Set sets the place of the activation.
LEMMA SetIsShown ==
  ASSUME msgs \in Tables, NEW h \in Heap, NEW h0, NEW fr, Stops(fr), NEW v \in Value,
         h0[fr.ret] = h[fr.ret], fr.list # None => h0[fr.list] = h[fr.list], fr.list # fr.ret,
         fr.list # None => fr.j \in DOMAIN h[fr.list].elems, NEW h2, h2 = Set(h, fr, v)
  PROVE  Shown(h0, h2, fr, v)
<1>1. /\ fr \in Part /\ fr.ret \in Objs /\ fr.j \in Nat /\ (fr.list # None => fr.list \in Objs)
      /\ FieldOf(fr) = FieldAt(msgs, fr) /\ FieldOf(fr).name \in Names /\ (InList(fr) <=> fr.list # None)
  BY PartFacts DEF Stops
<1>2. v \in Slot
  BY DEF Slot
<1>3. CASE fr.list # None
  <2>1. h2 = WriteElem(h, fr.list, fr.j, v)
    BY <1>1, <1>3 DEF Set, WriteElem
  <2>2. ElemWritten(h, h2, fr.list, fr.j, v)
    BY <1>1, <1>2, <1>3, <2>1, ElemWrite, Zenon
  <2> QED BY <1>1, <1>3, <2>2 DEF ElemWritten, Shown
<1>4. CASE fr.list = None
  <2>1. h2 = WriteProp(h, fr.ret, FieldAt(msgs, fr).name, v)
    BY <1>1, <1>4 DEF Set, WriteProp
  <2>2. PropWritten(h, h2, fr.ret, FieldAt(msgs, fr).name, v)
    BY <1>1, <1>2, <2>1, PropWrite
  <2> QED BY <1>1, <1>4, <2>2 DEF PropWritten, Shown, OnlyProp
<1> QED BY <1>3, <1>4

LEMMA TopStops ==
  ASSUME IInv, AtItem
  PROVE  /\ Stops(Fr) /\ HereAt(msgs, Fr) = Here(Fr) /\ FieldAt(msgs, Fr) = FieldOf(Fr)
         /\ msgs \in Tables
<1>1. /\ frames # <<>> /\ Fr \in Part /\ Fr.i <= KnownAt(msgs, Fr)
      /\ InList(Fr) => Fr.j \in 1..Len(Items(Fr))
  BY AtItemFacts
<1>2. msgs \in Tables
  BY DEF IInv
<1>3. FieldOf(Fr) = FieldAt(msgs, Fr) /\ Items(Fr) = ItemsAt(msgs, Fr) /\ (InList(Fr) <=> Fr.list # None)
  BY <1>1, <1>2, PartFacts
<1>4. Fr.list = None => FieldAt(msgs, Fr).label # "repeated" /\ ItemsAt(msgs, Fr) # <<>>
  BY <1>3 DEF AtItem
<1> QED BY <1>1, <1>2, <1>3, <1>4 DEF Stops, Here, HereAt

LEMMA IsSound ==
  ASSUME IInv, Placing
  PROVE  Sound(heap, used, frames)
<1>1. heap \in Heap /\ frames \in Seq(Part) /\ used \in 0..Len(Arena)
  BY DEF IInv, TypeOK
<1> QED BY <1>1, IsPrivate, MadeObjs DEF Sound

\* The room in the array of an activation that stops at an item.
LEMMA InArray ==
  ASSUME msgs \in Tables, NEW of, NEW h, NEW u, NEW fs, NEW rs, Consistent(of, msgs, h, u, fs, rs),
         NEW k \in DOMAIN fs, Stops(fs[k])
  PROVE  fs[k].list # None => fs[k].j \in DOMAIN h[fs[k].list].elems
<1>1. Partial(of, msgs, h, fs[k])
  BY Zenon DEF Consistent, AllPartial
<1>2. DOMAIN ItemsAt(msgs, fs[k]) = 1..Len(ItemsAt(msgs, fs[k]))
  BY AtField DEF Stops
<1> QED BY <1>1, <1>2 DEF Partial, ListDone, Stops

\* The innermost activation sets its place to v, in a heap h that may have more
\* objects than the heap.
LEMMA TopSetsHere ==
  ASSUME IInv, Placing, AtItem, NEW of, Consistent(of, msgs, heap, used, frames, replies),
         NEW h \in Heap, \A o \in Made(used) : h[o] = heap[o], NEW v \in Value,
         heap' = Set(h, Fr, v), ShownAs(of, heap', FieldOf(Fr), Here(Fr), v),
         frames' = [frames EXCEPT ![Len(frames)] = Onward(Fr)], UNCHANGED <<msgs, held, replies>>,
         Made(used) \subseteq Made(used')
  PROVE  Decoding'
<1>1. PICK n : n = Len(frames)
  OBVIOUS
<1>2. /\ Len(frames') = n /\ DOMAIN frames' = 1..n /\ DOMAIN frames = 1..n
      /\ frames'[n] = Onward(Fr) /\ frames[n] = Fr /\ n \in Nat \ {0}
      /\ \A k \in 1..n - 1 : frames'[k] = frames[k]
  BY <1>1, ItemPassed
<1>3. /\ Stops(Fr) /\ HereAt(msgs, Fr) = Here(Fr) /\ FieldAt(msgs, Fr) = FieldOf(Fr) /\ msgs \in Tables
  BY TopStops
<1>4. Sound(heap, used, frames)
  BY IsSound
<1>5. n \in DOMAIN frames
  BY <1>2
<1>6. Holds(Fr, used) /\ Fr.list # Fr.ret
  BY <1>2, <1>4, <1>5 DEF Sound, Private
<1>7. Fr.list # None => Fr.j \in DOMAIN heap[Fr.list].elems
  BY <1>2, <1>3, <1>5, InArray
<1>8. heap[Fr.ret] = h[Fr.ret] /\ (Fr.list # None => heap[Fr.list] = h[Fr.list])
  BY <1>6 DEF Holds
<1>9. Shown(heap, heap', Fr, v)
  <2>1. Fr.list # None => Fr.j \in DOMAIN h[Fr.list].elems
    BY <1>7, <1>8
  <2> QED BY <1>3, <1>6, <1>8, <2>1, SetIsShown
<1>10. WritesOnly(heap, heap', used, frames, n)
  <2>1. ASSUME NEW x \in Made(used), x \notin {Fr.ret, Fr.list}
        PROVE  heap'[x] = heap[x]
    <3>1. x \in Objs /\ x # SlotOf(Fr)
      BY <1>4, <2>1 DEF Sound, SlotOf
    <3>2. Set(h, Fr, v)[x] = h[x]
      BY <3>1, SetWrites
    <3> QED BY <3>2
  <2> QED BY <1>2, <1>5, <2>1 DEF WritesOnly
<1>11. SetOn(of, heap, heap', frames, frames', n, v)
  BY <1>2, <1>3, <1>9 DEF SetOn
<1>12. Consistent(of, msgs, heap', used', frames', replies)
  BY <1>3, <1>4, <1>10, <1>11, TopSets
<1> QED BY <1>12 DEF Decoding

LEMMA SetScalarDecodes ==
  ASSUME IInv, Placing, Decoding, AtItem, SetScalar
  PROVE  Decoding'
<1>1. PICK of : Consistent(of, msgs, heap, used, frames, replies)
  BY Zenon DEF Decoding
<1> DEFINE v == Scalar(FieldOf(Fr), Here(Fr))
<1>2. /\ FieldOf(Fr).kind \notin {"message", "bytes"} /\ heap' = Set(heap, Fr, v)
      /\ frames' = [frames EXCEPT ![Len(frames)] = Onward(Fr)]
      /\ UNCHANGED <<used, msgs, held, replies>>
  BY DEF SetScalar
<1>3. v \in Value
  BY <1>2, AtItemFacts, ScalarTyped
<1>4. ShownAs(of, heap', FieldOf(Fr), Here(Fr), v)
  BY <1>2 DEF ShownAs, Shows
<1>5. heap \in Heap
  BY DEF IInv, TypeOK
<1> HIDE DEF v
<1>6. \A o \in Made(used) : heap[o] = heap[o]
  OBVIOUS
<1>7. Made(used) \subseteq Made(used')
  BY <1>2
<1> QED BY <1>1, <1>2, <1>3, <1>4, <1>5, <1>6, <1>7, TopSetsHere

\* The next object of the arena.
LEMMA NextMade ==
  ASSUME used \in 0..Len(Arena), Room(1)
  PROVE  /\ Arena[used + 1] \in Objs /\ Arena[used + 1] \notin Made(used)
         /\ Made(used + 1) = Made(used) \cup {Arena[used + 1]} /\ Made(used) \subseteq Objs
<1>1. used \in Nat /\ used + 1 <= Len(Arena) /\ Made(used) \subseteq Objs
  BY MadeObjs DEF Room
<1>2. /\ Made(used + 1) = Made(used) \cup {Arena[used + k] : k \in 1..1}
      /\ \A k \in 1..1 : Arena[used + k] \in Objs /\ Arena[used + k] \notin Made(used)
  BY <1>1, MadeMore
<1>3. {Arena[used + k] : k \in 1..1} = {Arena[used + 1]}
  OBVIOUS
<1> QED BY <1>1, <1>2, <1>3

LEMMA SetBytesDecodes ==
  ASSUME IInv, Placing, Decoding, AtItem, SetBytes
  PROVE  Decoding'
<1>1. PICK of : Consistent(of, msgs, heap, used, frames, replies)
  BY Zenon DEF Decoding
<1> DEFINE c == Listing(BytesOf(Here(Fr)))
           h == Allocate(heap, <<c>>)
           v == [tag |-> "typed", ref |-> Arena[used + 1]]
<1>2. /\ FieldOf(Fr).kind = "bytes" /\ heap' = Set(h, Fr, v) /\ Room(1) /\ used' = used + 1
      /\ frames' = [frames EXCEPT ![Len(frames)] = Onward(Fr)] /\ UNCHANGED <<msgs, held, replies>>
  BY DEF SetBytes
<1>3. FieldOf(Fr) \in FieldDescriptor /\ Here(Fr) \in ItemsOf(FieldOf(Fr), msgs) /\ Fr \in Part
  BY AtItemFacts
<1>4. c \in Contents /\ NoRefs(c)
  <2>1. BytesOf(Here(Fr)) \in Seq(Value) /\ \A k \in DOMAIN BytesOf(Here(Fr)) : ~IsObject(BytesOf(Here(Fr))[k])
    BY <1>2, <1>3, BytesTyped
  <2>2. BytesOf(Here(Fr)) \in Seq(Slot)
    BY <2>1 DEF Slot
  <2>3. c \in Contents /\ c.elems = BytesOf(Here(Fr))
    BY <2>2, ListingTyped
  <2>4. \A n \in Names : ~IsObject(c.props[n])
    BY DEF Listing, Blank, Undefined, IsObject
  <2> QED BY <2>1, <2>3, <2>4 DEF NoRefs
<1> HIDE DEF c
<1>5. /\ h \in Heap /\ Arena[used + 1] \in Objs /\ h[Arena[used + 1]] = c
      /\ used \in 0..Len(Arena) /\ used \in Nat
      /\ \A o \in Objs : o # Arena[used + 1] => h[o] = heap[o]
  BY <1>2, <1>4, OneAllocated DEF IInv, TypeOK
<1>6. Arena[used + 1] \notin Made(used) /\ Made(used) \subseteq Made(used') /\ Made(used) \subseteq Objs
  BY <1>2, <1>5, NextMade
<1>7. v \in Value
  BY <1>5, RefTyped
<1>8. heap'[Arena[used + 1]] = c
  <2>1. Holds(Fr, used)
    <3>1. Sound(heap, used, frames) /\ Len(frames) \in DOMAIN frames /\ Fr = frames[Len(frames)]
      BY IsSound, TopMaySet
    <3> QED BY <3>1 DEF Sound, Private
  <2>2. Arena[used + 1] # SlotOf(Fr)
    BY <1>6, <2>1 DEF SlotOf, Holds, InList
  <2>3. Set(h, Fr, v)[Arena[used + 1]] = h[Arena[used + 1]]
    BY <1>5, <2>2, SetWrites
  <2> QED BY <1>2, <1>5, <2>3
<1>9. ShownAs(of, heap', FieldOf(Fr), Here(Fr), v)
  BY <1>2, <1>8 DEF ShownAs, Shows, c
<1>10. \A o \in Made(used) : h[o] = heap[o]
  BY <1>5, <1>6
<1> HIDE DEF h, v
<1> QED BY <1>1, <1>2, <1>5, <1>6, <1>7, <1>9, <1>10, TopSetsHere

\* Making an object writes to none that was there.
LEMMA MakesOnly ==
  ASSUME IInv, Room(1), NEW c \in Contents, NEW h, h = Allocate(heap, <<c>>), NEW k
  PROVE  /\ WritesOnly(heap, h, used, frames, k) /\ h[Arena[used + 1]] = c
         /\ Arena[used + 1] \in Objs /\ Arena[used + 1] \notin Made(used)
         /\ Made(used + 1) = Made(used) \cup {Arena[used + 1]} /\ Made(used) \subseteq Objs
         /\ \A o \in Made(used) : h[o] = heap[o]
<1>1. used \in 0..Len(Arena) /\ heap \in Heap
  BY DEF IInv, TypeOK
<1>2. /\ Arena[used + 1] \in Objs /\ Arena[used + 1] \notin Made(used)
      /\ Made(used + 1) = Made(used) \cup {Arena[used + 1]} /\ Made(used) \subseteq Objs
  BY <1>1, NextMade
<1>3. /\ h[Arena[used + 1]] = c
      /\ \A o \in Objs : o # Arena[used + 1] => h[o] = heap[o]
  BY <1>1, OneAllocated
<1>4. \A o \in Made(used) : h[o] = heap[o]
  BY <1>2, <1>3
<1> QED BY <1>2, <1>3, <1>4 DEF WritesOnly

LEMMA EnterDecodes ==
  ASSUME IInv, Placing, Decoding, AtItem, EnterMessage
  PROVE  Decoding'
<1>1. PICK of : Consistent(of, msgs, heap, used, frames, replies)
  BY Zenon DEF Decoding
<1>2. PICK n, fr : n = Len(frames) /\ fr = NewPart(Here(Fr)[1], Arena[used + 1], TRUE, FALSE)
  OBVIOUS
<1>3. /\ DOMAIN frames' = 1..n + 1 /\ frames'[n + 1] = fr /\ fr \in Part
      /\ fr.ret = Arena[used + 1] /\ fr.list = None /\ fr.i = 1
      /\ DOMAIN frames = 1..n /\ n \in Nat \ {0} /\ \A k \in 1..n : frames'[k] = frames[k]
  BY <1>2, EnterFacts
<1>4. /\ HereAt(msgs, Fr) = Here(Fr) /\ msgs \in Tables /\ Fr = frames[n]
  BY <1>2, TopStops, AtItemFacts, FrFacts
<1>5. /\ Standing(fr) = Inner(HereAt(msgs, frames[n])[1]) /\ fr.msg \in DOMAIN msgs
      /\ HasItem(msgs, frames[n])
  <2>1. HereAt(msgs, frames[n]) = Here(Fr)
    BY <1>4
  <2>2. fr.msg = Here(Fr)[1] /\ fr.typed = TRUE /\ fr.unknown = FALSE
    BY <1>2 DEF NewPart
  <2>3. fr.msg \in DOMAIN msgs
    BY <1>3 DEF Part
  <2>4. Stops(frames[n])
    BY <1>4, TopStops
  <2>5. HasItem(msgs, frames[n])
    BY <2>4 DEF Stops, HasItem
  <2> QED BY <2>1, <2>2, <2>3, <2>5 DEF Standing, Inner
<1>6. Begun(frames, frames', n, fr)
  BY <1>3, <1>5 DEF Begun
<1>7. Room(1) /\ heap' = Allocate(heap, <<Blank>>) /\ used' = used + 1 /\ UNCHANGED <<msgs, replies>>
  BY DEF EnterMessage
<1>8. /\ WritesOnly(heap, heap', used, frames, 0) /\ heap'[fr.ret] = Blank
      /\ fr.ret \in Objs /\ fr.ret \notin Made(used) /\ Made(used') = Made(used) \cup {fr.ret}
  BY <1>3, <1>7, BlankTyped, MakesOnly
<1>9. Asking(frames', replies) /\ Answering(of, msgs, replies)
  <2>1. frames # <<>> /\ 1 \in 1..n
    BY <1>3
  <2>2. frames'[1] = frames[1]
    BY <1>3, <2>1
  <2> QED BY <1>1, <2>1, <2>2 DEF Consistent, Asking
<1>10. Consistent(Taken(of, fr.ret, Standing(fr)), msgs, heap', used', frames', replies)
  BY <1>1, <1>4, <1>6, <1>8, <1>9, IsSound, TopBegins
<1> QED BY <1>7, <1>10 DEF Decoding

LEMMA ParseSingularDecodes ==
  ASSUME IInv, Placing, Decoding, ParseSingular \/ ParseElement
  PROVE  Decoding'
<1>1. AtItem /\ (SetScalar \/ SetBytes \/ EnterMessage)
  BY SingularAtItem, ElementAtItem
<1> QED BY <1>1, SetScalarDecodes, SetBytesDecodes, EnterDecodes

\* A field that is not there.
LEMMA SkipDecodes ==
  ASSUME IInv, Placing, Decoding, SkipAbsent
  PROVE  Decoding'
<1>1. PICK of : Consistent(of, msgs, heap, used, frames, replies)
  BY Zenon DEF Decoding
<1>2. PICK n : n = Len(frames)
  OBVIOUS
<1>3. /\ DOMAIN frames' = 1..n /\ DOMAIN frames = 1..n
      /\ frames'[n] = [Fr EXCEPT !.i = Fr.i + 1] /\ frames[n] = Fr /\ n \in Nat \ {0}
      /\ \A k \in 1..n - 1 : frames'[k] = frames[k]
  BY <1>2, SkipKeeps
<1>4. /\ frames # <<>> /\ Fr.i <= KnownAt(msgs, Fr) /\ FieldOf(Fr).label = "optional" /\ Items(Fr) = <<>>
      /\ UNCHANGED <<msgs, heap, used, replies>>
  BY DEF SkipAbsent, InParse, KnownAt
<1>5. Fr \in Part /\ Fits(msgs, Fr) /\ msgs \in Tables /\ heap \in Heap
  BY <1>4, FrFacts DEF IInv, TypeOK
<1>6. FieldOf(Fr) = FieldAt(msgs, Fr) /\ Items(Fr) = ItemsAt(msgs, Fr)
  BY <1>5, PartFacts
<1>7. Fr.list = None
  BY <1>4, <1>5, <1>6 DEF Fits
<1>8. PICK fr : fr = frames'[n]
  OBVIOUS
<1>9. /\ fr.ret = Fr.ret /\ fr.msg = Fr.msg /\ fr.typed = Fr.typed /\ fr.unknown = Fr.unknown
      /\ fr.list = None /\ fr.i = Fr.i + 1
  BY <1>3, <1>5, <1>7, <1>8 DEF Part
<1>10. n \in DOMAIN frames
  BY <1>3
<1>11. Partial(of, msgs, heap, Fr)
  BY <1>1, <1>3, <1>10 DEF Consistent, AllPartial
<1>12. Partial(of, msgs, heap, fr)
  <2>1. /\ Fr.msg \in DOMAIN msgs /\ Fr.ret \in Objs /\ Fr.i \in KnownIn(msgs, Fr.msg)
        /\ FieldIn(msgs, Fr.msg, Fr.i) = FieldAt(msgs, Fr)
        /\ msgs[Fr.msg].vals[Fr.i] = ItemsAt(msgs, Fr)
    BY <1>4, <1>5, AtField
  <2>2. PICK m, i, o, v : m = Fr.msg /\ i = Fr.i /\ o = Fr.ret /\ v = heap[o].props[FieldIn(msgs, m, i).name]
    OBVIOUS
  <2>3. /\ FieldsDone(of, msgs, heap, o, m, Fr.typed, i) /\ NoneElse(msgs, heap, o, m, i)
    BY <1>11, <2>2 DEF Partial
  <2>4. /\ KnownIn(msgs, m) \subseteq Nat /\ i \in KnownIn(msgs, m)
        /\ \A k \in KnownIn(msgs, m) :
              /\ FieldIn(msgs, m, k).name \in Names \ {"$unknownFields"}
              /\ \A j \in KnownIn(msgs, m) :
                   FieldIn(msgs, m, j).name = FieldIn(msgs, m, k).name => j = k
    BY <1>5, <2>1, <2>2, FieldNames
  <2>5. v = Undefined
    <3>1. \A k \in KnownIn(msgs, m) : k < i => FieldIn(msgs, m, i).name # FieldIn(msgs, m, k).name
      BY <2>4
    <3> QED BY <2>2, <2>3, <2>4, <3>1 DEF NoneElse
  <2>6. FieldDone(of, heap, FieldIn(msgs, m, i), msgs[m].vals[i], Fr.typed, v)
    BY <1>4, <1>6, <2>1, <2>2, <2>5 DEF FieldDone
  <2>7. OnlyProp(heap, heap, o, FieldIn(msgs, m, i).name, v)
    BY <2>2 DEF OnlyProp
  <2>8. Steady(heap, heap)
    BY DEF Steady
  <2>9. FieldSet(of, heap, heap, o, m, Fr.typed, i, v)
    BY <2>3, <2>6, <2>7, Zenon DEF FieldSet
  <2>10. FieldPassed(of, heap, heap, o, m, Fr.typed, i)
    BY <1>5, <2>1, <2>2, <2>8, <2>9, FieldsOnward
  <2> QED BY <1>9, <1>11, <2>2, <2>10 DEF FieldPassed, Partial
<1>13. GoneOn(frames, frames', n)
  BY <1>3, <1>8, <1>9 DEF GoneOn, Standing
<1>14. fr.list \notin DOMAIN of
  BY <1>1, <1>3, <1>7, <1>9, <1>10 DEF Consistent, StandIn
<1>15. WritesOnly(heap, heap', used, frames, n) /\ Made(used) \subseteq Made(used')
  BY <1>4 DEF WritesOnly
<1>16. Consistent(of, msgs, heap', used', frames', replies)
  <2>1. Partial(of, msgs, heap', frames'[n]) /\ frames'[n].list \notin DOMAIN of
    BY <1>4, <1>8, <1>12, <1>14
  <2> QED BY <1>1, <1>5, <1>13, <1>15, <2>1, IsSound, TopGoesOn
<1> QED BY <1>4, <1>16 DEF Decoding

\* The array of a repeated field begins, and ends.
LEMMA BeginListDecodes ==
  ASSUME IInv, Placing, Decoding, BeginList
  PROVE  Decoding'
<1>1. PICK of : Consistent(of, msgs, heap, used, frames, replies)
  BY Zenon DEF Decoding
<1>2. PICK n, a, c : /\ n = Len(frames) /\ a = Arena[used + 1]
                     /\ c = Listing([k \in DOMAIN Items(Fr) |-> Undefined])
  OBVIOUS
<1>3. /\ Room(1) /\ a \in Objs /\ frames # <<>>
      /\ DOMAIN frames' = 1..n /\ DOMAIN frames = 1..n
      /\ frames'[n] = [Fr EXCEPT !.list = a, !.j = 1] /\ frames[n] = Fr /\ n \in Nat \ {0}
      /\ \A k \in 1..n - 1 : frames'[k] = frames[k]
      /\ Fr \in Part /\ Fr.i <= KnownAt(msgs, Fr)
      /\ [k \in DOMAIN Items(Fr) |-> Undefined] \in Seq(Slot)
  BY <1>2, BeginListFacts, Zenon
<1>4. /\ c \in Contents /\ c.props = Blank.props /\ DOMAIN c.elems = DOMAIN Items(Fr)
  <2>1. c.elems = [k \in DOMAIN Items(Fr) |-> Undefined] /\ c \in Contents
    BY <1>2, <1>3, ListingTyped
  <2>2. c.props = Blank.props
    BY <1>2 DEF Listing, Blank
  <2> QED BY <2>1, <2>2
<1>5. /\ heap' = Allocate(heap, <<c>>) /\ used' = used + 1 /\ UNCHANGED <<msgs, replies>>
  BY <1>2 DEF BeginList
<1>6. /\ WritesOnly(heap, heap', used, frames, n) /\ heap'[a] = c
      /\ a \notin Made(used) /\ Made(used) \subseteq Made(used')
      /\ \A o \in Made(used) : heap'[o] = heap[o]
  BY <1>2, <1>3, <1>4, <1>5, MakesOnly
<1>7. PICK fr : fr = frames'[n]
  OBVIOUS
<1>8. /\ fr.ret = Fr.ret /\ fr.msg = Fr.msg /\ fr.typed = Fr.typed /\ fr.unknown = Fr.unknown
      /\ fr.list = a /\ fr.i = Fr.i /\ fr.j = 1
  BY <1>3, <1>7 DEF Part
<1>9. n \in DOMAIN frames /\ msgs \in Tables /\ heap \in Heap /\ Sound(heap, used, frames)
  BY <1>3, IsSound DEF IInv, TypeOK
<1>10. Partial(of, msgs, heap, Fr)
  BY <1>1, <1>3, <1>9 DEF Consistent, AllPartial
<1>11. Steady(heap, heap') /\ heap'[Fr.ret] = heap[Fr.ret]
  <2>1. Steady(heap, heap')
    BY <1>6, <1>9, SteadyStep DEF Sound
  <2>2. Fr.ret \in Made(used)
    BY <1>3, <1>9 DEF Sound, Private, Holds
  <2> QED BY <1>6, <2>1, <2>2
<1>12. Partial(of, msgs, heap', fr)
  <2>1. FieldsDone(of, msgs, heap', Fr.ret, Fr.msg, Fr.typed, Fr.i)
    <3>1. Fr.msg \in DOMAIN msgs /\ Fr.ret \in Objs
      BY <1>3, <1>9, AtField
    <3>2. FieldsDone(of, msgs, heap, Fr.ret, Fr.msg, Fr.typed, Fr.i)
      BY <1>10 DEF Partial
    <3>3. More(of, of)
      BY DEF More
    <3> QED BY <1>9, <1>11, <3>1, <3>2, <3>3, FieldsKept
  <2>2. NoneElse(msgs, heap', Fr.ret, Fr.msg, Fr.i)
    BY <1>10, <1>11 DEF Partial, NoneElse
  <2>3. ListDone(of, heap', FieldAt(msgs, fr), ItemsAt(msgs, fr), fr.list, fr.j)
    <3>1. Items(Fr) = ItemsAt(msgs, Fr) /\ ItemsAt(msgs, fr) = ItemsAt(msgs, Fr)
      BY <1>3, <1>8, <1>9, PartFacts DEF ItemsAt
    <3>2. DOMAIN ItemsAt(msgs, fr) = 1..Len(ItemsAt(msgs, fr)) /\ Len(ItemsAt(msgs, fr)) \in Nat
      BY <1>3, <1>9, <3>1, AtField
    <3>3. \A k \in DOMAIN ItemsAt(msgs, fr) : ~(k < fr.j)
      BY <1>8, <3>2
    <3>4. heap'[fr.list] = c
      BY <1>6, <1>8
    <3> QED BY <1>4, <3>1, <3>3, <3>4 DEF ListDone
  <2>4. heap'[Fr.ret].elems = <<>> /\ Extra(heap', Fr.ret) = Undefined
    BY <1>10, <1>11 DEF Partial, Extra
  <2> QED BY <1>8, <2>1, <2>2, <2>3, <2>4 DEF Partial
<1>13. GoneOn(frames, frames', n)
  BY <1>3, <1>7, <1>8 DEF GoneOn, Standing
<1>14. fr.list \notin DOMAIN of
  BY <1>1, <1>6, <1>8 DEF Consistent, Stands
<1>15. Consistent(of, msgs, heap', used', frames', replies)
  BY <1>1, <1>6, <1>7, <1>9, <1>12, <1>13, <1>14, TopGoesOn
<1> QED BY <1>5, <1>15 DEF Decoding

LEMMA EndListDecodes ==
  ASSUME IInv, Placing, Decoding, EndList
  PROVE  Decoding'
<1>1. PICK of : Consistent(of, msgs, heap, used, frames, replies)
  BY Zenon DEF Decoding
<1>2. PICK n, v : n = Len(frames) /\ v = [tag |-> ListTag(Fr), ref |-> Fr.list]
  OBVIOUS
<1>3. /\ heap \in Heap /\ used' = used /\ frames # <<>>
      /\ heap' = [heap EXCEPT ![Fr.ret].props[FieldOf(Fr).name] = v]
      /\ Fr.ret \in Objs /\ FieldOf(Fr).name \in Names /\ Fr.list \in Objs /\ v \in Slot
      /\ DOMAIN frames' = 1..n /\ DOMAIN frames = 1..n
      /\ frames'[n].list = None /\ frames'[n].i = Fr.i + 1
      /\ frames'[n].ret = Fr.ret /\ frames'[n].msg = Fr.msg
      /\ frames[n] = Fr /\ n \in Nat \ {0} /\ Fr \in Part /\ Fr.i <= KnownAt(msgs, Fr)
      /\ \A k \in 1..n - 1 : frames'[k] = frames[k]
  BY <1>2, EndListFacts
<1>4. UNCHANGED <<msgs, replies>> /\ InList(Fr) /\ Fr.j > Len(Items(Fr))
  BY DEF EndList
<1>5. PICK fr : fr = frames'[n]
  OBVIOUS
<1>6. fr.typed = Fr.typed /\ fr.unknown = Fr.unknown
  <2>1. fr = Onward([Fr EXCEPT !.list = None])
    BY <1>2, <1>3, <1>5 DEF EndList
  <2> QED BY <1>3, <2>1 DEF Onward, Part, InList
<1>7. n \in DOMAIN frames /\ msgs \in Tables /\ Sound(heap, used, frames) /\ Fits(msgs, Fr)
  BY <1>3, IsSound, FrFacts DEF IInv
<1>8. Partial(of, msgs, heap, Fr)
  BY <1>1, <1>3, <1>7 DEF Consistent, AllPartial
<1>9. PropWritten(heap, heap', Fr.ret, FieldOf(Fr).name, v)
  BY <1>3, PropWrite DEF WriteProp
<1>10. WritesOnly(heap, heap', used, frames, n)
  BY <1>3, <1>7, <1>9 DEF WritesOnly, PropWritten, Sound
<1>11. Steady(heap, heap')
  BY <1>7, <1>10, SteadyStep DEF Sound
<1>12. /\ Fr.msg \in DOMAIN msgs /\ Fr.i \in KnownIn(msgs, Fr.msg)
       /\ FieldIn(msgs, Fr.msg, Fr.i) = FieldAt(msgs, Fr)
       /\ msgs[Fr.msg].vals[Fr.i] = ItemsAt(msgs, Fr) /\ Len(ItemsAt(msgs, Fr)) \in Nat
       /\ DOMAIN ItemsAt(msgs, Fr) = 1..Len(ItemsAt(msgs, Fr))
  BY <1>3, <1>7, AtField
<1>13. FieldOf(Fr) = FieldAt(msgs, Fr) /\ Items(Fr) = ItemsAt(msgs, Fr) /\ Fr.list # None
  BY <1>3, <1>4, <1>7, PartFacts
<1>14. FieldDone(of, heap', FieldAt(msgs, Fr), ItemsAt(msgs, Fr), Fr.typed, v)
  <2> DEFINE f == FieldAt(msgs, Fr)
             items == ItemsAt(msgs, Fr)
  <2>1. f.label = "repeated" /\ Fr.j = Len(items) + 1
    <3>1. Fr.j \in 1..Len(items) + 1 /\ f.label = "repeated"
      BY <1>7, <1>13 DEF Fits
    <3> QED BY <1>4, <1>12, <1>13, <3>1
  <2>2. ListDone(of, heap, f, items, Fr.list, Len(items) + 1)
    BY <1>8, <1>13, <2>1 DEF Partial
  <2>3. heap'[Fr.list] = heap[Fr.list]
    BY <1>3, <1>7, <1>9 DEF PropWritten, Sound, Private
  <2> HIDE DEF f, items
  <2>4. ListDone(of, heap', f, items, Fr.list, Len(items) + 1)
    <3>1. More(of, of)
      BY DEF More
    <3>2. Fr.list \in Objs
      BY <1>3
    <3> QED BY <1>11, <2>2, <2>3, <3>1, <3>2, ListKept, Zenon
  <2>5. v.ref = Fr.list /\ v.tag = IF Fr.typed /\ f.kind = "number" /\ items # <<>> THEN "typed" ELSE "array"
    BY <1>2, <1>13 DEF ListTag, f, items
  <2>6. FieldDone(of, heap', f, items, Fr.typed, v)
    BY <2>1, <2>4, <2>5 DEF FieldDone
  <2> QED BY <2>6 DEF f, items
<1>15. FieldPassed(of, heap, heap', Fr.ret, Fr.msg, Fr.typed, Fr.i)
  <2>1. FieldsDone(of, msgs, heap, Fr.ret, Fr.msg, Fr.typed, Fr.i) /\ NoneElse(msgs, heap, Fr.ret, Fr.msg, Fr.i)
    BY <1>8 DEF Partial
  <2>2. OnlyProp(heap, heap', Fr.ret, FieldIn(msgs, Fr.msg, Fr.i).name, v)
    BY <1>9, <1>12, <1>13 DEF OnlyProp, PropWritten
  <2>3. FieldDone(of, heap', FieldIn(msgs, Fr.msg, Fr.i), msgs[Fr.msg].vals[Fr.i], Fr.typed, v)
    BY <1>12, <1>14
  <2>4. FieldSet(of, heap, heap', Fr.ret, Fr.msg, Fr.typed, Fr.i, v)
    BY <2>1, <2>2, <2>3, Zenon DEF FieldSet
  <2> QED BY <1>3, <1>7, <1>11, <1>12, <2>4, FieldsOnward
<1>16. Partial(of, msgs, heap', fr)
  <2>1. heap'[Fr.ret].elems = <<>>
    BY <1>8, <1>9 DEF Partial, PropWritten
  <2> QED BY <1>3, <1>5, <1>6, <1>8, <1>15, <2>1 DEF FieldPassed, Partial
<1>17. GoneOn(frames, frames', n)
  BY <1>3, <1>5, <1>6 DEF GoneOn, Standing
<1>18. fr.list \notin DOMAIN of
  BY <1>1, <1>3, <1>5, <1>7, NoneOf DEF Consistent, Sound
<1>19. Consistent(of, msgs, heap', used', frames', replies)
  BY <1>1, <1>3, <1>5, <1>7, <1>10, <1>16, <1>17, <1>18, TopGoesOn
<1> QED BY <1>4, <1>19 DEF Decoding

\* A complete object is handed over: the heap h has it complete.
LEMMA DeliverDecodes ==
  ASSUME IInv, frames # <<>>, NEW of, Consistent(of, msgs, heap, used, frames, replies),
         Sound(heap, used, frames), NEW h, NEW u, Sound(h, u, frames), Made(used) \subseteq Made(u),
         WritesOnly(heap, h, used, frames, Len(frames)), Complete(of, msgs, h, Fr.ret, Standing(Fr)),
         Deliver(h, Fr), msgs' = msgs, used' = u
  PROVE  Decoding'
<1>1. PICK n, rest, v : /\ n = Len(frames) /\ rest = Front(frames)
                        /\ v = [tag |-> "object", ref |-> Fr.ret]
  OBVIOUS
<1>2. /\ n \in Nat \ {0} /\ DOMAIN frames = 1..n /\ n \in DOMAIN frames /\ Fr = frames[n]
      /\ msgs \in Tables /\ Fr \in Part
  BY <1>1, FrFacts DEF IInv
<1>3. Fr.ret \in DOMAIN of /\ of[Fr.ret] = Standing(Fr) /\ Fr.ret \in Objs
  BY <1>2 DEF Consistent, StandIn, Part
<1>4. rest \in Seq(Part) /\ Len(rest) = n - 1 /\ DOMAIN rest = 1..n - 1 /\ \A k \in 1..n - 1 : rest[k] = frames[k]
  BY <1>1, <1>2, FrontOfStack DEF Sound
<1>5. Consistent(of, msgs, h, u, rest, replies)
  BY <1>1, <1>2, <1>4, TopEnds
<1>6. v \in Value /\ v.tag = "object" /\ v.ref = Fr.ret
  BY <1>1, <1>3, RefTyped
<1>7. CASE rest = <<>>
  <2>1. /\ heap' = h /\ frames' = <<>> /\ held' = held - 1
        /\ replies' = [replies EXCEPT ![Len(replies)].value = v]
    BY <1>1, <1>7 DEF Deliver
  <2>2. PICK m : m = Len(replies)
    OBVIOUS
  <2>3. /\ m \in Nat \ {0} /\ DOMAIN replies = 1..m /\ DOMAIN replies' = 1..m
        /\ replies'[m].value = v /\ \A k \in 1..m - 1 : replies'[k] = replies[k]
    BY <1>6, <2>1, <2>2, AnswerFilled
  <2>4. replies'[m].exc = replies[m].exc /\ replies'[m].call = replies[m].call
    <3>1. replies[m] \in [call : Call, value : Value, exc : BOOLEAN]
      <4>1. m \in 1..Len(replies)
        BY <2>2, <2>3
      <4> QED BY <4>1, ElementOfSeq DEF IInv, TypeOK
    <3>2. replies'[m] = [replies[m] EXCEPT !.value = v]
      BY <2>1, <2>2, <2>3
    <3> QED BY <3>1, <3>2
  <2>5. n = 1
    BY <1>2, <1>4, <1>7
  <2>6. ~replies[m].exc /\ Standing(Fr) = Asked(replies[m].call)
    BY <1>2, <2>2, <2>5 DEF Consistent, Asking
  <2>7. AnswerRight(of, msgs, replies'[m])
    BY <1>3, <1>6, <2>3, <2>4, <2>6 DEF AnswerRight
  <2>8. Answering(of, msgs, replies')
    <3>1. ASSUME NEW r \in 1..m  PROVE AnswerRight(of, msgs, replies'[r])
      <4>1. CASE r = m
        BY <2>7, <4>1
      <4>2. CASE r # m
        <5>1. r \in 1..m - 1 /\ r \in DOMAIN replies
          BY <2>3, <4>2
        <5>2. replies'[r] = replies[r] /\ AnswerRight(of, msgs, replies[r])
          BY <2>3, <5>1 DEF Consistent, Answering
        <5> QED BY <5>2
      <4> QED BY <4>1, <4>2
    <3> QED BY <2>3, <3>1, Zenon DEF Answering
  <2>9. Consistent(of, msgs, heap', u, frames', replies')
    BY <1>5, <1>7, <2>1, <2>8 DEF Consistent, Asking
  <2> QED BY <2>9 DEF Decoding
<1>8. CASE rest # <<>>
  <2>1. /\ heap' = Set(h, Last(rest), v) /\ frames' = WithTop(rest, Onward(Last(rest)))
        /\ UNCHANGED <<msgs, held, replies>>
    BY <1>1, <1>8 DEF Deliver, WithTop
  <2>2. PICK m : m = Len(rest)
    OBVIOUS
  <2>3. /\ m \in Nat \ {0} /\ m = n - 1 /\ Len(frames') = m /\ DOMAIN frames' = 1..m
        /\ frames'[m] = Onward(frames[m]) /\ frames[m] = Last(rest)
        /\ frames[m] \in Part /\ Fits(msgs, frames[m]) /\ Waits(msgs, frames[m])
        /\ \A k \in 1..m - 1 : frames'[k] = frames[k]
    BY <1>1, <1>8, <2>1, <2>2, Returned
  <2>4. PICK fr : fr = rest[m]
    OBVIOUS
  <2>5. /\ m \in DOMAIN rest /\ m \in DOMAIN frames /\ m + 1 = n /\ fr = frames[m] /\ fr = Last(rest)
        /\ \A k \in 1..m - 1 : k \in 1..n - 1
    BY <1>2, <1>4, <2>3, <2>4
  <2>6. HasItem(msgs, fr) /\ Standing(Fr) = Inner(HereAt(msgs, fr)[1])
    <3>1. HasItem(msgs, frames[m]) /\ Standing(frames[m + 1]) = Inner(HereAt(msgs, frames[m])[1])
      BY <1>2, <2>5 DEF Consistent, Chained
    <3> QED BY <1>2, <2>5, <3>1
  <2>7. Stops(fr) /\ FieldAt(msgs, fr).kind = "message"
    <3>1. Len(ItemsAt(msgs, fr)) \in Nat
      BY <1>2, <2>3, <2>5, AtField DEF Waits
    <3> QED BY <2>3, <2>5, <2>6, <3>1 DEF Waits, Fits, Stops, HasItem
  <2>8. Sound(h, u, rest)
    <3>1. ASSUME NEW k \in DOMAIN rest
          PROVE  k \in DOMAIN frames /\ rest[k] = frames[k]
      BY <1>2, <1>4
    <3>2. Private(h, u, rest)
      BY <3>1 DEF Sound, Private
    <3> QED BY <1>4, <3>2 DEF Sound
  <2>9. fr.list # None => fr.j \in DOMAIN h[fr.list].elems
    BY <1>2, <1>5, <2>4, <2>5, <2>7, InArray
  <2>10. Shown(h, heap', fr, v)
    <3>1. fr.list # fr.ret /\ h \in Heap
      BY <2>4, <2>5, <2>8 DEF Sound, Private
    <3> QED BY <1>2, <1>6, <2>1, <2>5, <2>7, <2>9, <3>1, SetIsShown
  <2>11. WritesOnly(h, heap', u, rest, m)
    <3>1. ASSUME NEW x \in Made(u), x \notin {fr.ret, fr.list}
          PROVE  heap'[x] = h[x]
      <4>1. x \in Objs /\ x # SlotOf(fr) /\ h \in Heap
        BY <2>8, <3>1 DEF Sound, SlotOf
      <4>2. Set(h, fr, v)[x] = h[x]
        BY <4>1, SetWrites
      <4> QED BY <2>1, <2>5, <4>2
    <3> QED BY <2>4, <2>5, <3>1 DEF WritesOnly
  <2>12. ShownAs(of, heap', FieldAt(msgs, fr), HereAt(msgs, fr), v)
    BY <1>3, <1>6, <2>6, <2>7 DEF ShownAs, Shows
  <2>13. SetOn(of, h, heap', rest, frames', m, v)
    BY <1>4, <2>3, <2>4, <2>5, <2>7, <2>10, <2>12 DEF SetOn
  <2>14. Consistent(of, msgs, heap', u, frames', replies)
    BY <1>2, <1>5, <2>8, <2>11, <2>13, TopSets
  <2> QED BY <2>1, <2>14 DEF Decoding
<1> QED BY <1>7, <1>8

\* What an activation that has come to the end of its fields has set.
LEMMA EndShown ==
  ASSUME IInv, frames # <<>>, Fr.i > Known[msgs[Fr.msg].type],
         NEW of, Consistent(of, msgs, heap, used, frames, replies)
  PROVE  /\ Fr.i = Known[msgs[Fr.msg].type] + 1 /\ Partial(of, msgs, heap, Fr)
         /\ Fr.msg \in DOMAIN msgs /\ Fr \in Part /\ msgs \in Tables
         /\ Len(frames) \in DOMAIN frames /\ Fr = frames[Len(frames)]
<1>1. /\ Len(frames) \in DOMAIN frames /\ Fr = frames[Len(frames)] /\ Fr \in Part /\ Fits(msgs, Fr)
      /\ msgs \in Tables
  BY FrFacts DEF IInv
<1>2. Partial(of, msgs, heap, Fr)
  BY <1>1 DEF Consistent, AllPartial
<1>3. Fr.msg \in DOMAIN msgs /\ Fr.i \in Nat
  BY <1>1 DEF Part
<1>4. Known[msgs[Fr.msg].type] \in Nat
  BY <1>1, <1>3, FieldNames
<1> QED BY <1>1, <1>2, <1>3, <1>4 DEF Fits, KnownAt

LEMMA EndPartDecodes ==
  ASSUME IInv, Placing, Decoding, EndPart
  PROVE  Decoding'
<1>1. PICK of : Consistent(of, msgs, heap, used, frames, replies)
  BY Zenon DEF Decoding
<1>2. /\ frames # <<>> /\ Fr.i > Known[msgs[Fr.msg].type] /\ ~Fr.unknown
      /\ Deliver(heap, Fr) /\ msgs' = msgs /\ used' = used
  BY DEF EndPart
<1>3. /\ Fr.i = Known[msgs[Fr.msg].type] + 1 /\ Partial(of, msgs, heap, Fr)
  BY <1>1, <1>2, EndShown
<1>4. Complete(of, msgs, heap, Fr.ret, Standing(Fr))
  <2>1. PICK s : s = Standing(Fr)
    OBVIOUS
  <2>2. s.msg = Fr.msg /\ s.typed = Fr.typed /\ s.unknown = Fr.unknown
    BY <2>1 DEF Standing
  <2>3. Complete(of, msgs, heap, Fr.ret, s)
    BY <1>2, <1>3, <2>2 DEF Partial, Complete
  <2> QED BY <2>1, <2>3
<1>5. Sound(heap, used, frames)
  BY IsSound
<1>6. WritesOnly(heap, heap, used, frames, Len(frames))
  BY DEF WritesOnly
<1> QED BY <1>1, <1>2, <1>4, <1>5, <1>6, DeliverDecodes

\* The unknown fields are as they should be, in the objects made for them.
LEMMA UnknownMade ==
  ASSUME msgs \in Tables, heap \in Heap, used \in 0..Len(Arena), NEW m \in DOMAIN msgs,
         NEW n, n = Len(Beyond(m)), Room(n + 1), NEW h, h = Allocate(heap, UnknownFields(m)),
         NEW list, list = Arena[used + (n + 1)], NEW h2,
         \A k \in 1..n + 1 : h2[Arena[used + k]] = h[Arena[used + k]]
  PROVE  UnknownShown(h2, msgs[m].type, BeyondIn(msgs, m), [tag |-> "array", ref |-> list])
<1>1. PICK c, seq, refs, v :
        /\ c = UnknownFields(m) /\ seq = Beyond(m) /\ v = [tag |-> "array", ref |-> list]
        /\ refs = [k \in 1..n |-> [tag |-> "object", ref |-> Arena[used + k]]]
  OBVIOUS
<1>2. /\ n \in Nat /\ c \in Seq(Contents) /\ Len(c) = n + 1 /\ c[n + 1] = Listing(refs)
      /\ refs \in Seq(Slot)
  BY <1>1, UnknownFieldsTyped
<1>3. DOMAIN seq = 1..n
  BY <1>1, BeyondTyped
<1>4. \A k \in 1..n + 1 : h[Arena[used + k]] = c[k]
  <2>1. Room(Len(c)) /\ h = Allocate(heap, c) /\ DOMAIN c = 1..n + 1
    BY <1>1, <1>2
  <2>2. \A k \in DOMAIN c : Allocate(heap, c)[Arena[used + k]] = c[k]
    BY <1>2, <2>1, Allocated, Zenon
  <2> QED BY <2>1, <2>2, Zenon
<1>5. \A k \in 1..n : c[k] = UnknownEntry(msgs[m].type, seq[k])
  <2>1. PICK es : es = [k \in 1..n |-> UnknownEntry(msgs[m].type, seq[k])]
    OBVIOUS
  <2>2. PICK a : a = Listing(refs)
    OBVIOUS
  <2>3. c = Append(es, a)
    BY <1>1, <1>3, <2>1, <2>2 DEF UnknownFields
  <2>4. Len(es) = n /\ es \in Seq({es[k] : k \in 1..n})
    BY <1>2, <2>1
  <2>5. \A k \in 1..n : c[k] = es[k]
    BY <1>2, <2>3, <2>4
  <2> QED BY <2>1, <2>5
<1>6. h2[list] = Listing(refs)
  BY <1>2, <1>4
<1>7. Listing(refs).elems = refs /\ Listing(refs).props = Blank.props
  BY <1>2, ListingTyped DEF Listing, Blank
<1>8. DOMAIN refs = 1..n /\ \A k \in 1..n : refs[k].tag = "object" /\ refs[k].ref = Arena[used + k]
  BY <1>1
<1>9. \A k \in 1..n : h2[Arena[used + k]] = UnknownEntry(msgs[m].type, seq[k])
  <2>1. \A k \in 1..n : k \in 1..n + 1
    BY <1>2
  <2> QED BY <1>4, <1>5, <2>1
<1>10. v.tag = "array" /\ v.ref = list
  BY <1>1
<1>11. UnknownShown(h2, msgs[m].type, seq, v)
  <2>1. h2[v.ref].elems = refs /\ h2[v.ref].props = Blank.props
    BY <1>6, <1>7, <1>10, Zenon
  <2>2. ASSUME NEW k \in DOMAIN seq
        PROVE  h2[v.ref].elems[k].tag = "object" /\ h2[h2[v.ref].elems[k].ref] = UnknownEntry(msgs[m].type, seq[k])
    BY <1>3, <1>8, <1>9, <2>1, Zenon
  <2> QED BY <1>3, <1>8, <1>10, <2>1, <2>2, Zenon DEF UnknownShown
<1>12. BeyondIn(msgs, m) = seq
  BY <1>1 DEF Beyond, BeyondIn
<1> QED BY <1>1, <1>11, <1>12

LEMMA AllFresh ==
  ASSUME used \in 0..Len(Arena), NEW n \in Nat, used + (n + 1) \in 0..Len(Arena)
  PROVE  /\ \A k \in 1..n + 1 : /\ Arena[used + k] \in Objs /\ Arena[used + k] \notin Made(used)
                                /\ Arena[used + k] \in Made(used + (n + 1))
         /\ Made(used) \subseteq Made(used + (n + 1)) /\ Made(used + (n + 1)) \subseteq Objs
<1>1. PICK m : m = n + 1
  OBVIOUS
<1>2. m \in Nat /\ used + m <= Len(Arena) /\ used + m \in 0..Len(Arena) /\ used \in Nat
  BY <1>1, ArenaAssumption
<1>3. Made(used + m) \subseteq Objs
  BY <1>2, MadeObjs
<1>4. /\ Made(used + m) = Made(used) \cup {Arena[used + k] : k \in 1..m}
      /\ \A k \in 1..m : Arena[used + k] \in Objs /\ Arena[used + k] \notin Made(used)
  BY <1>2, MadeMore
<1> QED BY <1>1, <1>3, <1>4

\* The unknown fields of the innermost activation are set, and nothing else that
\* was there is changed.
LEMMA UnknownSound ==
  ASSUME IInv, Placing, frames # <<>>, NEW n, NEW list, NEW v, NEW h1, NEW h2,
         UnknownAdded(h1, h2, n, Fr.ret, list, v), list = Arena[used + (n + 1)]
  PROVE  /\ Sound(h2, used + (n + 1), frames)
         /\ WritesOnly(heap, h2, used, frames, Len(frames))
<1>1. PICK u, r, m : u = used + (n + 1) /\ r = Fr.ret /\ m = Len(frames)
  OBVIOUS
<1>2. /\ m \in DOMAIN frames /\ r = frames[m].ret /\ used \in 0..Len(Arena)
      /\ frames \in Seq(Part)
  BY <1>1, FrFacts DEF IInv, TypeOK
<1>3. /\ n \in Nat /\ u \in 0..Len(Arena) /\ r \in Made(used)
      /\ \A o \in Made(used) : h1[o] = heap[o]
      /\ PropWritten(h1, h2, r, "$unknownFields", v)
      /\ \A g, a, b, o :
           InHeap(h2, g, a, b, o) <=>
             \/ InHeap(heap, g, a, b, o) \/ Listed(list, n, g, a, b, o)
             \/ g = "prop" /\ a = r /\ b = "$unknownFields" /\ o = list
  <2>1. UnknownAdded(h1, h2, n, r, list, v)
    BY <1>1
  <2>2. n \in Nat /\ used + (n + 1) \in 0..Len(Arena)
    BY DEF UnknownAdded
  <2> QED BY <1>1, <2>1, <2>2, Zenon DEF UnknownAdded
<1>4. /\ \A k \in 1..n + 1 : Arena[used + k] \notin Made(used) /\ Arena[used + k] \in Made(u)
      /\ Made(used) \subseteq Made(u) /\ Made(u) \subseteq Objs
  <2>1. used + (n + 1) \in 0..Len(Arena)
    BY <1>1, <1>3
  <2>2. /\ \A k \in 1..n + 1 : /\ Arena[used + k] \in Objs /\ Arena[used + k] \notin Made(used)
                                /\ Arena[used + k] \in Made(used + (n + 1))
        /\ Made(used) \subseteq Made(used + (n + 1)) /\ Made(used + (n + 1)) \subseteq Objs
    BY <1>2, <1>3, <2>1, AllFresh, Zenon
  <2> QED BY <1>1, <2>2, Zenon
<1>5. n + 1 \in 1..n + 1 /\ \A k \in 1..n : k \in 1..n + 1
  BY <1>3
<1>6. Private(heap, used, frames)
  BY IsPrivate
<1>7. ASSUME NEW g, NEW a, NEW b, NEW x, InHeap(h2, g, a, b, x)
      PROVE  InHeap(heap, g, a, b, x) \/ (x \in Made(u) /\ x \notin Made(used))
  <2>1. CASE InHeap(heap, g, a, b, x)
    BY <2>1
  <2>2. CASE Listed(list, n, g, a, b, x)
    BY <1>4, <1>5, <2>2 DEF Listed
  <2>3. CASE g = "prop" /\ a = r /\ b = "$unknownFields" /\ x = list
    BY <1>4, <1>5, <2>3
  <2>4. \/ InHeap(heap, g, a, b, x) \/ Listed(list, n, g, a, b, x)
        \/ g = "prop" /\ a = r /\ b = "$unknownFields" /\ x = list
    BY <1>3, <1>7
  <2> QED BY <2>1, <2>2, <2>3, <2>4
<1>8. ASSUME NEW g, NEW a, NEW b, NEW x, InHeap(h2, g, a, b, x)
      PROVE  x \in Made(u)
  <2>1. InHeap(heap, g, a, b, x) => x \in Made(used)
    BY <1>6, Zenon DEF Private
  <2>2. x \in Made(used) => x \in Made(u)
    BY <1>4
  <2> QED BY <1>7, <1>8, <2>1, <2>2, Zenon
<1>9. ASSUME NEW k \in DOMAIN frames
      PROVE  /\ Holds(frames[k], u) /\ frames[k].list # frames[k].ret
             /\ \A g, a, b, x : InHeap(h2, g, a, b, x) => x # frames[k].ret /\ x # frames[k].list
             /\ \A j \in DOMAIN frames : j # k => Apart(frames[k], frames[j])
  <2>1. /\ Holds(frames[k], used) /\ frames[k].list # frames[k].ret
        /\ \A g, a, b, x : InHeap(heap, g, a, b, x) => x # frames[k].ret /\ x # frames[k].list
        /\ \A j \in DOMAIN frames : j # k => Apart(frames[k], frames[j])
    BY <1>6, Zenon DEF Private
  <2>2. Holds(frames[k], u)
    BY <1>4, <2>1 DEF Holds
  <2>3. ASSUME NEW g, NEW a, NEW b, NEW x, InHeap(h2, g, a, b, x)
        PROVE  x # frames[k].ret /\ x # frames[k].list
    <3>1. CASE InHeap(heap, g, a, b, x)
      BY <2>1, <3>1, Zenon
    <3>2. CASE x \in Made(u) /\ x \notin Made(used)
      <4>1. frames[k].ret \in Made(used) /\ (frames[k].list # None => frames[k].list \in Made(used))
        BY <2>1 DEF Holds
      <4>2. x # None
        BY <1>4, <3>2, PayloadAssumption
      <4> QED BY <3>2, <4>1, <4>2
    <3> QED BY <1>7, <2>3, <3>1, <3>2
  <2> QED BY <2>1, <2>2, <2>3, Zenon
<1>10. Private(h2, u, frames)
  BY <1>8, <1>9, Zenon DEF Private
<1>11. Sound(h2, u, frames)
  BY <1>2, <1>3, <1>4, <1>10 DEF Sound, PropWritten
<1>12. WritesOnly(heap, h2, used, frames, m)
  <2>1. ASSUME NEW x \in Made(used), x # r
        PROVE  h2[x] = heap[x]
    BY <1>3, <1>4, <2>1 DEF PropWritten
  <2> QED BY <1>2, <2>1 DEF WritesOnly
<1> QED BY <1>1, <1>11, <1>12

\* The unknown fields of the innermost activation complete its object.
LEMMA UnknownCompletes ==
  ASSUME IInv, Placing, frames # <<>>, Fr.i > Known[msgs[Fr.msg].type], Fr.unknown,
         NEW of, Consistent(of, msgs, heap, used, frames, replies),
         NEW n, n = Len(Beyond(Fr.msg)), NEW list, list = Arena[used + (n + 1)],
         NEW v, v = [tag |-> "array", ref |-> list],
         NEW h1, h1 = Allocate(heap, UnknownFields(Fr.msg)), NEW h2,
         UnknownAdded(h1, h2, n, Fr.ret, list, v), Steady(heap, h2)
  PROVE  Complete(of, msgs, h2, Fr.ret, Standing(Fr))
<1>1. PICK r, m, typed, i : r = Fr.ret /\ m = Fr.msg /\ typed = Fr.typed /\ i = Fr.i
  OBVIOUS
<1>2. /\ i = Known[msgs[m].type] + 1 /\ Partial(of, msgs, heap, Fr) /\ m \in DOMAIN msgs
      /\ Fr \in Part /\ msgs \in Tables
  BY <1>1, EndShown
<1>3. /\ heap[r].elems = <<>> /\ FieldsDone(of, msgs, heap, r, m, typed, i)
      /\ NoneElse(msgs, heap, r, m, i)
  BY <1>1, <1>2 DEF Partial
<1>4. /\ n \in Nat /\ used + (n + 1) \in 0..Len(Arena) /\ Room(n + 1) /\ r \in Made(used)
      /\ \A o \in Made(used) : h1[o] = heap[o]
      /\ PropWritten(h1, h2, r, "$unknownFields", v)
  <2>1. UnknownAdded(h1, h2, n, r, list, v)
    BY <1>1
  <2> QED BY <2>1, Zenon DEF UnknownAdded
<1>5. used \in 0..Len(Arena) /\ heap \in Heap /\ Made(used) \subseteq Objs
  BY MadeObjs DEF IInv, TypeOK
<1>6. /\ h2[r].elems = heap[r].elems /\ h2[r].props["$unknownFields"] = v
      /\ \A name \in Names : name # "$unknownFields" => h2[r].props[name] = heap[r].props[name]
  BY <1>4 DEF PropWritten
<1>7. FieldsDone(of, msgs, h2, r, m, typed, i)
  <2>1. \A k \in KnownIn(msgs, m) :
          h2[r].props[FieldIn(msgs, m, k).name] = heap[r].props[FieldIn(msgs, m, k).name]
    BY <1>2, <1>6, FieldNames
  <2>2. More(of, of) /\ r \in Objs
    BY <1>4, <1>5 DEF More
  <2> QED BY <1>2, <1>3, <1>5, <2>1, <2>2, FieldsKept, Zenon
<1>8. NoneElse(msgs, h2, r, m, i)
  BY <1>3, <1>6 DEF NoneElse
<1>9. UnknownShown(h2, msgs[m].type, BeyondIn(msgs, m), v)
  <2>1. \A k \in 1..n + 1 : h2[Arena[used + k]] = h1[Arena[used + k]]
    <3>1. \A k \in 1..n + 1 : Arena[used + k] \in Objs /\ Arena[used + k] \notin Made(used)
      BY <1>4, <1>5, AllFresh
    <3> QED BY <1>4, <3>1 DEF PropWritten
  <2>2. n = Len(Beyond(m)) /\ h1 = Allocate(heap, UnknownFields(m))
    BY <1>1
  <2>3. UnknownShown(h2, msgs[m].type, BeyondIn(msgs, m), [tag |-> "array", ref |-> list])
    BY <1>2, <1>4, <1>5, <2>1, <2>2, UnknownMade, Zenon
  <2> QED BY <2>3, Zenon
<1>10. PICK s : s = Standing(Fr)
  OBVIOUS
<1>11. s.msg = m /\ s.typed = typed /\ s.unknown = TRUE
  BY <1>1, <1>2, <1>10 DEF Standing, Part
<1>12. Complete(of, msgs, h2, r, s)
  BY <1>2, <1>3, <1>6, <1>7, <1>8, <1>9, <1>11 DEF Complete, Extra
<1> QED BY <1>1, <1>10, <1>12

LEMMA EndUnknownDecodes ==
  ASSUME IInv, Placing, Decoding, EndPartWithUnknown
  PROVE  Decoding'
<1>1. PICK of : Consistent(of, msgs, heap, used, frames, replies)
  BY Zenon DEF Decoding
<1>2. PICK n, r, list, v, h1, h2 :
        /\ n = Len(Beyond(Fr.msg)) /\ r = Fr.ret
        /\ list = Arena[used + (n + 1)] /\ v = [tag |-> "array", ref |-> list]
        /\ h1 = Allocate(heap, UnknownFields(Fr.msg))
        /\ h2 = WriteProp(h1, r, "$unknownFields", v)
  OBVIOUS
<1>3. UnknownAdded(h1, h2, n, r, list, v)
  BY <1>2, UnknownSet
<1>4. frames # <<>> /\ Fr.i > Known[msgs[Fr.msg].type] /\ Fr.unknown
  BY DEF EndPartWithUnknown
<1>5. UnknownAdded(h1, h2, n, Fr.ret, list, v)
  BY <1>2, <1>3
<1>6. PICK u : u = used + (n + 1)
  OBVIOUS
<1>7. Sound(h2, u, frames) /\ WritesOnly(heap, h2, used, frames, Len(frames))
  BY <1>2, <1>4, <1>5, <1>6, UnknownSound
<1>8. Sound(heap, used, frames) /\ Made(used) \subseteq Made(u) /\ Made(used) \subseteq Objs
  <2>1. n \in Nat /\ used + (n + 1) \in 0..Len(Arena) /\ used \in 0..Len(Arena)
    BY <1>5 DEF UnknownAdded, IInv, TypeOK
  <2> QED BY <1>6, <2>1, AllFresh, MadeObjs, IsSound
<1>9. Steady(heap, h2)
  <2>1. Private(heap, used, frames)
    BY <1>8 DEF Sound
  <2> QED BY <1>7, <1>8, <2>1, SteadyStep
<1>10. Complete(of, msgs, h2, Fr.ret, Standing(Fr))
  BY <1>1, <1>2, <1>4, <1>5, <1>9, UnknownCompletes
<1>11. Deliver(h2, Fr) /\ msgs' = msgs /\ used' = u
  BY <1>3, <1>6 DEF UnknownAdded
<1> QED BY <1>1, <1>4, <1>7, <1>8, <1>10, <1>11, DeliverDecodes

\* One more call is answered.
LEMMA OneMoreAnswer ==
  ASSUME NEW of, NEW table, NEW rs, NEW rs2, NEW n \in Nat, DOMAIN rs = 1..n,
         DOMAIN rs2 = 1..n + 1, \A k \in 1..n : rs2[k] = rs[k],
         Answering(of, table, rs), AnswerRight(of, table, rs2[n + 1])
  PROVE  Answering(of, table, rs2)
<1>1. ASSUME NEW k \in 1..n + 1  PROVE AnswerRight(of, table, rs2[k])
  <2>1. CASE k = n + 1
    BY <2>1
  <2>2. CASE k # n + 1
    <3>1. k \in 1..n
      BY <2>2
    <3> QED BY <3>1 DEF Answering
  <2> QED BY <2>1, <2>2
<1> QED BY <1>1, Zenon DEF Answering

LEMMA ReadableHere ==
  ASSUME NEW b
  PROVE  Readable(b) <=> ReadableIn(msgs, b)
BY Zenon DEF Readable, ReadableIn, KnownIn, FieldIn

LEMMA RefuseDecodes ==
  ASSUME IInv, Placing, Decoding, NEW c \in Call, Refuse(c)
  PROVE  Decoding'
<1>1. PICK of : Consistent(of, msgs, heap, used, frames, replies)
  BY Zenon DEF Decoding
<1>2. PICK n, r : n = Len(replies) /\ r = [call |-> c, value |-> Null, exc |-> TRUE]
  OBVIOUS
<1>3. /\ n \in Nat /\ DOMAIN replies = 1..n /\ DOMAIN replies' = 1..n + 1
      /\ \A k \in 1..n : replies'[k] = replies[k]
      /\ frames = <<>> /\ UNCHANGED <<msgs, heap, used, frames, held>>
  BY <1>2, RefuseFacts
<1>4. replies' = Append(replies, r) /\ ~(c.known /\ Readable(c.buffer))
  BY <1>2 DEF Refuse
<1>5. replies'[n + 1] = r
  <2>1. replies \in Seq([call : Call, value : Value, exc : BOOLEAN])
    BY DEF IInv, TypeOK
  <2> QED BY <1>2, <1>4, <2>1
<1>6. AnswerRight(of, msgs, r)
  <2>1. r.exc = TRUE /\ r.call = c
    BY <1>2
  <2>2. ~c.known \/ ~ReadableIn(msgs, c.buffer)
    BY <1>4, ReadableHere, Zenon
  <2> QED BY <2>1, <2>2 DEF AnswerRight
<1>7. Answering(of, msgs, replies')
  BY <1>1, <1>3, <1>5, <1>6, OneMoreAnswer DEF Consistent
<1>8. Consistent(of, msgs, heap, used, frames, replies')
  BY <1>1, <1>3, <1>7 DEF Consistent, Asking
<1> QED BY <1>3, <1>8 DEF Decoding

LEMMA AcceptDecodes ==
  ASSUME IInv, Placing, Decoding, NEW c \in Call, Accept(c)
  PROVE  Decoding'
<1>1. PICK of : Consistent(of, msgs, heap, used, frames, replies)
  BY Zenon DEF Decoding
<1>2. PICK n, r, fr : /\ n = Len(replies) /\ r = [call |-> c, value |-> Pending, exc |-> FALSE]
                      /\ fr = NewPart(c.buffer, Arena[used + 1], UseTypedArray(c), c.unknown)
  OBVIOUS
<1>3. /\ n \in Nat /\ DOMAIN replies = 1..n /\ DOMAIN replies' = 1..n + 1
      /\ \A k \in 1..n : replies'[k] = replies[k]
      /\ frames = <<>> /\ DOMAIN frames' = 1..1 /\ frames'[1] = fr /\ fr \in Part
      /\ fr.ret = Arena[used + 1] /\ fr.list = None /\ fr.i = 1
      /\ Room(1) /\ heap' = Allocate(heap, <<Blank>>) /\ used' = used + 1 /\ msgs' = msgs
  BY <1>2, AcceptFacts
<1>4. replies' = Append(replies, r)
  BY <1>2 DEF Accept
<1>5. replies'[n + 1] = r /\ Len(replies') = n + 1
  <2>1. replies \in Seq([call : Call, value : Value, exc : BOOLEAN])
    BY DEF IInv, TypeOK
  <2> QED BY <1>2, <1>4, <2>1
<1>6. r.exc = FALSE /\ r.call = c /\ r.value = Pending
  BY <1>2
<1>7. Standing(fr) = Asked(c)
  BY <1>2 DEF NewPart, Standing, Asked
<1>8. Answering(of, msgs, replies')
  <2>1. AnswerRight(of, msgs, r)
    BY <1>6 DEF AnswerRight
  <2> QED BY <1>1, <1>3, <1>5, <2>1, OneMoreAnswer DEF Consistent
<1>9. Asking(frames', replies')
  BY <1>3, <1>5, <1>6, <1>7 DEF Asking
<1>10. Begun(frames, frames', 0, fr)
  <2>1. DOMAIN frames = 1..0 /\ DOMAIN frames' = 1..0 + 1 /\ frames'[0 + 1] = fr
    BY <1>3
  <2>2. fr.msg \in DOMAIN msgs
    BY <1>3 DEF Part
  <2> QED BY <1>3, <2>1, <2>2 DEF Begun
<1>11. /\ WritesOnly(heap, heap', used, frames, 0) /\ heap'[fr.ret] = Blank
       /\ fr.ret \in Objs /\ fr.ret \notin Made(used) /\ Made(used') = Made(used) \cup {fr.ret}
  BY <1>3, BlankTyped, MakesOnly
<1>12. msgs \in Tables /\ Sound(heap, used, frames)
  BY IsSound DEF IInv
<1>13. Consistent(Taken(of, fr.ret, Standing(fr)), msgs, heap', used', frames', replies')
  BY <1>1, <1>8, <1>9, <1>10, <1>11, <1>12, TopBegins
<1> QED BY <1>3, <1>13 DEF Decoding

LEMMA InitDecoding == Init => Decoding
<1> SUFFICES ASSUME Init  PROVE Decoding
  OBVIOUS
<1>1. frames = <<>> /\ replies = <<>>
  BY DEF Init
<1>2. PICK of : of = [o \in {} |-> Inner(0)]
  OBVIOUS
<1>3. DOMAIN of = {}
  BY <1>2
<1>4. Stands(of, msgs, used) /\ AllComplete(of, msgs, heap, frames)
  BY <1>3 DEF Stands, AllComplete
<1>5. /\ StandIn(of, frames) /\ Chained(msgs, frames) /\ AllPartial(of, msgs, heap, frames)
      /\ Asking(frames, replies) /\ Answering(of, msgs, replies)
  BY <1>1 DEF StandIn, Chained, AllPartial, Asking, Answering
<1> QED BY <1>4, <1>5 DEF Decoding, Consistent

\* Every step leaves the objects standing for messages.
LEMMA NextDecoding == IInv /\ Placing /\ Decoding /\ [Next]_vars => Decoding'
<1> SUFFICES ASSUME IInv, Placing, Decoding, [Next]_vars  PROVE Decoding'
  OBVIOUS
<1>1. ASSUME NEW c \in Call, Refuse(c)  PROVE Decoding'
  BY <1>1, RefuseDecodes
<1>2. ASSUME NEW c \in Call, Accept(c)  PROVE Decoding'
  BY <1>2, AcceptDecodes
<1>3. CASE SkipAbsent
  BY <1>3, SkipDecodes
<1>4. CASE ParseSingular \/ ParseElement
  BY <1>4, ParseSingularDecodes
<1>5. CASE BeginList
  BY <1>5, BeginListDecodes
<1>6. CASE EndList
  BY <1>6, EndListDecodes
<1>7. CASE EndPart
  BY <1>7, EndPartDecodes
<1>8. CASE EndPartWithUnknown
  BY <1>8, EndUnknownDecodes
<1>9. CASE UNCHANGED vars
  BY <1>9 DEF Decoding, vars
<1> QED BY <1>1, <1>2, <1>3, <1>4, <1>5, <1>6, <1>7, <1>8, <1>9, Zenon DEF Next, Build

\* Throughout every run each object that parse() made for a message shows that
\* message: all of it once the activation that fills it has ended, and until then
\* the fields, and the items, that the walk has passed (src/parse.cpp).
THEOREM ShowsMessages == Spec => [](IInv /\ Placing /\ Decoding)
<1>1. Init => IInv /\ Placing /\ Decoding
  BY InitIInv, InitPlacing, InitDecoding
<1>2. IInv /\ Placing /\ Decoding /\ [Next]_vars => (IInv /\ Placing /\ Decoding)'
  BY NextIInv, NextPlacing, NextDecoding
<1> QED BY <1>1, <1>2, PTL DEF Spec

----------------------------------------------------------------------------
(* What was answered, level by level.                                      *)

Outermost == {AnswerImage(r) : r \in {x \in Answered : ~replies[x].exc}}
Level(f, n) == IF n = 0 THEN Outermost ELSE WithParts(f[n - 1])

LEMMA SameLevel ==
  ASSUME NEW f, NEW g, NEW n \in Nat, n # 0 => f[n - 1] = g[n - 1]
  PROVE  Level(f, n) = Level(g, n)
<1>1. CASE n = 0
  BY <1>1 DEF Level
<1>2. CASE n # 0
  <2>1. Level(f, n) = WithParts(f[n - 1]) /\ Level(g, n) = WithParts(g[n - 1])
    BY <1>2 DEF Level
  <2> QED BY <1>2, <2>1
<1> QED BY <1>1, <1>2

\* A function that has the first n levels, each got from the one above it.
HasLevels(f, n) == f = [i \in 0..n |-> Level(f, i)]

LEMMA LevelsExist ==
  ASSUME NEW n \in Nat
  PROVE  \E f : HasLevels(f, n)
<1> DEFINE Good(m) == \E f : HasLevels(f, m)
           Bad == {m \in Nat : ~Good(m)}
<1>1. Good(0)
  <2>1. PICK f : f = [i \in 0..0 |-> Outermost]
    OBVIOUS
  <2>2. f = [i \in 0..0 |-> Level(f, i)]
    BY <2>1 DEF Level
  <2> QED BY <2>2 DEF HasLevels
<1>2. ASSUME NEW m \in Nat, Good(m)  PROVE Good(m + 1)
  <2>1. PICK f : HasLevels(f, m)
    BY <1>2
  <2>2. PICK g : g = [i \in 0..m + 1 |-> IF i <= m THEN f[i] ELSE Level(f, i)]
    OBVIOUS
  <2>3. ASSUME NEW i \in 0..m + 1  PROVE g[i] = Level(g, i)
    <3>1. i # 0 => g[i - 1] = f[i - 1]
      BY <2>2
    <3>2. Level(g, i) = Level(f, i)
      BY <3>1, SameLevel
    <3>3. CASE i <= m
      <4>1. i \in 0..m /\ g[i] = f[i]
        BY <2>2, <3>3
      <4>2. f[i] = Level(f, i)
        BY <2>1, <4>1, Zenon DEF HasLevels
      <4> QED BY <3>2, <4>1, <4>2
    <3>4. CASE ~(i <= m)
      BY <2>2, <3>2, <3>4
    <3> QED BY <3>3, <3>4
  <2>4. g = [i \in 0..m + 1 |-> g[i]]
    BY <2>2
  <2>5. g = [i \in 0..m + 1 |-> Level(g, i)]
    BY <2>3, <2>4, Zenon
  <2> QED BY <2>5 DEF HasLevels
<1> HIDE DEF Good
<1>3. ASSUME NEW k \in Bad  PROVE FALSE
  <2>1. Bad \in SUBSET Nat /\ Bad # {}
    BY <1>3
  <2>2. PICK m \in Bad : \A j \in Bad : m <= j
    BY <2>1, Least
  <2>3. m \in Nat /\ m # 0
    BY <1>1
  <2>4. m - 1 \in Nat /\ m - 1 \notin Bad
    BY <2>2, <2>3
  <2>5. Good((m - 1) + 1)
    BY <1>2, <2>4
  <2> QED BY <2>3, <2>5
<1>4. n \notin Bad
  BY <1>3
<1>5. Good(n)
  BY <1>4
<1> QED BY <1>5 DEF Good

\* There is one such function.
LEMMA LevelsAgree ==
  ASSUME NEW n \in Nat, NEW m \in Nat, m <= n, NEW f, HasLevels(f, n), NEW g, HasLevels(g, m),
         NEW i \in 0..m
  PROVE  f[i] = g[i]
<1> DEFINE Bad == {x \in 0..m : f[x] # g[x]}
<1>1. \A x \in 0..m : x \in Nat /\ f[x] = Level(f, x) /\ g[x] = Level(g, x)
  <2>1. \A x \in 0..m : x \in 0..n /\ x \in Nat
    OBVIOUS
  <2> QED BY <2>1, Zenon DEF HasLevels
<1>2. ASSUME NEW k \in Bad  PROVE FALSE
  <2>1. Bad \in SUBSET Nat /\ Bad # {}
    BY <1>1, <1>2
  <2>2. PICK x \in Bad : \A j \in Bad : x <= j
    BY <2>1, Least
  <2>3. x \in 0..m /\ x \in Nat
    BY <1>1
  <2>4. x # 0 => f[x - 1] = g[x - 1]
    <3>1. x # 0 => x - 1 \in 0..m /\ ~(x <= x - 1)
      BY <2>3
    <3> QED BY <2>2, <3>1
  <2>5. Level(f, x) = Level(g, x)
    BY <2>3, <2>4, SameLevel
  <2> QED BY <1>1, <2>3, <2>5
<1> QED BY <1>2

LEMMA WithinLevels ==
  ASSUME NEW n \in Nat
  PROVE  Within[n] = Level(Within, n)
<1> DEFINE g(m) == CHOOSE f : HasLevels(f, m)
<1>1. \A m \in Nat : HasLevels(g(m), m)
  BY LevelsExist
<1> HIDE DEF g
<1>2. PICK w : w = [m \in Nat |-> g(m)[m]]
  OBVIOUS
<1>3. ASSUME NEW m \in Nat  PROVE w[m] = Level(w, m)
  <2>1. g(m)[m] = Level(g(m), m)
    <3>1. m \in 0..m
      OBVIOUS
    <3>2. HasLevels(g(m), m)
      BY <1>1
    <3> QED BY <3>1, <3>2, Zenon DEF HasLevels
  <2>2. ASSUME m # 0  PROVE g(m)[m - 1] = w[m - 1]
    <3>1. m - 1 \in Nat /\ m - 1 <= m /\ m - 1 \in 0..m - 1
      BY <2>2
    <3>2. HasLevels(g(m), m) /\ HasLevels(g(m - 1), m - 1)
      BY <1>1, <3>1
    <3>3. g(m)[m - 1] = g(m - 1)[m - 1]
      BY <3>1, <3>2, LevelsAgree
    <3> QED BY <1>2, <3>1, <3>3
  <2>3. Level(g(m), m) = Level(w, m)
    BY <2>2, SameLevel
  <2> QED BY <1>2, <2>1, <2>3
<1>4. w = [m \in Nat |-> w[m]]
  BY <1>2
<1>5. w = [m \in Nat |-> Level(w, m)]
  BY <1>3, <1>4, Zenon
<1>6. Within = [m \in Nat |-> Level(Within, m)]
  <2>1. Within = CHOOSE f : f = [m \in Nat |-> Level(f, m)]
    BY Zenon DEF Within, Level, Outermost
  <2> QED BY <1>5, <2>1, Zenon
<1> QED BY <1>6, Zenon

\* An object that is complete, and stands for what the image says of it.
StandsFor(of, s) == s.obj \in DOMAIN of /\ s.obj \notin Rets(frames) /\ of[s.obj] = Standing(s)

\* What a field of a complete object has.
LEMMA FieldOfImage ==
  ASSUME IInv, NEW of, Consistent(of, msgs, heap, used, frames, replies), NEW s, StandsFor(of, s)
  PROVE  /\ s.msg \in DOMAIN msgs /\ s.obj \in Objs
         /\ Complete(of, msgs, heap, s.obj, Standing(s))
         /\ \A n \in KnownFields(s) :
              /\ n \in KnownIn(msgs, s.msg) /\ FieldName(s, n) \in Names
              /\ FieldIn(msgs, s.msg, n) = Schema[msgs[s.msg].type][n]
              /\ FieldName(s, n) = FieldIn(msgs, s.msg, n).name
              /\ DOMAIN msgs[s.msg].vals[n] = 1..Len(msgs[s.msg].vals[n])
              /\ Len(msgs[s.msg].vals[n]) \in Nat
              /\ FieldDone(of, heap, FieldIn(msgs, s.msg, n), msgs[s.msg].vals[n], s.typed,
                           heap[s.obj].props[FieldName(s, n)])
<1>1. Complete(of, msgs, heap, s.obj, Standing(s))
  <2>1. Complete(of, msgs, heap, s.obj, of[s.obj])
    BY DEF Consistent, AllComplete, StandsFor
  <2> QED BY <2>1 DEF StandsFor
<1>2. s.msg \in DOMAIN msgs /\ s.obj \in Objs
  <2>1. used \in 0..Len(Arena)
    BY DEF IInv, TypeOK
  <2>2. Made(used) \subseteq Objs
    BY <2>1, MadeObjs
  <2> QED BY <2>2 DEF Consistent, Stands, StandsFor, Standing
<1>3. msgs \in Tables
  BY DEF IInv
<1>4. ASSUME NEW n \in KnownFields(s)
      PROVE  /\ n \in KnownIn(msgs, s.msg) /\ FieldName(s, n) \in Names
             /\ FieldIn(msgs, s.msg, n) = Schema[msgs[s.msg].type][n]
             /\ FieldName(s, n) = FieldIn(msgs, s.msg, n).name
             /\ DOMAIN msgs[s.msg].vals[n] = 1..Len(msgs[s.msg].vals[n])
             /\ Len(msgs[s.msg].vals[n]) \in Nat
             /\ FieldDone(of, heap, FieldIn(msgs, s.msg, n), msgs[s.msg].vals[n], s.typed,
                          heap[s.obj].props[FieldName(s, n)])
  <2>1. n \in KnownIn(msgs, s.msg)
    BY DEF KnownFields, KnownIn
  <2>2. FieldIn(msgs, s.msg, n) = Schema[msgs[s.msg].type][n]
    BY DEF FieldIn
  <2>3. FieldName(s, n) = FieldIn(msgs, s.msg, n).name
    BY DEF FieldIn, FieldName
  <2>4. FieldName(s, n) \in Names /\ n < Known[msgs[s.msg].type] + 1 /\ n \in DOMAIN Schema[msgs[s.msg].type]
    <3>1. /\ KnownIn(msgs, s.msg) \subseteq DOMAIN Schema[msgs[s.msg].type]
          /\ FieldIn(msgs, s.msg, n).name \in Names \ {"$unknownFields"}
          /\ Known[msgs[s.msg].type] \in Nat
      BY <1>2, <1>3, <2>1, FieldNames, Zenon
    <3> QED BY <2>1, <2>3, <3>1 DEF KnownIn
  <2>5. /\ DOMAIN msgs[s.msg].vals[n] = 1..Len(msgs[s.msg].vals[n])
        /\ Len(msgs[s.msg].vals[n]) \in Nat
    <3>1. msgs[s.msg].vals[n] \in Seq(ItemsOf(Schema[msgs[s.msg].type][n], msgs))
      BY <1>2, <1>3, <2>4, InTable, Zenon
    <3> QED BY <3>1
  <2>6. FieldsDone(of, msgs, heap, s.obj, s.msg, s.typed, Known[msgs[s.msg].type] + 1)
    BY <1>1 DEF Complete, Standing
  <2>7. FieldDone(of, heap, FieldIn(msgs, s.msg, n), msgs[s.msg].vals[n], s.typed,
                  heap[s.obj].props[FieldIn(msgs, s.msg, n).name])
    BY <2>1, <2>4, <2>6, Zenon DEF FieldsDone
  <2> QED BY <2>1, <2>2, <2>3, <2>4, <2>5, <2>7, Zenon
<1> QED BY <1>1, <1>2, <1>4, Zenon

\* A field that is done is shown, in the words of the property.
LEMMA DoneIsShown ==
  ASSUME NEW of, NEW h, NEW f, NEW items, NEW typed, NEW v, FieldDone(of, h, f, items, typed, v),
         Len(items) \in Nat, DOMAIN items = 1..Len(items)
  PROVE  FieldShown(h, f, items, typed, v)
<1>1. CASE f.label = "repeated"
  <2>1. /\ v.tag = IF typed /\ f.kind = "number" /\ items # <<>> THEN "typed" ELSE "array"
        /\ ListDone(of, h, f, items, v.ref, Len(items) + 1)
    BY <1>1, Zenon DEF FieldDone
  <2>2. ASSUME NEW k \in DOMAIN items
        PROVE  Shows(h, f, items[k], h[v.ref].elems[k])
    <3>1. k < Len(items) + 1
      OBVIOUS
    <3> QED BY <2>1, <3>1, Zenon DEF ListDone, ShownAs
  <2> QED BY <1>1, <2>1, <2>2, Zenon DEF FieldShown, ListDone
<1>2. CASE f.label # "repeated" /\ items = <<>>
  <2>1. v = Undefined
    BY <1>2, Zenon DEF FieldDone
  <2> QED BY <1>2, <2>1, Zenon DEF FieldShown
<1>3. CASE f.label # "repeated" /\ items # <<>>
  <2>1. Shows(h, f, items[1], v)
    BY <1>3, Zenon DEF FieldDone, ShownAs
  <2> QED BY <1>3, <2>1, Zenon DEF FieldShown
<1> QED BY <1>1, <1>2, <1>3

LEMMA ImageDecoded ==
  ASSUME IInv, NEW of, Consistent(of, msgs, heap, used, frames, replies), NEW s, StandsFor(of, s)
  PROVE  Decoded(s)
<1>1. PICK t, h, o, m : t = msgs[s.msg].type /\ h = heap /\ o = s.obj /\ m = s.msg
  OBVIOUS
<1>2. /\ Complete(of, msgs, h, o, Standing(s))
      /\ \A n \in KnownFields(s) :
              /\ n \in KnownIn(msgs, m) /\ FieldName(s, n) \in Names
              /\ FieldIn(msgs, m, n) = Schema[t][n]
              /\ FieldName(s, n) = FieldIn(msgs, m, n).name
              /\ DOMAIN msgs[m].vals[n] = 1..Len(msgs[m].vals[n])
              /\ Len(msgs[m].vals[n]) \in Nat
              /\ FieldDone(of, h, FieldIn(msgs, m, n), msgs[m].vals[n], s.typed,
                           h[o].props[FieldName(s, n)])
  BY <1>1, FieldOfImage
<1>3. ASSUME NEW n \in KnownFields(s)
      PROVE  FieldShown(h, Schema[t][n], msgs[m].vals[n], s.typed, h[o].props[FieldName(s, n)])
  <2>1. /\ FieldDone(of, h, Schema[t][n], msgs[m].vals[n], s.typed, h[o].props[FieldName(s, n)])
        /\ DOMAIN msgs[m].vals[n] = 1..Len(msgs[m].vals[n]) /\ Len(msgs[m].vals[n]) \in Nat
    BY <1>2
  <2> QED BY <2>1, DoneIsShown, Zenon
<1>4. PICK st : st = Standing(s)
  OBVIOUS
<1>5. st.msg = m /\ st.typed = s.typed /\ st.unknown = s.unknown /\ Complete(of, msgs, h, o, st)
  BY <1>1, <1>2, <1>4 DEF Standing
<1>6. /\ h[o].elems = <<>> /\ NoneElse(msgs, h, o, m, Known[t] + 1)
      /\ s.unknown => UnknownShown(h, t, Beyond(m), h[o].props["$unknownFields"])
      /\ ~s.unknown => h[o].props["$unknownFields"] = Undefined
  <2>1. BeyondIn(msgs, m) = Beyond(m)
    BY DEF Beyond, BeyondIn
  <2> QED BY <1>1, <1>5, <2>1 DEF Complete, Extra
<1>7. ASSUME NEW name \in Names \ {"$unknownFields"}, \A n \in KnownFields(s) : name # FieldName(s, n)
      PROVE  h[o].props[name] = Undefined
  <2>1. \A n \in KnownIn(msgs, m) : name # FieldIn(msgs, m, n).name
    BY <1>1, <1>7 DEF KnownIn, KnownFields, FieldIn, FieldName
  <2> QED BY <1>6, <2>1, Zenon DEF NoneElse
<1> QED BY <1>1, <1>3, <1>6, <1>7, Zenon DEF Decoded

\* An object is either in the object or array above it or being filled.
LEMMA PlacedNotFilled ==
  ASSUME IInv, Placing, NEW g, NEW a, NEW b, NEW x,
         InHeap(heap, g, a, b, x) \/ InReplies(replies, g, a, b, x), x \in Made(used)
  PROVE  x \notin Rets(frames)
<1> SUFFICES ASSUME NEW k \in DOMAIN frames, x = frames[k].ret  PROVE FALSE
  BY DEF Rets
<1>1. Sole(heap, used, frames, replies)
  BY DEF Placing, Placed
<1>2. At(heap, frames, replies, g, a, b, x)
  BY Zenon DEF At
<1>3. x \in {frames[k].ret, frames[k].list}
  OBVIOUS
<1>4. \A g1, a1, b1 :
        At(heap, frames, replies, g1, a1, b1, x) <=> g1 = "frame" /\ a1 = k /\ b1 = 0
  BY <1>1, <1>3, HeldOnly
<1>5. g = "frame"
  BY <1>2, <1>4, Zenon
<1> QED BY <1>5 DEF InHeap, InContents, InReplies

Elements(f, v) == IF f.label = "repeated" THEN heap[v.ref].elems ELSE <<v>>
IsPart(s, n, k, p) ==
  LET f == Schema[msgs[s.msg].type][n]
      its == msgs[s.msg].vals[n]
      sh == Elements(f, heap[s.obj].props[f.name])
  IN /\ f.kind = "message" /\ k \in DOMAIN its /\ k \in DOMAIN sh
     /\ p = Image(sh[k].ref, its[k][1], TRUE, FALSE)

LEMMA PartIs ==
  ASSUME NEW s, NEW p \in Parts(s)
  PROVE  \E n \in KnownFields(s) : \E k : IsPart(s, n, k, p)
<1>1. PICK n \in KnownFields(s) :
        /\ Schema[msgs[s.msg].type][n].kind = "message"
        /\ p \in {Image(Elements(Schema[msgs[s.msg].type][n],
                            heap[s.obj].props[Schema[msgs[s.msg].type][n].name])[k].ref,
                         msgs[s.msg].vals[n][k][1], TRUE, FALSE) :
                   k \in DOMAIN msgs[s.msg].vals[n] \cap
                           DOMAIN Elements(Schema[msgs[s.msg].type][n],
                             heap[s.obj].props[Schema[msgs[s.msg].type][n].name])}
  BY Zenon DEF Parts, Elements
<1> QED BY <1>1, Zenon DEF IsPart

LEMMA PartStands ==
  ASSUME IInv, Placing, NEW of, Consistent(of, msgs, heap, used, frames, replies),
         NEW s, StandsFor(of, s), NEW p \in Parts(s)
  PROVE  StandsFor(of, p)
<1>0. PICK n \in KnownFields(s) : \E k : IsPart(s, n, k, p)
  BY PartIs
<1>1. PICK k : IsPart(s, n, k, p)
  BY <1>0
<1>2. PICK f, its, v, o, sh : /\ f = Schema[msgs[s.msg].type][n] /\ its = msgs[s.msg].vals[n]
                              /\ o = s.obj /\ v = heap[o].props[f.name] /\ sh = Elements(f, v)
  OBVIOUS
<1>3. /\ f.kind = "message" /\ k \in DOMAIN its /\ k \in DOMAIN sh
      /\ p = Image(sh[k].ref, its[k][1], TRUE, FALSE)
  BY <1>1, <1>2 DEF IsPart
<1>4. /\ o \in Objs /\ f.name \in Names /\ f.kind = "message" /\ v = heap[o].props[f.name]
      /\ DOMAIN its = 1..Len(its) /\ Len(its) \in Nat
      /\ FieldDone(of, heap, f, its, s.typed, v)
  <2>1. /\ FieldName(s, n) = f.name /\ FieldIn(msgs, s.msg, n) = f
    BY <1>2 DEF FieldName, FieldIn
  <2>2. /\ s.obj \in Objs /\ FieldName(s, n) \in Names
        /\ DOMAIN msgs[s.msg].vals[n] = 1..Len(msgs[s.msg].vals[n])
        /\ Len(msgs[s.msg].vals[n]) \in Nat
        /\ FieldDone(of, heap, FieldIn(msgs, s.msg, n), msgs[s.msg].vals[n], s.typed,
                     heap[s.obj].props[FieldName(s, n)])
    BY FieldOfImage, Zenon
  <2>3. /\ msgs[s.msg].vals[n] = its /\ s.obj = o /\ v = heap[o].props[f.name]
        /\ heap[s.obj].props[FieldName(s, n)] = v
    BY <1>2, <2>1, Zenon
  <2> QED BY <1>3, <2>1, <2>2, <2>3, Zenon
<1>5. sh = IF f.label = "repeated" THEN heap[v.ref].elems ELSE <<v>>
  BY <1>2 DEF Elements
<1>6. k \in DOMAIN its /\ k \in DOMAIN sh /\ p = Image(sh[k].ref, its[k][1], TRUE, FALSE)
  BY <1>3
<1>7. PICK x : x = sh[k].ref
  OBVIOUS
<1>8. ShownAs(of, heap, f, its[k], sh[k]) /\ \E g, a, b : IsObject(sh[k]) => InHeap(heap, g, a, b, x)
  <2>1. CASE f.label = "repeated"
    <3>1. ListDone(of, heap, f, its, v.ref, Len(its) + 1) /\ IsObject(v)
      BY <2>1, <1>4 DEF FieldDone, IsObject
    <3>2. ShownAs(of, heap, f, its[k], sh[k])
      <4>1. k < Len(its) + 1
        BY <1>4, <1>6
      <4> QED BY <1>5, <1>6, <2>1, <3>1, <4>1, Zenon DEF ListDone
    <3>3. v.ref \in Objs
      <4>1. v \in Slot
        BY <1>4 DEF IInv, TypeOK, Heap, Contents
      <4> QED BY <3>1, <4>1 DEF Slot, Value, Primitive, Reference, IsObject
    <3>4. IsObject(sh[k]) => InHeap(heap, "elem", v.ref, k, x)
      <4>1. sh = heap[v.ref].elems /\ k \in DOMAIN heap[v.ref].elems
        BY <1>5, <1>6, <2>1
      <4> QED BY <1>7, <3>3, <4>1 DEF InHeap, InContents, Refers
    <3> QED BY <3>2, <3>4
  <2>2. CASE f.label # "repeated"
    <3>1. sh = <<v>> /\ k = 1 /\ its # <<>>
      BY <1>4, <1>5, <1>6, <2>2
    <3>2. ShownAs(of, heap, f, its[1], v)
      BY <1>4, <2>2, <3>1, Zenon DEF FieldDone
    <3>3. sh[k] = v
      BY <3>1
    <3>4. IsObject(sh[k]) => InHeap(heap, "prop", o, f.name, x)
      BY <1>4, <1>7, <3>3 DEF InHeap, InContents, Refers
    <3> QED BY <3>1, <3>2, <3>3, <3>4
  <2> QED BY <2>1, <2>2
<1>9. IsObject(sh[k]) /\ x \in DOMAIN of /\ of[x] = Inner(its[k][1])
  <2>1. sh[k].tag = "object"
    BY <1>4, <1>8 DEF ShownAs, Shows
  <2> QED BY <1>4, <1>7, <1>8, <2>1 DEF ShownAs, IsObject
<1>10. x \in Made(used)
  BY <1>9 DEF Consistent, Stands
<1>11. x \notin Rets(frames)
  BY <1>8, <1>9, <1>10, PlacedNotFilled
<1>12. p.obj = x /\ Standing(p) = Inner(its[k][1])
  BY <1>6, <1>7 DEF Image, Standing, Inner
<1> QED BY <1>9, <1>11, <1>12 DEF StandsFor

LEMMA AnswerStands ==
  ASSUME IInv, Placing, NEW of, Consistent(of, msgs, heap, used, frames, replies),
         NEW r \in Answered, ~replies[r].exc
  PROVE  replies[r].value.tag = "object" /\ StandsFor(of, AnswerImage(r))
<1>1. PICK c, v : c = replies[r].call /\ v = replies[r].value
  OBVIOUS
<1>2. r \in DOMAIN replies /\ v # Pending
  BY <1>1 DEF Answered
<1>3. v.tag = "object" /\ v.ref \in DOMAIN of /\ of[v.ref] = Asked(c)
  BY <1>1, <1>2 DEF Consistent, Answering, AnswerRight
<1>4. v.ref \in Made(used)
  BY <1>3 DEF Consistent, Stands
<1>5. InReplies(replies, "reply", r, 0, v.ref)
  BY <1>1, <1>2, <1>3 DEF InReplies, Refers, IsObject
<1>6. v.ref \notin Rets(frames)
  BY <1>4, <1>5, PlacedNotFilled
<1>7. PICK s : s = AnswerImage(r)
  OBVIOUS
<1>8. s.obj = v.ref /\ Standing(s) = Asked(c)
  BY <1>1, <1>7 DEF AnswerImage, Image, Standing, Asked
<1>9. StandsFor(of, s)
  BY <1>3, <1>6, <1>8 DEF StandsFor
<1> QED BY <1>1, <1>3, <1>7, <1>9

\* However deep, the objects of the answers stand for their messages.
LEMMA AllStand ==
  ASSUME IInv, Placing, NEW of, Consistent(of, msgs, heap, used, frames, replies), NEW n \in Nat
  PROVE  \A s \in Within[n] : StandsFor(of, s)
<1> DEFINE Good(m) == \A s \in Within[m] : StandsFor(of, s)
           Bad == {m \in Nat : ~Good(m)}
<1>1. Good(0)
  <2>1. Within[0] = Outermost
    BY WithinLevels DEF Level
  <2> QED BY <2>1, AnswerStands DEF Outermost
<1>2. ASSUME NEW m \in Nat, m # 0, Good(m - 1)  PROVE Good(m)
  <2>1. Within[m] = WithParts(Within[m - 1])
    BY <1>2, WithinLevels DEF Level
  <2>2. ASSUME NEW p \in Within[m]  PROVE StandsFor(of, p)
    <3>1. p \in Within[m - 1] \/ \E s \in Within[m - 1] : p \in Parts(s)
      BY <2>1, <2>2 DEF WithParts
    <3>2. CASE p \in Within[m - 1]
      BY <1>2, <3>2
    <3>3. ASSUME NEW s \in Within[m - 1], p \in Parts(s)  PROVE StandsFor(of, p)
      <4>1. StandsFor(of, s)
        BY <1>2, <3>3
      <4> QED BY <3>3, <4>1, PartStands
    <3> QED BY <3>1, <3>2, <3>3
  <2> QED BY <2>2
<1> HIDE DEF Good
<1>3. ASSUME NEW k \in Bad  PROVE FALSE
  <2>1. Bad \in SUBSET Nat /\ Bad # {}
    BY <1>3
  <2>2. PICK m \in Bad : \A j \in Bad : m <= j
    BY <2>1, Least
  <2>3. m \in Nat /\ m # 0
    BY <1>1
  <2>4. m - 1 \in Nat /\ m - 1 \notin Bad
    BY <2>2, <2>3
  <2>5. Good(m)
    BY <1>2, <2>3, <2>4
  <2> QED BY <2>5
<1>4. Good(n)
  BY <1>3
<1> QED BY <1>4 DEF Good

\* What parse() and parseWithUnknown() answered is the message that was in the
\* buffer, field by field and at every level, with the arrays the caller chose and
\* the unknown fields of the outermost message; it stays that while later calls
\* run, and only what was unknown or unreadable is refused (src/native.cpp,
\* src/parse.cpp).
THEOREM AnswersAreDecoded == Spec => []ResultIsDecoded
<1>1. IInv /\ Placing /\ Decoding => ResultIsDecoded
  <2> SUFFICES ASSUME IInv, Placing, Decoding  PROVE ResultIsDecoded
    OBVIOUS
  <2>1. PICK of : Consistent(of, msgs, heap, used, frames, replies)
    BY Zenon DEF Decoding
  <2>2. ASSUME NEW r \in Answered, replies[r].exc
        PROVE  ~replies[r].call.known \/ ~Readable(replies[r].call.buffer)
    <3>1. r \in DOMAIN replies
      BY DEF Answered
    <3>2. ~replies[r].call.known \/ ~ReadableIn(msgs, replies[r].call.buffer)
      BY <2>1, <2>2, <3>1, Zenon DEF Consistent, Answering, AnswerRight
    <3> QED BY <3>2, ReadableHere, Zenon
  <2>3. ASSUME NEW r \in Answered, ~replies[r].exc
        PROVE  replies[r].value.tag = "object"
    BY <2>1, <2>3, AnswerStands
  <2>4. Len(msgs) \in Nat
    BY DEF IInv, TypeOK
  <2>5. ASSUME NEW s \in Within[Len(msgs)]  PROVE Decoded(s)
    <3>1. StandsFor(of, s)
      BY <2>1, <2>4, AllStand
    <3> QED BY <2>1, <3>1, ImageDecoded
  <2> QED BY <2>2, <2>3, <2>5, Zenon DEF ResultIsDecoded
<1> QED BY <1>1, ShowsMessages, PTL
=============================================================================
