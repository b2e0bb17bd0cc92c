----------------------------- MODULE AddonProofs -----------------------------
(***************************************************************************)
(* Theorems of Addon, for every number of objects, fields, writes, calls   *)
(* and turns.                                                              *)
(***************************************************************************)
EXTENDS Addon, StackLemmas

WP == INSTANCE WrapperProofs

----------------------------------------------------------------------------
(* The inductive invariant.                                                *)

Reads == [object : Objects, made : Nat, seen : Seq(Nat)]

\* What field f of o holds after the first t of some writes: Content, of a
\* given log.
Held(l, o, f, t) ==
  LET writes == {i \in 1..t : l[i] = [object |-> o, field |-> f]}
  IN  IF writes = {} THEN 0 ELSE CHOOSE i \in writes : \A j \in writes : j <= i

\* What a call has read is what one moment after another had.
HonestRead(r, l) ==
  LET n == Len(r.seen)
  IN /\ r.made <= Len(l) /\ n <= FieldCount
     /\ \E times \in [1..n -> r.made..Len(l)] :
          \A f \in 1..n : /\ r.seen[f] = Held(l, r.object, f, times[f])
                          /\ \A e \in 1..f : times[e] <= times[f]
Honest(c) == HonestRead(reads[c], log)

\* A field that was written to was written to last at some moment.
LastWritten(l) ==
  \A o \in Objects, f \in Fields, t \in 0..Len(l) : \A k \in 1..t :
    l[k] = [object |-> o, field |-> f] =>
      \E i \in 1..t : /\ l[i] = [object |-> o, field |-> f]
                      /\ \A j \in 1..t : l[j] = [object |-> o, field |-> f] => j <= i
LastWrites == LastWritten(log)

ReadsTyped ==
  /\ log \in Seq([object : Objects, field : Fields])
  /\ reads \in Seq(Reads)
  /\ Len(reads) = Len(calls)
AllHonest == \A c \in DOMAIN reads : Honest(c)

\* A native call that a getter has interrupted is of an object with getters.
SuspendedIsLively ==
  \A k \in DOMAIN stack : k < Len(stack) /\ stack[k].at = "native" => ~Plain(stack[k].call)

\* A running call has read of a plain object what that still holds.
UpToDate ==
  \A k \in DOMAIN stack : stack[k].at = "native" /\ Plain(stack[k].call) =>
    LET r == reads[stack[k].call]
    IN \A f \in 1..Len(r.seen) : r.seen[f] = Held(log, r.object, f, Now)

TicksUnread == \A k \in DOMAIN ticks : reads[ticks[k]].seen = <<>>
Accepted == \A c \in DOMAIN calls : calls[c].async => calls[c].reply = "none"
Complete == \A c \in DOMAIN calls : Succeeded(c) => Len(reads[c].seen) = FieldCount

\* A call reads after the calls with callbacks that were made before it and
\* have been answered.
ReadsLater ==
  \A c, d \in DOMAIN calls :
    /\ c < d /\ calls[c].async /\ calls[d].async /\ reads[c].object = reads[d].object
    /\ Succeeded(c)
    => \A f \in 1..Len(reads[d].seen) : reads[c].seen[f] <= reads[d].seen[f]

AInv ==
  /\ WP!IInv /\ ReadsTyped /\ LastWrites /\ AllHonest /\ SuspendedIsLively /\ UpToDate /\ TicksUnread
  /\ Accepted /\ Complete /\ ReadsLater

----------------------------------------------------------------------------
(* Every step is one of Wrapper's, or none of its business.                *)

LEMMA StepRefines == [Next]_vars => [W!Next]_(W!vars)
<1> SUFFICES ASSUME [Next]_vars  PROVE [W!Next]_(W!vars)
  OBVIOUS
<1>1. ASSUME NEW op \in W!Ops, NEW o \in Objects, Call(op, o)  PROVE W!Next
  BY <1>1 DEF Call, W!Next
<1>2. ASSUME NEW o \in Objects, NEW f \in Fields, Write(o, f)  PROVE UNCHANGED W!vars
  BY <1>2 DEF Write, wrapper, W!vars
<1>3. ReadField => UNCHANGED W!vars
  BY DEF ReadField, wrapper, W!vars
<1>4. EnterGetter => W!Next
  BY DEF EnterGetter, W!Next
<1>5. ASSUME NEW outcome \in W!Outcomes("serialize"), NativeReturns(outcome)  PROVE W!Next
  BY <1>5 DEF NativeReturns, W!Next
<1>6. Elsewhere => W!Next
  BY DEF Elsewhere, W!Next, W!UserEnds
<1>7. UNCHANGED vars => UNCHANGED W!vars
  BY DEF vars, wrapper, W!vars
<1> QED BY <1>1, <1>2, <1>3, <1>4, <1>5, <1>6, <1>7 DEF Next

\* What Wrapper promises holds of the calls of this module.
THEOREM Refines == Spec => W!Spec
<1>1. Init => W!Init
  BY DEF Init
<1> QED BY <1>1, StepRefines, PTL DEF Spec, W!Spec

\* WrapperProofs extends Wrapper: its frames and actions are those.
LEMMA SameFrames ==
  /\ W!Top = WP!Top /\ W!Last(stack) = WP!Last(stack) /\ W!Front(stack) = WP!Front(stack)
  /\ (W!UserCode <=> WP!UserCode) /\ (W!InNative <=> WP!InNative) /\ (W!Idle <=> WP!Idle)
  /\ W!Ops = WP!Ops /\ \A op : W!Outcomes(op) = WP!Outcomes(op)
  BY DEF W!Top, WP!Top, W!Last, WP!Last, W!Front, WP!Front, W!UserCode, WP!UserCode,
         W!InNative, WP!InNative, W!Idle, WP!Idle, W!Ops, WP!Ops, W!Outcomes, WP!Outcomes

LEMMA SameCalls ==
  /\ \A op, async : W!CallInvalid(op, async) <=> WP!CallInvalid(op, async)
  /\ \A op : (W!CallSync(op) <=> WP!CallSync(op)) /\ (W!CallAsync(op) <=> WP!CallAsync(op))
<1>1. \A op, async, reply : W!NewCall(op, async, reply) = WP!NewCall(op, async, reply)
  BY DEF W!NewCall, WP!NewCall
<1>2. \A c : W!Native(c) = WP!Native(c) /\ W!Defer(c) = WP!Defer(c)
  BY DEF W!Native, WP!Native, W!Defer, WP!Defer
<1>3. \A op, async : W!CallInvalid(op, async) <=> WP!CallInvalid(op, async)
  BY <1>1, SameFrames DEF W!CallInvalid, WP!CallInvalid
<1>4. \A op : (W!CallSync(op) <=> WP!CallSync(op)) /\ (W!CallAsync(op) <=> WP!CallAsync(op))
  BY <1>1, <1>2, SameFrames DEF W!CallSync, WP!CallSync, W!CallAsync, WP!CallAsync
<1> QED BY <1>3, <1>4

LEMMA SameReturns ==
  /\ \A outcome : W!NativeReturns(outcome) <=> WP!NativeReturns(outcome)
  /\ W!CallbackThrows <=> WP!CallbackThrows
  /\ W!TurnThrows <=> WP!TurnThrows
<1>1. /\ \A op, outcome : W!Heard(op, outcome) = WP!Heard(op, outcome)
      /\ \A outcome : W!Reply(outcome) = WP!Reply(outcome)
      /\ \A c, guarded : W!Callback(c, guarded) = WP!Callback(c, guarded)
  BY DEF W!Heard, WP!Heard, W!Reply, WP!Reply, W!Callback, WP!Callback
<1>2. \A c, outcome, what : W!Invoke(c, outcome, what) <=> WP!Invoke(c, outcome, what)
  BY <1>1, SameFrames DEF W!Invoke, WP!Invoke
<1>3. \A outcome : W!NativeReturns(outcome) <=> WP!NativeReturns(outcome)
  BY <1>1, <1>2, SameFrames DEF W!NativeReturns, WP!NativeReturns
<1>4. W!Uncaught <=> WP!Uncaught
  BY DEF W!Uncaught, WP!Uncaught
<1>5. W!CallbackThrows <=> WP!CallbackThrows
  BY <1>2, <1>4, SameFrames DEF W!CallbackThrows, WP!CallbackThrows
<1>6. W!TurnThrows <=> WP!TurnThrows
  BY <1>4, SameFrames DEF W!TurnThrows, WP!TurnThrows
<1> QED BY <1>3, <1>5, <1>6

LEMMA SameOthers ==
  /\ (W!EnterGetter <=> WP!EnterGetter) /\ (W!NativeAborts <=> WP!NativeAborts)
  /\ (W!UserReturns <=> WP!UserReturns) /\ (W!GetterThrows <=> WP!GetterThrows)
  /\ (W!RunTick <=> WP!RunTick) /\ (W!RunTurn <=> WP!RunTurn)
<1>1. W!Program = WP!Program /\ \A c : W!Native(c) = WP!Native(c)
  BY DEF W!Native, WP!Native, W!Program, WP!Program
<1>2. (W!EnterGetter <=> WP!EnterGetter) /\ (W!NativeAborts <=> WP!NativeAborts)
  BY <1>1, SameFrames DEF W!EnterGetter, WP!EnterGetter, W!NativeAborts, WP!NativeAborts
<1>3. (W!UserReturns <=> WP!UserReturns) /\ (W!GetterThrows <=> WP!GetterThrows)
  BY SameFrames DEF W!UserReturns, WP!UserReturns, W!GetterThrows, WP!GetterThrows
<1>4. (W!RunTick <=> WP!RunTick) /\ (W!RunTurn <=> WP!RunTurn)
  BY <1>1, SameFrames DEF W!RunTick, WP!RunTick, W!RunTurn, WP!RunTurn
<1> QED BY <1>2, <1>3, <1>4

LEMMA SameStep == [W!Next]_(W!vars) => [WP!Next]_(WP!vars)
<1>1. W!Next => WP!Next
  BY SameFrames, SameCalls, SameReturns, SameOthers DEF W!Next, WP!Next
<1> QED BY <1>1 DEF W!vars, WP!vars

LEMMA WrapperInvariant ==
  /\ Init => WP!IInv
  /\ WP!IInv /\ [Next]_vars => WP!IInv'
<1>1. Init => WP!Init
  BY DEF Init, W!Init, WP!Init
<1> QED BY <1>1, StepRefines, SameStep, BoundAssumption, WP!InitIInv, WP!NextIInv

----------------------------------------------------------------------------
(* What a field holds.                                                     *)

LEMMA ContentIsHeld == \A o, f, t : Content(o, f, t) = Held(log, o, f, t)
BY DEF Content, Held

\* The first t writes, and of them the one that a field holds.
LEMMA HeldFacts ==
  ASSUME NEW l, LastWritten(l), NEW o \in Objects, NEW f \in Fields, NEW t \in 0..Len(l)
  PROVE  /\ Held(l, o, f, t) \in 0..t
         /\ Held(l, o, f, t) # 0 => l[Held(l, o, f, t)] = [object |-> o, field |-> f]
         /\ \A i \in 1..t : l[i] = [object |-> o, field |-> f] => i <= Held(l, o, f, t)
<1> DEFINE writes == {i \in 1..t : l[i] = [object |-> o, field |-> f]}
           last == CHOOSE i \in writes : \A j \in writes : j <= i
<1>1. CASE writes = {}
  BY <1>1 DEF Held
<1>2. CASE writes # {}
  <2>1. \E i \in writes : \A j \in writes : j <= i
    BY <1>2 DEF LastWritten
  <2>2. last \in writes /\ \A j \in writes : j <= last
    BY <2>1
  <2>3. Held(l, o, f, t) = last
    BY <1>2 DEF Held
  <2> QED BY <2>2, <2>3
<1> QED BY <1>1, <1>2

\* A field never holds an older write than it did.
LEMMA HeldGrows ==
  ASSUME NEW l, LastWritten(l), Len(l) \in Nat, NEW o \in Objects, NEW f \in Fields,
         NEW t \in 0..Len(l), NEW u \in 0..Len(l), t <= u
  PROVE  Held(l, o, f, t) <= Held(l, o, f, u)
<1>1. /\ Held(l, o, f, t) \in 0..t
      /\ Held(l, o, f, t) # 0 => l[Held(l, o, f, t)] = [object |-> o, field |-> f]
  BY HeldFacts
<1>2. /\ Held(l, o, f, u) \in 0..u
      /\ \A i \in 1..u : l[i] = [object |-> o, field |-> f] => i <= Held(l, o, f, u)
  BY HeldFacts
<1> QED BY <1>1, <1>2

\* What a field held is not rewritten by a later write.
LEMMA HeldStable ==
  ASSUME NEW l \in Seq([object : Objects, field : Fields]), NEW w,
         NEW o, NEW f, NEW t \in 0..Len(l)
  PROVE  Held(Append(l, w), o, f, t) = Held(l, o, f, t)
<1> DEFINE Latest(S) == IF S = {} THEN 0 ELSE CHOOSE i \in S : \A j \in S : j <= i
           old == {i \in 1..t : l[i] = [object |-> o, field |-> f]}
           new == {i \in 1..t : Append(l, w)[i] = [object |-> o, field |-> f]}
<1>1. Held(l, o, f, t) = Latest(old) /\ Held(Append(l, w), o, f, t) = Latest(new)
  BY DEF Held
<1>2. /\ Len(l) \in Nat
      /\ \A k \in 1..Len(l) : Append(l, w)[k] = l[k]
  BY PushAny
<1>3. \A i \in 1..t : i \in 1..Len(l)
  BY <1>2
<1>4. old = new
  BY <1>2, <1>3
<1> HIDE DEF Latest, old, new
<1> QED BY <1>1, <1>4

\* A call that has read nothing is honest, reading what a field holds now
\* keeps it so, and writing does not change what it has read.
LEMMA NothingRead ==
  ASSUME NEW l, Len(l) \in Nat, NEW r, r.seen = <<>>, r.made \in Nat, r.made <= Len(l)
  PROVE  HonestRead(r, l)
<1>1. PICK n : n = Len(r.seen)
  OBVIOUS
<1>2. n = 0
  BY <1>1
<1> DEFINE none == [e \in 1..n |-> 0]
<1>3. none \in [1..n -> r.made..Len(l)] /\ \A f \in 1..n : FALSE
  BY <1>2
<1> HIDE DEF none
<1>4. \E times \in [1..n -> r.made..Len(l)] :
        \A f \in 1..n : /\ r.seen[f] = Held(l, r.object, f, times[f])
                        /\ \A e \in 1..f : times[e] <= times[f]
  BY <1>3, Zenon
<1>5. n <= FieldCount
  BY <1>2, ObjectAssumption
<1> QED BY <1>1, <1>4, <1>5, Zenon DEF HonestRead

LEMMA OneMoreRead ==
  ASSUME NEW l, Len(l) \in Nat, NEW r \in Reads, NEW s \in Reads, HonestRead(r, l),
         Len(r.seen) < FieldCount, s.object = r.object, s.made = r.made,
         s.seen = Append(r.seen, Held(l, r.object, Len(r.seen) + 1, Len(l)))
  PROVE  HonestRead(s, l)
<1> DEFINE m == r.made
<1>1. PICK n : n = Len(r.seen)
  OBVIOUS
<1>2. r.seen \in Seq(Nat) /\ n \in Nat /\ m \in Nat
  BY <1>1 DEF Reads
<1>3. /\ Len(s.seen) = n + 1 /\ s.seen[n + 1] = Held(l, r.object, n + 1, Len(l))
      /\ \A f \in 1..n : s.seen[f] = r.seen[f]
  BY <1>1, <1>2, PushAny
<1>4. m <= Len(l) /\ n + 1 <= FieldCount
  BY <1>1, <1>2, ObjectAssumption DEF HonestRead
<1>5. PICK times \in [1..n -> m..Len(l)] :
        \A f \in 1..n : /\ r.seen[f] = Held(l, r.object, f, times[f])
                        /\ \A e \in 1..f : times[e] <= times[f]
  BY <1>1 DEF HonestRead
<1> DEFINE later == [f \in 1..n + 1 |-> IF f <= n THEN times[f] ELSE Len(l)]
<1>6. later \in [1..n + 1 -> m..Len(l)]
  BY <1>2, <1>4, <1>5
<1>7. later[n + 1] = Len(l) /\ \A f \in 1..n : later[f] = times[f]
  BY <1>2
<1>8. \A f \in 1..n + 1 : f \in 1..n \/ f = n + 1
  BY <1>2
<1> HIDE DEF later, m
<1>9. ASSUME NEW f \in 1..n + 1
      PROVE  /\ s.seen[f] = Held(l, r.object, f, later[f])
             /\ \A e \in 1..f : later[e] <= later[f]
  <2>1. CASE f = n + 1
    <3>1. \A e \in 1..n + 1 : later[e] <= Len(l)
      BY <1>2, <1>6 DEF m
    <3> QED BY <1>3, <1>7, <2>1, <3>1
  <2>2. CASE f \in 1..n
    <3>1. \A e \in 1..f : e \in 1..n
      BY <1>2, <2>2
    <3> QED BY <1>3, <1>5, <1>7, <2>2, <3>1
  <2> QED BY <1>8, <2>1, <2>2
<1> QED BY <1>3, <1>4, <1>6, <1>9 DEF HonestRead, m

LEMMA OneMoreWritten ==
  ASSUME NEW l \in Seq([object : Objects, field : Fields]),
         NEW w \in [object : Objects, field : Fields],
         NEW r \in Reads, HonestRead(r, l)
  PROVE  HonestRead(r, Append(l, w))
<1>1. /\ Len(l) \in Nat /\ Len(Append(l, w)) = Len(l) + 1
      /\ r.made \in Nat /\ Len(r.seen) \in Nat
  BY PushAny DEF Reads
<1>2. PICK times \in [1..Len(r.seen) -> r.made..Len(l)] :
        \A f \in 1..Len(r.seen) : /\ r.seen[f] = Held(l, r.object, f, times[f])
                                  /\ \A e \in 1..f : times[e] <= times[f]
  BY DEF HonestRead
<1>3. times \in [1..Len(r.seen) -> r.made..Len(l) + 1]
  BY <1>1
<1>4. \A f \in 1..Len(r.seen) : Held(Append(l, w), r.object, f, times[f]) = Held(l, r.object, f, times[f])
  <2>1. \A f \in 1..Len(r.seen) : times[f] \in 0..Len(l)
    BY <1>1, <1>2
  <2> QED BY <2>1, HeldStable, ZenonT(40)
<1> QED BY <1>1, <1>2, <1>3, <1>4 DEF HonestRead

\* One write more, and every field written to still has a last write.
LEMMA LastWrittenKept ==
  ASSUME NEW l \in Seq([object : Objects, field : Fields]),
         NEW w \in [object : Objects, field : Fields], LastWritten(l)
  PROVE  LastWritten(Append(l, w))
<1>1. PICK n : n = Len(l)
  OBVIOUS
<1>2. /\ n \in Nat /\ Len(Append(l, w)) = n + 1 /\ Append(l, w)[n + 1] = w
      /\ \A i \in 1..n : Append(l, w)[i] = l[i]
  BY <1>1, PushAny
<1>3. ASSUME NEW o \in Objects, NEW f \in Fields, NEW t \in 0..n + 1,
             NEW k \in 1..t, Append(l, w)[k] = [object |-> o, field |-> f]
      PROVE  \E i \in 1..t : /\ Append(l, w)[i] = [object |-> o, field |-> f]
                             /\ \A j \in 1..t : Append(l, w)[j] = [object |-> o, field |-> f] => j <= i
  <2>1. CASE t = n + 1 /\ w = [object |-> o, field |-> f]
    BY <1>2, <2>1
  <2>2. CASE ~(t = n + 1 /\ w = [object |-> o, field |-> f])
    <3> DEFINE u == IF t = n + 1 THEN n ELSE t
               writes == {i \in 1..u : l[i] = [object |-> o, field |-> f]}
    <3>1. u \in 0..n /\ \A i \in 1..u : i \in 1..n /\ i \in 1..t
      BY <1>2
    <3>2. \A i \in 1..t : Append(l, w)[i] = [object |-> o, field |-> f] => i \in writes
      BY <1>2, <2>2
    <3>3. \E i \in writes : \A j \in writes : j <= i
      <4>1. k \in writes
        BY <1>3, <3>2
      <4> HIDE DEF u
      <4> QED BY <1>1, <3>1, <4>1 DEF LastWritten
    <3>4. PICK i \in writes : \A j \in writes : j <= i
      BY <3>3
    <3> HIDE DEF u
    <3>5. i \in 1..t /\ Append(l, w)[i] = [object |-> o, field |-> f]
      BY <1>2, <3>1, <3>4
    <3> QED BY <3>2, <3>4, <3>5
  <2> QED BY <2>1, <2>2
<1> QED BY <1>2, <1>3, ZenonT(40) DEF LastWritten

----------------------------------------------------------------------------
(* Frames, ticks and what they name.                                       *)

\* The stack with its top, and the calls that frames and ticks name.
LEMMA Frames ==
  ASSUME WP!IInv
  PROVE  /\ Len(stack) \in Nat /\ DOMAIN stack = 1..Len(stack)
         /\ calls \in Seq(WP!Call) /\ Len(calls) \in Nat /\ DOMAIN calls = 1..Len(calls)
         /\ \A k \in DOMAIN stack : stack[k].at = "native" =>
              /\ WP!Fresh(stack[k].call) /\ stack[k].call \in DOMAIN calls
              /\ calls[stack[k].call].async <=> k = 1
         /\ \A j, k \in DOMAIN stack :
              j < k /\ stack[j].at = "native" /\ stack[k].at = "native" => stack[j].call # stack[k].call
         /\ \A k \in DOMAIN ticks : ticks[k] \in DOMAIN calls
<1>1. WP!TypeOK /\ WP!FramesServe /\ WP!FramesDistinct /\ WP!TicksFresh
  BY DEF WP!IInv
<1>2. /\ Len(stack) \in Nat /\ DOMAIN stack = 1..Len(stack)
      /\ calls \in Seq(WP!Call) /\ Len(calls) \in Nat /\ DOMAIN calls = 1..Len(calls)
  BY <1>1 DEF WP!TypeOK
<1>3. \A k \in DOMAIN stack : stack[k].at = "native" =>
        /\ WP!Fresh(stack[k].call) /\ stack[k].call \in DOMAIN calls
        /\ calls[stack[k].call].async <=> k = 1
  BY <1>1 DEF WP!FramesServe, WP!FrameServes, WP!Fresh
<1>4. \A k \in DOMAIN ticks : ticks[k] \in DOMAIN calls
  BY <1>1 DEF WP!TicksFresh, WP!Fresh
<1> QED BY <1>1, <1>2, <1>3, <1>4 DEF WP!FramesDistinct

LEMMA TopFrame ==
  ASSUME WP!IInv, stack # <<>>
  PROVE  /\ Len(stack) \in Nat \ {0} /\ Len(stack) \in DOMAIN stack
         /\ W!Top = stack[Len(stack)] /\ WP!Top = stack[Len(stack)]
         /\ Len(WP!Front(stack)) = Len(stack) - 1 /\ DOMAIN WP!Front(stack) = 1..Len(stack) - 1
         /\ \A k \in 1..Len(stack) - 1 : WP!Front(stack)[k] = stack[k]
<1>1. WP!TypeOK /\ stack \in Seq(WP!Frame)
  BY DEF WP!IInv, WP!TypeOK
<1>2. WP!Top = stack[Len(stack)] /\ Len(stack) \in Nat \ {0}
  BY <1>1, BoundAssumption, WP!StackFacts
<1>3. /\ Len(WP!Front(stack)) = Len(stack) - 1 /\ DOMAIN WP!Front(stack) = 1..Len(stack) - 1
      /\ \A k \in 1..Len(stack) - 1 : WP!Front(stack)[k] = stack[k]
  BY <1>1, BoundAssumption, WP!StackFacts
<1> QED BY <1>1, <1>2, <1>3, SameFrames

\* What a call reads, and has read.
LEMMA ReadsOf ==
  ASSUME WP!IInv, ReadsTyped, NEW c \in DOMAIN calls
  PROVE  /\ c \in DOMAIN reads /\ reads[c] \in Reads
         /\ reads[c].object \in Objects /\ reads[c].made \in Nat
         /\ reads[c].seen \in Seq(Nat) /\ Len(reads[c].seen) \in Nat
         /\ DOMAIN reads[c].seen = 1..Len(reads[c].seen)
         /\ reads \in Seq(Reads) /\ DOMAIN reads = 1..Len(calls) /\ Now \in Nat
<1>1. /\ reads \in Seq(Reads) /\ DOMAIN reads = 1..Len(calls) /\ c \in 1..Len(calls)
      /\ Now \in Nat
  BY Frames DEF ReadsTyped, Now
<1>2. c \in DOMAIN reads /\ reads[c] \in Reads
  BY <1>1
<1>3. /\ reads[c].object \in Objects /\ reads[c].made \in Nat
      /\ reads[c].seen \in Seq(Nat)
  BY <1>2 DEF Reads
<1> QED BY <1>1, <1>2, <1>3

\* Every native call on the stack was there before, still in the frame that
\* runs if it is the one now, or interrupted if it may be; or has read nothing.
Inherited ==
  \A k \in DOMAIN stack' : stack'[k].at = "native" =>
    \/ k = Len(stack') /\ reads[stack'[k].call].seen = <<>>
    \/ \E j \in DOMAIN stack :
         /\ stack[j].at = "native" /\ stack[j].call = stack'[k].call
         /\ k < Len(stack') => j < Len(stack) \/ ~Plain(stack[j].call)

\* A step that neither writes nor reads, and makes no call.
LEMMA UnreadKept ==
  ASSUME AInv, WP!IInv', UNCHANGED <<log, reads>>, Len(calls') = Len(calls), Inherited,
         \A k \in DOMAIN ticks' : \E j \in DOMAIN ticks : ticks'[k] = ticks[j]
  PROVE  /\ ReadsTyped' /\ LastWrites' /\ AllHonest'
         /\ SuspendedIsLively' /\ UpToDate' /\ TicksUnread'
<1>1. ReadsTyped'
  BY DEF AInv, ReadsTyped
<1>3. LastWrites'
  BY DEF AInv, LastWrites
<1>4. AllHonest'
  BY DEF AInv, AllHonest, Honest
<1>5. SuspendedIsLively'
  BY DEF AInv, SuspendedIsLively, Inherited, Plain
<1>6. UpToDate'
  BY DEF AInv, UpToDate, Inherited, Plain, Now
<1>7. TicksUnread'
  BY DEF AInv, TicksUnread
<1> QED BY <1>1, <1>3, <1>4, <1>5, <1>6, <1>7

\* A step that answers no call.
LEMMA AnswersKept ==
  ASSUME AInv, UNCHANGED reads, DOMAIN calls' = DOMAIN calls,
         \A c \in DOMAIN calls : /\ calls'[c].async = calls[c].async
                                 /\ calls'[c].reply = calls[c].reply
                                 /\ calls'[c].outcome = calls[c].outcome
  PROVE  Accepted' /\ Complete' /\ ReadsLater'
BY DEF AInv, Accepted, Complete, ReadsLater, Succeeded

----------------------------------------------------------------------------
(* Steps that neither write nor read.                                      *)

LEMMA EnterGetterStep == ASSUME AInv, WP!IInv', EnterGetter PROVE AInv'
<1>1. /\ WP!InNative /\ WP!Top.at = "native" /\ stack # <<>>
      /\ stack' = Append(stack, WP!Program) /\ ~Plain(WP!Top.call)
      /\ UNCHANGED <<calls, ticks, log, reads>>
  BY SameOthers, SameFrames DEF EnterGetter, WP!EnterGetter, WP!InNative, Reading, Plain
<1>2. WP!IInv
  BY DEF AInv
<1>3. /\ Len(stack) \in Nat \ {0} /\ WP!Top = stack[Len(stack)] /\ DOMAIN stack = 1..Len(stack)
      /\ stack \in Seq(WP!Frame)
  BY <1>1, <1>2, TopFrame, Frames DEF WP!IInv, WP!TypeOK
<1>4. /\ Len(stack') = Len(stack) + 1 /\ DOMAIN stack' = 1..Len(stack) + 1
      /\ stack'[Len(stack) + 1] = WP!Program
      /\ \A k \in 1..Len(stack) : stack'[k] = stack[k]
  BY <1>1, <1>3, PushAny
<1>5. Inherited
  BY <1>1, <1>3, <1>4 DEF Inherited, WP!Program
<1>6. /\ ReadsTyped' /\ LastWrites' /\ AllHonest'
      /\ SuspendedIsLively' /\ UpToDate' /\ TicksUnread'
  BY <1>1, <1>5, UnreadKept
<1>7. Accepted' /\ Complete' /\ ReadsLater'
  BY <1>1, AnswersKept
<1> QED BY <1>6, <1>7 DEF AInv

LEMMA RunTickStep == ASSUME AInv, WP!IInv', W!RunTick, UNCHANGED <<log, reads>> PROVE AInv'
<1>1. /\ ticks # <<>> /\ stack' = <<WP!Native(Head(ticks))>> /\ ticks' = Tail(ticks)
      /\ UNCHANGED calls
  BY SameOthers DEF WP!RunTick
<1>2. ticks \in Seq(1..Len(calls)) /\ Head(ticks) = ticks[1] /\ 1 \in DOMAIN ticks
  BY <1>1, HeadTail DEF AInv, WP!IInv, WP!TypeOK
<1>3. \A k \in DOMAIN ticks' : \E j \in DOMAIN ticks : ticks'[k] = ticks[j]
  BY <1>1, <1>2
<1>4. reads[Head(ticks)].seen = <<>>
  BY <1>2 DEF AInv, TicksUnread
<1>5. Inherited
  BY <1>1, <1>4 DEF Inherited, WP!Native
<1>6. /\ ReadsTyped' /\ LastWrites' /\ AllHonest'
      /\ SuspendedIsLively' /\ UpToDate' /\ TicksUnread'
  BY <1>1, <1>3, <1>5, UnreadKept
<1>7. Accepted' /\ Complete' /\ ReadsLater'
  BY <1>1, AnswersKept
<1> QED BY <1>6, <1>7 DEF AInv

\* A step that only takes frames off the stack, or none, or puts one of the
\* program's code on an empty one.
LEMMA FramesGo ==
  ASSUME AInv, WP!IInv', UNCHANGED <<log, reads, ticks>>, DOMAIN calls' = DOMAIN calls,
         \A c \in DOMAIN calls : /\ calls'[c].async = calls[c].async
                                 /\ calls'[c].reply = calls[c].reply
                                 /\ calls'[c].outcome = calls[c].outcome,
         \A k \in DOMAIN stack' : stack'[k].at = "native" =>
           /\ k \in DOMAIN stack /\ stack[k].at = "native" /\ stack[k].call = stack'[k].call
           /\ k < Len(stack') => k < Len(stack)
  PROVE  AInv'
<1>1. Len(calls') = Len(calls)
  BY Frames DEF AInv, WP!IInv, WP!TypeOK
<1>2. Inherited
  BY DEF Inherited
<1>3. /\ ReadsTyped' /\ LastWrites' /\ AllHonest'
      /\ SuspendedIsLively' /\ UpToDate' /\ TicksUnread'
  BY <1>1, <1>2, UnreadKept
<1>4. Accepted' /\ Complete' /\ ReadsLater'
  BY AnswersKept
<1> QED BY <1>3, <1>4 DEF AInv

LEMMA RunTurnStep == ASSUME AInv, WP!IInv', W!RunTurn, UNCHANGED <<log, reads>> PROVE AInv'
<1>1. stack' = <<WP!Program>> /\ UNCHANGED <<calls, ticks>>
  BY SameOthers DEF WP!RunTurn
<1>2. \A k \in DOMAIN stack' : stack'[k].at # "native"
  BY <1>1 DEF WP!Program
<1> QED BY <1>1, <1>2, FramesGo

LEMMA NativeAbortsStep == ASSUME AInv, WP!IInv', W!NativeAborts, UNCHANGED <<log, reads>> PROVE AInv'
<1>1. UNCHANGED <<calls, ticks, stack>>
  BY SameOthers DEF WP!NativeAborts
<1> QED BY <1>1, FramesGo

LEMMA UncaughtStep ==
  ASSUME AInv, WP!IInv', stack' = <<>>, UNCHANGED <<calls, ticks, log, reads>> PROVE AInv'
BY FramesGo

LEMMA UserReturnsStep == ASSUME AInv, WP!IInv', W!UserReturns, UNCHANGED <<log, reads>> PROVE AInv'
<1>1. stack # <<>> /\ stack' = WP!Front(stack) /\ UNCHANGED <<calls, ticks>>
  BY SameOthers DEF WP!UserReturns, WP!UserCode
<1>2. /\ Len(stack) \in Nat /\ DOMAIN stack = 1..Len(stack) /\ Len(stack') = Len(stack) - 1
      /\ DOMAIN stack' = 1..Len(stack) - 1
      /\ \A k \in 1..Len(stack) - 1 : stack'[k] = stack[k]
  BY <1>1, TopFrame, Frames DEF AInv
<1>3. \A k \in DOMAIN stack' : k \in DOMAIN stack /\ k < Len(stack) /\ stack'[k] = stack[k]
  BY <1>2
<1> QED BY <1>1, <1>3, FramesGo

LEMMA GetterThrowsStep == ASSUME AInv, WP!IInv', W!GetterThrows, UNCHANGED <<log, reads>> PROVE AInv'
<1> DEFINE below == WP!Front(stack)
           n == Len(stack) - 1
<1>1. /\ stack # <<>> /\ stack' = [below EXCEPT ![Len(below)].pending = TRUE]
      /\ UNCHANGED <<calls, ticks>>
  BY SameOthers DEF WP!GetterThrows, WP!UserCode
<1>2. /\ n \in Nat /\ DOMAIN stack = 1..n + 1 /\ Len(stack) = n + 1
      /\ Len(below) = n /\ DOMAIN below = 1..n
      /\ \A k \in 1..n : below[k] = stack[k]
  BY <1>1, TopFrame, Frames DEF AInv
<1>3. \A k \in 1..n : stack[k] \in WP!Frame
  BY <1>2 DEF AInv, WP!IInv, WP!TypeOK
<1> HIDE DEF below, n
<1>4. stack' \in Seq(WP!Frame') /\ DOMAIN stack' = 1..n
  BY <1>1, <1>2 DEF WP!IInv, WP!TypeOK
<1>5. \A k \in 1..n : stack'[k].at = stack[k].at /\ stack'[k].call = stack[k].call
  BY <1>1, <1>2, <1>3 DEF WP!Frame
<1>6. \A k \in DOMAIN stack' : k \in DOMAIN stack /\ k < Len(stack)
  BY <1>2, <1>4
<1> QED BY <1>1, <1>4, <1>5, <1>6, FramesGo

LEMMA CallbackThrowsStep ==
  ASSUME AInv, WP!IInv', W!CallbackThrows, UNCHANGED <<log, reads>> PROVE AInv'
<1> DEFINE c == WP!Top.call
<1>1. stack # <<>> /\ WP!Top.at = "callback" /\ WP!CallbackThrows /\ WP!IInv
  BY SameReturns DEF WP!CallbackThrows, WP!UserCode, AInv
<1>2. CASE ~WP!Top.guarded
  BY <1>1, <1>2, UncaughtStep DEF WP!CallbackThrows, WP!Uncaught
<1>3. CASE WP!Top.guarded
  <2>0. WP!Invoke(c, calls[c].outcome, "callback") /\ UNCHANGED ticks
    BY <1>1, <1>3 DEF WP!CallbackThrows
  <2>1. /\ calls' = [calls EXCEPT ![c].outcome = calls[c].outcome,
                                  ![c].heard = Append(calls[c].heard, "callback")]
        /\ stack' = Append(WP!Front(stack), WP!Callback(c, "callback" \in {"ok", "missing"}))
        /\ UNCHANGED ticks
    BY <2>0, Zenon DEF WP!Invoke
  <2>2. Len(stack) = 1 /\ c \in DOMAIN calls
    <3>1. Len(stack) \in DOMAIN stack /\ stack[Len(stack)] = WP!Top
      BY <1>1, TopFrame
    <3>2. WP!FrameServes(Len(stack))
      BY <1>1, <3>1 DEF WP!IInv, WP!FramesServe
    <3> QED BY <1>1, <3>1, <3>2 DEF WP!FrameServes
  <2>3. calls[c] \in WP!Call
    BY <1>1, <2>2, Frames
  <2>4. /\ DOMAIN calls' = DOMAIN calls
        /\ \A d \in DOMAIN calls : /\ calls'[d].async = calls[d].async
                                   /\ calls'[d].reply = calls[d].reply
                                   /\ calls'[d].outcome = calls[d].outcome
    BY <2>1, <2>2, <2>3 DEF WP!Call
  <2>5. WP!Front(stack) = <<>>
    BY <1>1, <2>2, TopFrame
  <2>6. \A k \in DOMAIN stack' : stack'[k].at # "native"
    BY <2>1, <2>5 DEF WP!Callback
  <2> QED BY <2>1, <2>4, <2>6, FramesGo
<1> QED BY <1>2, <1>3

\* A native call that comes back: what it has read is complete if it has a
\* result, and a later call with a callback has not yet read anything.
LEMMA ReturnFacts ==
  ASSUME AInv, NEW outcome, W!NativeReturns(outcome)
  PROVE  /\ stack # <<>> /\ WP!Top.at = "native" /\ WP!Top.call \in DOMAIN calls
         /\ DOMAIN calls' = DOMAIN calls /\ UNCHANGED ticks
         /\ \A c \in DOMAIN calls : /\ calls'[c].async = calls[c].async
                                    /\ calls[c].async => calls'[c].reply = calls[c].reply
                                    /\ c # WP!Top.call => calls'[c].outcome = calls[c].outcome
         /\ calls'[WP!Top.call].outcome = outcome
         /\ \A k \in DOMAIN stack' : stack'[k].at = "native" =>
              k \in DOMAIN stack /\ k < Len(stack) /\ stack'[k] = stack[k]
<1> DEFINE c == WP!Top.call
<1>1. /\ WP!NativeReturns(outcome) /\ stack # <<>> /\ WP!Top.at = "native" /\ WP!IInv
      /\ UNCHANGED ticks
  BY SameReturns DEF WP!NativeReturns, WP!InNative, AInv
<1>2. c \in DOMAIN calls /\ calls[c] \in WP!Call
  BY <1>1, TopFrame, Frames
<1>3. /\ DOMAIN stack = 1..Len(stack) /\ Len(stack) \in Nat \ {0}
      /\ WP!Front(stack) \in Seq(WP!Frame)
      /\ Len(WP!Front(stack)) = Len(stack) - 1 /\ DOMAIN WP!Front(stack) = 1..Len(stack) - 1
      /\ \A k \in 1..Len(stack) - 1 : WP!Front(stack)[k] = stack[k]
  BY <1>1, TopFrame, Frames, BoundAssumption, WP!StackFacts DEF WP!IInv
<1>4. CASE calls[c].async
  <2> DEFINE what == WP!Heard(calls[c].op, outcome)
  <2>1. WP!Invoke(c, outcome, what)
    BY <1>1, <1>4 DEF WP!NativeReturns
  <2> HIDE DEF what, c
  <2>2. /\ calls' = [calls EXCEPT ![c].outcome = outcome, ![c].heard = Append(calls[c].heard, what)]
        /\ stack' = Append(WP!Front(stack), WP!Callback(c, what \in {"ok", "missing"}))
    BY <2>1, Zenon DEF WP!Invoke
  <2>3. /\ DOMAIN calls' = DOMAIN calls
        /\ \A d \in DOMAIN calls : /\ calls'[d].async = calls[d].async
                                   /\ calls'[d].reply = calls[d].reply
                                   /\ d # c => calls'[d].outcome = calls[d].outcome
        /\ calls'[c].outcome = outcome
    BY <1>2, <2>2 DEF WP!Call
  <2>4. ASSUME NEW k \in DOMAIN stack', stack'[k].at = "native"
        PROVE  k \in DOMAIN stack /\ k < Len(stack) /\ stack'[k] = stack[k]
    <3> DEFINE s == WP!Front(stack)
               x == WP!Callback(c, what \in {"ok", "missing"})
    <3>1. x.at = "callback"
      BY DEF WP!Callback
    <3>2. /\ Len(s) \in Nat /\ DOMAIN stack' = 1..Len(s) + 1 /\ stack'[Len(s) + 1] = x
          /\ \A j \in 1..Len(s) : stack'[j] = s[j]
      <4> HIDE DEF s, x
      <4>1. s \in Seq(WP!Frame) /\ stack' = Append(s, x)
        BY <1>3, <2>2 DEF s, x
      <4> QED BY <4>1, PushAny
    <3>3. k \in 1..Len(stack) - 1
      BY <1>3, <2>4, <3>1, <3>2
    <3> QED BY <1>3, <3>2, <3>3
  <2>5. WP!Top.call = c
    BY DEF c
  <2> QED BY <1>1, <1>2, <2>3, <2>4, <2>5
<1>5. CASE ~calls[c].async
  <2>1. /\ calls' = [calls EXCEPT ![c].outcome = outcome, ![c].reply = WP!Reply(outcome)]
        /\ stack' = WP!Front(stack)
    BY <1>1, <1>5 DEF WP!NativeReturns
  <2>2. /\ DOMAIN calls' = DOMAIN calls
        /\ \A d \in DOMAIN calls : /\ calls'[d].async = calls[d].async
                                   /\ d # c => calls'[d].reply = calls[d].reply
                                   /\ d # c => calls'[d].outcome = calls[d].outcome
        /\ calls'[c].outcome = outcome
    BY <1>2, <2>1 DEF WP!Call
  <2>3. \A k \in DOMAIN stack' : k \in DOMAIN stack /\ k < Len(stack) /\ stack'[k] = stack[k]
    BY <1>3, <2>1
  <2> QED BY <1>1, <1>2, <1>5, <2>2, <2>3
<1> QED BY <1>4, <1>5

\* The calls with callbacks made after the one that runs wait, unread.
LEMMA LaterUnread ==
  ASSUME AInv, stack # <<>>, WP!Top.at = "native", calls[WP!Top.call].async,
         NEW d \in DOMAIN calls, WP!Top.call < d, calls[d].async
  PROVE  reads[d].seen = <<>>
<1> DEFINE c == WP!Top.call
<1>1. WP!IInv
  BY DEF AInv
<1>2. WP!Fresh(c) /\ c \in DOMAIN calls /\ Len(stack) = 1 /\ stack[1] = WP!Top
  BY <1>1, TopFrame, Frames
<1>3. calls[c].reply = "none" /\ calls[d].reply = "none"
  BY <1>2 DEF AInv, Accepted
<1>4. WP!Waiting(c)
  BY <1>2, <1>3 DEF WP!Fresh, WP!Waiting
<1>5. calls[d].heard = <<>>
  <2>1. c \in 1..d - 1
    BY <1>1, <1>2, Frames
  <2> QED BY <1>1, <1>4, <2>1 DEF WP!IInv, WP!InOrder
<1>6. WP!Waiting(d)
  BY <1>3, <1>5 DEF WP!Waiting
<1>7. \/ \E k \in DOMAIN ticks : ticks[k] = d
      \/ \E j \in DOMAIN stack : stack[j].at = "native" /\ stack[j].call = d
  BY <1>1, <1>6 DEF WP!IInv, WP!WaitingKept
<1>8. ASSUME NEW j \in DOMAIN stack, stack[j].at = "native", stack[j].call = d  PROVE FALSE
  <2>1. j = 1
    BY <1>1, <1>2, <1>8, Frames
  <2>2. d = c
    BY <1>2, <1>8, <2>1
  <2> QED BY <1>1, <1>2, <2>2, Frames
<1> QED BY <1>7, <1>8 DEF AInv, TicksUnread

LEMMA NativeReturnsStep ==
  ASSUME AInv, WP!IInv', NEW outcome, NativeReturns(outcome) PROVE AInv'
<1> DEFINE c == WP!Top.call
<1>1. W!NativeReturns(outcome) /\ UNCHANGED <<log, reads>>
  BY DEF NativeReturns
<1>2. /\ stack # <<>> /\ WP!Top.at = "native" /\ c \in DOMAIN calls
      /\ DOMAIN calls' = DOMAIN calls /\ UNCHANGED ticks
      /\ \A d \in DOMAIN calls : /\ calls'[d].async = calls[d].async
                                 /\ calls[d].async => calls'[d].reply = calls[d].reply
                                 /\ d # c => calls'[d].outcome = calls[d].outcome
      /\ calls'[c].outcome = outcome
      /\ \A k \in DOMAIN stack' : stack'[k].at = "native" =>
           k \in DOMAIN stack /\ k < Len(stack) /\ stack'[k] = stack[k]
  BY <1>1, ReturnFacts
<1>3. /\ ReadsTyped' /\ LastWrites' /\ AllHonest'
      /\ SuspendedIsLively' /\ UpToDate' /\ TicksUnread'
  <2>1. Inherited
    BY <1>2 DEF Inherited
  <2>2. Len(calls') = Len(calls)
    BY <1>2, Frames DEF AInv, WP!IInv, WP!TypeOK
  <2> QED BY <1>1, <1>2, <2>1, <2>2, UnreadKept
<1>4. Accepted'
  BY <1>2 DEF AInv, Accepted
<1>5. outcome = "value" => Len(reads[c].seen) = FieldCount
  <2>1. reads[c].seen \in Seq(Nat) /\ Honest(c)
    <3>1. c \in DOMAIN reads /\ reads[c].seen \in Seq(Nat)
      BY <1>2, ReadsOf DEF AInv
    <3> QED BY <3>1 DEF AInv, AllHonest
  <2>2. Len(reads[c].seen) <= FieldCount /\ Len(reads[c].seen) \in Nat
    BY <2>1 DEF Honest, HonestRead
  <2>3. outcome = "value" => Len(reads[c].seen) + 1 > FieldCount
    BY <1>1, SameFrames DEF NativeReturns, Field, Reading
  <2> QED BY <2>2, <2>3, ObjectAssumption
<1>6. Complete'
  BY <1>1, <1>2, <1>5 DEF AInv, Complete, Succeeded
<1>7. ReadsLater'
  <2>1. ASSUME NEW b \in DOMAIN calls, NEW d \in DOMAIN calls, b < d,
               calls[b].async, calls[d].async, reads[b].object = reads[d].object,
               calls'[b].outcome = "value", NEW f \in 1..Len(reads[d].seen)
        PROVE  reads[b].seen[f] <= reads[d].seen[f]
    <3>1. CASE b = c
      <4>1. reads[d].seen = <<>>
        BY <1>2, <2>1, <3>1, LaterUnread
      <4> QED BY <4>1
    <3>2. CASE b # c
      BY <1>2, <2>1, <3>2 DEF AInv, ReadsLater, Succeeded
    <3> QED BY <3>1, <3>2
  <2> QED BY <1>1, <1>2, <2>1 DEF ReadsLater, Succeeded
<1> QED BY <1>3, <1>4, <1>6, <1>7 DEF AInv

----------------------------------------------------------------------------
(* Calls, writes and reads.                                                *)

\* A call that is added has read nothing.
LEMMA CallFacts ==
  ASSUME AInv, WP!IInv', NEW op \in W!Ops, NEW o \in Objects, Call(op, o)
  PROVE  LET n == Len(calls) + 1
         IN /\ n \in Nat /\ n \notin DOMAIN calls /\ DOMAIN calls' = DOMAIN calls \cup {n}
            /\ DOMAIN reads = DOMAIN calls /\ DOMAIN reads' = DOMAIN calls'
            /\ \A c \in DOMAIN calls : calls'[c] = calls[c] /\ reads'[c] = reads[c] /\ c < n
            /\ calls'[n].outcome = "none" /\ calls'[n].reply = "none"
            /\ reads'[n] = Arguments(o) /\ ReadsTyped' /\ UNCHANGED log
<1> DEFINE n == Len(calls) + 1
<1>1. /\ reads' = Append(reads, Arguments(o)) /\ UNCHANGED log
      /\ \E async \in BOOLEAN : calls' = Append(calls, WP!NewCall(op, async, "none"))
  BY SameCalls DEF Call, WP!CallSync, WP!CallAsync
<1>2. /\ calls \in Seq(WP!Call) /\ Len(calls) \in Nat /\ DOMAIN calls = 1..Len(calls)
  BY Frames DEF AInv
<1>3. /\ DOMAIN calls' = 1..n /\ Len(calls') = n
      /\ \A c \in DOMAIN calls : calls'[c] = calls[c]
      /\ calls'[n].outcome = "none" /\ calls'[n].reply = "none"
  <2>1. PICK async \in BOOLEAN : calls' = Append(calls, WP!NewCall(op, async, "none"))
    BY <1>1
  <2> DEFINE x == WP!NewCall(op, async, "none")
  <2>2. x.outcome = "none" /\ x.reply = "none"
    BY DEF WP!NewCall
  <2> HIDE DEF x
  <2>3. calls' = Append(calls, x)
    BY <2>1 DEF x
  <2>4. /\ Len(calls') = Len(calls) + 1 /\ DOMAIN calls' = 1..Len(calls) + 1
        /\ calls'[Len(calls) + 1] = x /\ \A c \in 1..Len(calls) : calls'[c] = calls[c]
    BY <1>2, <2>3, PushAny
  <2> QED BY <1>2, <2>2, <2>4
<1>4. log \in Seq([object : Objects, field : Fields]) /\ reads \in Seq(Reads)
      /\ Len(reads) = Len(calls) /\ Now \in Nat
  BY DEF AInv, ReadsTyped, Now
<1>5. Arguments(o) \in Reads
  BY <1>4 DEF Arguments, Reads
<1>6. /\ reads' \in Seq(Reads) /\ Len(reads') = n /\ DOMAIN reads' = 1..n
      /\ DOMAIN reads = 1..Len(calls)
      /\ \A c \in DOMAIN calls : reads'[c] = reads[c]
      /\ reads'[n] = Arguments(o)
  <2> HIDE DEF Arguments
  <2> QED BY <1>1, <1>2, <1>4, <1>5, Push
<1>7. ReadsTyped'
  BY <1>1, <1>3, <1>4, <1>6 DEF ReadsTyped, Reads, Fields
<1>8. DOMAIN calls' = DOMAIN calls \cup {n} /\ \A c \in DOMAIN calls : c < n
  BY <1>2, <1>3
<1> QED BY <1>1, <1>2, <1>3, <1>6, <1>7, <1>8

LEMMA CallFrames ==
  ASSUME AInv, NEW op \in W!Ops, NEW o \in Objects, Call(op, o)
  PROVE  /\ \A k \in DOMAIN stack' : stack'[k].at = "native" =>
              \/ stack'[k].call = Len(calls) + 1 /\ k = Len(stack')
              \/ k \in DOMAIN stack /\ k < Len(stack) /\ stack'[k] = stack[k]
         /\ \A k \in DOMAIN ticks' :
              \/ ticks'[k] = Len(calls) + 1
              \/ k \in DOMAIN ticks /\ ticks'[k] = ticks[k]
<1>1. /\ stack # <<>> /\ WP!Top.at # "native"
      /\ WP!CallSync(op) \/ WP!CallAsync(op)
  BY SameCalls DEF Call, WP!CallSync, WP!CallAsync, WP!UserCode
<1>2. /\ stack \in Seq(WP!Frame) /\ Len(stack) \in Nat \ {0} /\ DOMAIN stack = 1..Len(stack)
      /\ stack[Len(stack)].at # "native" /\ ticks \in Seq(1..Len(calls))
  BY <1>1, TopFrame, Frames DEF AInv, WP!IInv, WP!TypeOK
<1>3. CASE WP!CallSync(op)
  <2> DEFINE x == WP!Native(Len(calls) + 1)
  <2>1. x.call = Len(calls) + 1
    BY DEF WP!Native
  <2> HIDE DEF x
  <2>2. stack' = Append(stack, x) /\ UNCHANGED ticks
    BY <1>3 DEF WP!CallSync, x
  <2>3. /\ Len(stack') = Len(stack) + 1 /\ DOMAIN stack' = 1..Len(stack) + 1
        /\ stack'[Len(stack) + 1] = x /\ \A k \in 1..Len(stack) : stack'[k] = stack[k]
    BY <1>2, <2>2, PushAny
  <2> QED BY <1>2, <2>1, <2>2, <2>3
<1>4. CASE WP!CallAsync(op)
  <2>1. ticks' = Append(ticks, Len(calls) + 1) /\ UNCHANGED stack
    BY <1>4 DEF WP!CallAsync, WP!Defer
  <2>2. \A k \in DOMAIN ticks' :
              \/ ticks'[k] = Len(calls) + 1
              \/ k \in DOMAIN ticks /\ ticks'[k] = ticks[k]
    BY <1>2, <2>1
  <2> QED BY <1>2, <2>1, <2>2
<1> QED BY <1>1, <1>3, <1>4

LEMMA CallStep ==
  ASSUME AInv, WP!IInv', NEW op \in W!Ops, NEW o \in Objects, Call(op, o)
  PROVE  AInv'
<1>1. PICK n : n = Len(calls) + 1
  OBVIOUS
<1>2. /\ n \in Nat /\ n \notin DOMAIN calls /\ DOMAIN calls' = DOMAIN calls \cup {n}
      /\ DOMAIN reads = DOMAIN calls /\ DOMAIN reads' = DOMAIN calls'
      /\ \A c \in DOMAIN calls : calls'[c] = calls[c] /\ reads'[c] = reads[c] /\ c < n
      /\ calls'[n].outcome = "none" /\ calls'[n].reply = "none"
      /\ reads'[n] = Arguments(o) /\ ReadsTyped' /\ UNCHANGED log
  BY <1>1, CallFacts
<1>3. /\ \A k \in DOMAIN stack' : stack'[k].at = "native" =>
           \/ stack'[k].call = n /\ k = Len(stack')
           \/ k \in DOMAIN stack /\ k < Len(stack) /\ stack'[k] = stack[k]
      /\ \A k \in DOMAIN ticks' :
           \/ ticks'[k] = n
           \/ k \in DOMAIN ticks /\ ticks'[k] = ticks[k]
  BY <1>1, CallFrames
<1>4. /\ \A k \in DOMAIN stack : stack[k].at = "native" => stack[k].call \in DOMAIN calls
      /\ \A k \in DOMAIN ticks : ticks[k] \in DOMAIN calls
  BY Frames DEF AInv
<1>5. reads'[n].seen = <<>> /\ reads'[n].made = Now /\ reads'[n].object = o
  BY <1>2 DEF Arguments
<1>6. Now' = Now /\ Now \in Nat
  BY <1>2 DEF Now, AInv, ReadsTyped
<1>7. LastWrites'
  BY <1>2 DEF AInv, LastWrites
<1>8. AllHonest'
  <2>1. ASSUME NEW c \in DOMAIN calls  PROVE Honest(c)'
    <3>1. Honest(c)
      BY <1>2 DEF AInv, AllHonest
    <3> QED BY <1>2, <3>1 DEF Honest
  <2>2. Honest(n)'
    BY <1>5, <1>6, NothingRead DEF Honest, Now
  <2> QED BY <1>2, <2>1, <2>2 DEF AllHonest
<1>9. SuspendedIsLively'
  BY <1>2, <1>3, <1>4 DEF AInv, SuspendedIsLively, Plain
<1>10. UpToDate'
  <2>1. ASSUME NEW k \in DOMAIN stack', stack'[k].at = "native", Plain(stack[k].call)',
               NEW f \in 1..Len(reads'[stack'[k].call].seen)
        PROVE  reads'[stack'[k].call].seen[f] = Held(log', reads'[stack'[k].call].object, f, Now')
    <3>1. CASE stack'[k].call = n
      BY <1>5, <2>1, <3>1
    <3>2. CASE stack'[k].call # n
      <4>1. k \in DOMAIN stack /\ stack'[k] = stack[k] /\ stack[k].call \in DOMAIN calls
        BY <1>3, <1>4, <2>1, <3>2
      <4>2. reads'[stack'[k].call] = reads[stack[k].call]
        BY <1>2, <4>1
      <4>3. Plain(stack[k].call)
        BY <2>1, <4>1, <4>2 DEF Plain
      <4> QED BY <1>2, <1>6, <2>1, <4>1, <4>2, <4>3 DEF AInv, UpToDate
    <3> QED BY <3>1, <3>2
  <2> QED BY <2>1 DEF UpToDate
<1>11. TicksUnread'
  BY <1>2, <1>3, <1>4, <1>5 DEF AInv, TicksUnread
<1>12. Accepted'
  BY <1>2 DEF AInv, Accepted
<1>13. Complete'
  BY <1>2 DEF AInv, Complete, Succeeded
<1>14. ReadsLater'
  <2>1. ASSUME NEW c \in DOMAIN calls', NEW d \in DOMAIN calls', c < d,
               calls'[c].async, calls'[d].async, reads'[c].object = reads'[d].object,
               calls'[c].outcome = "value", NEW f \in 1..Len(reads'[d].seen)
        PROVE  reads'[c].seen[f] <= reads'[d].seen[f]
    <3>1. c # n /\ d # n
      BY <1>2, <1>5, <2>1
    <3> QED BY <1>2, <2>1, <3>1 DEF AInv, ReadsLater, Succeeded
  <2> QED BY <2>1 DEF ReadsLater, Succeeded
<1> QED BY <1>2, <1>7, <1>8, <1>9, <1>10, <1>11, <1>12, <1>13, <1>14 DEF AInv

\* While code of the program runs, no native call of a plain object is under
\* way, and what others have read stays what they found.
LEMMA WriteStep ==
  ASSUME AInv, WP!IInv', NEW o \in Objects, NEW f \in Fields, Write(o, f) PROVE AInv'
<1> DEFINE w == [object |-> o, field |-> f]
<1>1. /\ stack # <<>> /\ WP!Top.at # "native" /\ log' = Append(log, w)
      /\ UNCHANGED <<calls, ticks, stack, reads>>
  BY SameFrames DEF Write, WP!UserCode, wrapper
<1>2. log \in Seq([object : Objects, field : Fields]) /\ w \in [object : Objects, field : Fields]
  BY DEF AInv, ReadsTyped
<1> HIDE DEF w
<1>3. ReadsTyped'
  BY <1>1, <1>2 DEF AInv, ReadsTyped, Reads, Fields
<1>4. LastWrites'
  BY <1>1, <1>2, LastWrittenKept DEF AInv, LastWrites
<1>5. AllHonest'
  <2>1. ASSUME NEW c \in DOMAIN reads  PROVE Honest(c)'
    <3>1. reads[c] \in Reads
      BY DEF AInv, ReadsTyped
    <3>2. HonestRead(reads[c], log)
      BY DEF AInv, AllHonest, Honest
    <3>3. HonestRead(reads[c], Append(log, w))
      BY <1>2, <3>1, <3>2, OneMoreWritten
    <3> QED BY <1>1, <3>3 DEF Honest
  <2> QED BY <1>1, <2>1 DEF AllHonest
<1>6. SuspendedIsLively'
  BY <1>1 DEF AInv, SuspendedIsLively, Plain
<1>7. \A k \in DOMAIN stack : stack[k].at = "native" => ~Plain(stack[k].call)
  <2>1. /\ Len(stack) \in Nat /\ DOMAIN stack = 1..Len(stack)
        /\ stack[Len(stack)].at # "native"
    BY <1>1, TopFrame, Frames DEF AInv
  <2> QED BY <2>1 DEF AInv, SuspendedIsLively
<1>8. UpToDate'
  BY <1>1, <1>7 DEF UpToDate, Plain
<1>9. TicksUnread' /\ Accepted' /\ Complete' /\ ReadsLater'
  BY <1>1 DEF AInv, TicksUnread, Accepted, Complete, ReadsLater, Succeeded
<1> QED BY <1>3, <1>4, <1>5, <1>6, <1>8, <1>9 DEF AInv

\* The call that runs reads its next field.
LEMMA ReadFacts ==
  ASSUME AInv, ReadField
  PROVE  LET c == WP!Top.call
             r == reads[c]
             n == Len(r.seen)
         IN /\ stack # <<>> /\ stack[Len(stack)].at = "native" /\ stack[Len(stack)].call = c
            /\ c \in DOMAIN calls /\ r \in Reads /\ r.seen \in Seq(Nat)
            /\ n \in Nat /\ n + 1 \in Fields /\ Now \in Nat
            /\ DOMAIN reads' = DOMAIN reads /\ DOMAIN reads = DOMAIN calls
            /\ reads' \in Seq(Reads) /\ Len(reads') = Len(reads)
            /\ \A d \in DOMAIN calls : d # c => reads'[d] = reads[d]
            /\ reads'[c] \in Reads
            /\ reads'[c].object = r.object /\ reads'[c].made = r.made
            /\ reads'[c].seen = Append(r.seen, Held(log, r.object, n + 1, Now))
            /\ UNCHANGED <<calls, ticks, stack, log>>
<1>1. PICK c : c = WP!Top.call
  OBVIOUS
<1>2. PICK r : r = reads[c]
  OBVIOUS
<1>3. PICK n : n = Len(r.seen)
  OBVIOUS
<1>4. /\ stack # <<>> /\ WP!Top.at = "native" /\ UNCHANGED <<calls, ticks, stack, log>>
      /\ n + 1 <= FieldCount
      /\ reads' = [reads EXCEPT ![c].seen = Append(@, Content(r.object, n + 1, Now))]
  BY <1>1, <1>2, <1>3, SameFrames DEF ReadField, WP!InNative, wrapper, Reading, Field
<1>5. stack[Len(stack)] = WP!Top /\ c \in DOMAIN calls
  BY <1>1, <1>4, TopFrame, Frames DEF AInv
<1>6. /\ c \in DOMAIN reads /\ r \in Reads /\ r.object \in Objects /\ r.seen \in Seq(Nat)
      /\ reads \in Seq(Reads) /\ DOMAIN reads = DOMAIN calls /\ Now \in Nat
      /\ n \in Nat
  BY <1>2, <1>3, <1>5, ReadsOf, Frames DEF AInv
<1>7. n + 1 \in Fields
  BY <1>4, <1>6, ObjectAssumption DEF Fields
<1>8. PICK h : h = Held(log, r.object, n + 1, Now)
  OBVIOUS
<1>9. h \in Nat
  <2>1. LastWritten(log) /\ Now \in 0..Len(log)
    BY <1>6 DEF AInv, LastWrites, Now
  <2>2. h \in 0..Now
    BY <1>6, <1>7, <1>8, <2>1, HeldFacts
  <2> QED BY <1>6, <2>2
<1>10. reads' = [reads EXCEPT ![c] = [r EXCEPT !.seen = Append(r.seen, h)]]
  BY <1>2, <1>4, <1>6, <1>8, ContentIsHeld
<1>11. Append(r.seen, h) \in Seq(Nat)
  BY <1>6, <1>9
<1>12. PICK seen : seen = Append(r.seen, h)
  OBVIOUS
<1>13. PICK s : s = [r EXCEPT !.seen = seen]
  OBVIOUS
<1>14. s \in Reads /\ s.object = r.object /\ s.made = r.made /\ s.seen = seen
  BY <1>6, <1>11, <1>12, <1>13 DEF Reads
<1>15. reads' = [reads EXCEPT ![c] = s]
  BY <1>10, <1>12, <1>13
<1>16. /\ DOMAIN reads' = DOMAIN reads /\ reads' \in Seq(Reads) /\ Len(reads') = Len(reads)
       /\ reads'[c] = s /\ \A d \in DOMAIN calls : d # c => reads'[d] = reads[d]
  BY <1>6, <1>14, <1>15
<1> QED BY <1>1, <1>2, <1>3, <1>4, <1>5, <1>6, <1>7, <1>8, <1>12, <1>14, <1>16

LEMMA ReadFieldStep == ASSUME AInv, WP!IInv', ReadField PROVE AInv'
<1>1. PICK c : c = WP!Top.call
  OBVIOUS
<1>2. PICK r : r = reads[c]
  OBVIOUS
<1>3. PICK s : s = reads'[c]
  OBVIOUS
<1>4. PICK n : n = Len(r.seen)
  OBVIOUS
<1>5. PICK h : h = Held(log, r.object, n + 1, Now)
  OBVIOUS
<1>6. /\ stack # <<>> /\ stack[Len(stack)].at = "native" /\ stack[Len(stack)].call = c
      /\ c \in DOMAIN calls /\ r \in Reads /\ r.seen \in Seq(Nat)
      /\ n \in Nat /\ n + 1 \in Fields /\ Now \in Nat
      /\ DOMAIN reads' = DOMAIN reads /\ DOMAIN reads = DOMAIN calls
      /\ reads' \in Seq(Reads) /\ Len(reads') = Len(reads)
      /\ \A d \in DOMAIN calls : d # c => reads'[d] = reads[d]
      /\ s \in Reads /\ s.object = r.object /\ s.made = r.made
      /\ s.seen = Append(r.seen, h)
      /\ UNCHANGED <<calls, ticks, stack, log>>
  BY <1>1, <1>2, <1>3, <1>4, <1>5, ReadFacts
<1>7. /\ Len(s.seen) = n + 1 /\ s.seen[n + 1] = h
      /\ \A f \in 1..n : s.seen[f] = r.seen[f]
  BY <1>4, <1>6, PushAny
<1>8. \A d \in DOMAIN calls : reads'[d].object = reads[d].object
  BY <1>2, <1>3, <1>6
<1>9. /\ Len(stack) \in Nat /\ DOMAIN stack = 1..Len(stack)
      /\ WP!Fresh(c)
      /\ \A k \in DOMAIN stack : stack[k].at = "native" =>
           /\ stack[k].call \in DOMAIN calls
           /\ stack[k].call = c => k = Len(stack)
      /\ \A k \in DOMAIN ticks : ticks[k] # c /\ ticks[k] \in DOMAIN calls
  <2>1. WP!IInv /\ Len(stack) \in DOMAIN stack
    BY <1>6, TopFrame DEF AInv
  <2>2. \A k \in DOMAIN ticks : ticks[k] # c
    <3>1. CASE calls[c].async
      BY <1>6, <2>1, <3>1 DEF WP!IInv, WP!TicksLater, WP!TypeOK
    <3>2. CASE ~calls[c].async
      BY <2>1, <3>2 DEF WP!IInv, WP!TicksFresh
    <3> QED BY <3>1, <3>2
  <2> QED BY <1>6, <2>1, <2>2, Frames, SMTT(30)
<1>10. ReadsTyped'
  BY <1>6 DEF AInv, ReadsTyped, Reads, Fields
<1>11. LastWrites'
  BY <1>6 DEF AInv, LastWrites
<1>12. HonestRead(s, log)
  <2>1. HonestRead(r, log)
    BY <1>2, <1>6 DEF AInv, AllHonest, Honest
  <2>2. Len(log) \in Nat /\ Len(r.seen) < FieldCount
    BY <1>4, <1>6, ObjectAssumption DEF Now, Fields
  <2> QED BY <1>4, <1>5, <1>6, <2>1, <2>2, OneMoreRead DEF Now
<1>13. AllHonest'
  BY <1>3, <1>6, <1>12 DEF AInv, AllHonest, Honest
<1>14. SuspendedIsLively'
  BY <1>6, <1>8, <1>9 DEF AInv, SuspendedIsLively, Plain
<1>15. UpToDate'
  <2>1. ASSUME NEW k \in DOMAIN stack, stack[k].at = "native", Plain(stack[k].call)',
               NEW f \in 1..Len(reads'[stack[k].call].seen)
        PROVE  reads'[stack[k].call].seen[f] = Held(log, reads'[stack[k].call].object, f, Now)
    <3>1. stack[k].call \in DOMAIN calls /\ Plain(stack[k].call)
      BY <1>6, <1>8, <1>9, <2>1 DEF Plain
    <3>2. CASE stack[k].call # c
      BY <1>6, <2>1, <3>1, <3>2 DEF AInv, UpToDate
    <3>3. CASE stack[k].call = c
      <4>1. CASE f = n + 1
        BY <1>3, <1>5, <1>6, <1>7, <3>3, <4>1
      <4>2. CASE f # n + 1
        <5>1. f \in 1..n
          BY <1>3, <1>6, <1>7, <2>1, <3>3, <4>2
        <5>2. r.seen[f] = Held(log, r.object, f, Now)
          BY <1>2, <1>4, <2>1, <3>1, <3>3, <5>1 DEF AInv, UpToDate
        <5> QED BY <1>3, <1>6, <1>7, <3>3, <5>1, <5>2
      <4> QED BY <4>1, <4>2
    <3> QED BY <3>2, <3>3
  <2> QED BY <1>6, <2>1 DEF UpToDate, Now
<1>16. TicksUnread'
  BY <1>6, <1>9 DEF AInv, TicksUnread
<1>17. Accepted'
  BY <1>6 DEF AInv, Accepted
<1>18. Complete'
  BY <1>6, <1>9 DEF AInv, Complete, Succeeded, WP!Fresh
<1>19. ReadsLater'
  <2>1. ASSUME NEW b \in DOMAIN calls, NEW d \in DOMAIN calls, b < d,
               calls[b].async, calls[d].async, reads'[b].object = reads'[d].object,
               calls[b].outcome = "value", NEW f \in 1..Len(reads'[d].seen)
        PROVE  reads'[b].seen[f] <= reads'[d].seen[f]
    <3>1. b # c /\ reads'[b] = reads[b] /\ reads[b].object = reads[d].object
      BY <1>6, <1>8, <1>9, <2>1 DEF WP!Fresh
    <3>2. \A e \in 1..Len(reads[d].seen) : reads[b].seen[e] <= reads[d].seen[e]
      BY <2>1, <3>1 DEF AInv, ReadsLater, Succeeded
    <3>3. CASE d # c
      BY <1>6, <2>1, <3>1, <3>2, <3>3
    <3>4. CASE d = c /\ f # n + 1
      <4>1. f \in 1..n
        BY <1>3, <1>6, <1>7, <2>1, <3>4
      <4> QED BY <1>2, <1>3, <1>4, <1>7, <3>1, <3>2, <3>4, <4>1
    <3>5. CASE d = c /\ f = n + 1
      <4>1. Len(reads[b].seen) = FieldCount /\ HonestRead(reads[b], log)
        BY <1>6, <2>1 DEF AInv, Complete, Succeeded, AllHonest, Honest
      <4>2. f \in 1..FieldCount /\ f \in Fields
        BY <1>6, <3>5 DEF Fields
      <4>3. PICK times \in [1..FieldCount -> reads[b].made..Len(log)] :
              \A e \in 1..FieldCount : reads[b].seen[e] = Held(log, reads[b].object, e, times[e])
        BY <4>1 DEF HonestRead
      <4>4. reads[b].made \in Nat /\ r.object \in Objects /\ reads[b].object = r.object
        BY <1>2, <1>6, <2>1, <3>1, <3>5, ReadsOf DEF AInv
      <4>5. times[f] \in 0..Len(log) /\ times[f] <= Len(log) /\ Len(log) \in 0..Len(log)
        BY <1>6, <4>2, <4>3, <4>4, SMTT(30) DEF Now
      <4>6. LastWritten(log) /\ Len(log) \in Nat
        BY <1>6 DEF AInv, LastWrites, Now
      <4>7. Held(log, r.object, f, times[f]) <= Held(log, r.object, f, Len(log))
        BY <4>2, <4>4, <4>5, <4>6, HeldGrows
      <4>8. reads[b].seen[f] = Held(log, r.object, f, times[f])
        BY <4>2, <4>3, <4>4
      <4>9. reads'[d].seen[f] = Held(log, r.object, f, Len(log))
        BY <1>3, <1>5, <1>7, <3>5 DEF Now
      <4> QED BY <3>1, <4>7, <4>8, <4>9
    <3> QED BY <3>3, <3>4, <3>5
  <2> QED BY <1>6, <2>1 DEF ReadsLater, Succeeded
<1> QED BY <1>10, <1>11, <1>13, <1>14, <1>15, <1>16, <1>17, <1>18, <1>19 DEF AInv

----------------------------------------------------------------------------
(* The invariant is inductive.                                             *)

LEMMA InitAInv == Init => AInv
<1> SUFFICES ASSUME Init  PROVE AInv
  OBVIOUS
<1>1. WP!IInv
  BY WrapperInvariant
<1>2. calls = <<>> /\ ticks = <<>> /\ stack = <<>> /\ log = <<>> /\ reads = <<>>
  BY DEF Init, W!Init
<1>3. ReadsTyped
  BY <1>2 DEF ReadsTyped
<1>4. LastWrites
  BY <1>2 DEF LastWrites, LastWritten
<1>5. AllHonest /\ SuspendedIsLively /\ UpToDate /\ TicksUnread
  BY <1>2 DEF AllHonest, SuspendedIsLively, UpToDate, TicksUnread
<1>6. Accepted /\ Complete /\ ReadsLater
  BY <1>2 DEF Accepted, Complete, ReadsLater
<1> QED BY <1>1, <1>3, <1>4, <1>5, <1>6 DEF AInv

LEMMA NextAInv == AInv /\ [Next]_vars => AInv'
<1> SUFFICES ASSUME AInv, [Next]_vars  PROVE AInv'
  OBVIOUS
<1>0. WP!IInv'
  BY WrapperInvariant DEF AInv
<1>1. ASSUME NEW op \in W!Ops, NEW o \in Objects, Call(op, o)  PROVE AInv'
  BY <1>0, <1>1, CallStep
<1>2. ASSUME NEW o \in Objects, NEW f \in Fields, Write(o, f)  PROVE AInv'
  BY <1>0, <1>2, WriteStep
<1>3. CASE ReadField
  BY <1>0, <1>3, ReadFieldStep
<1>4. CASE EnterGetter
  BY <1>0, <1>4, EnterGetterStep
<1>5. ASSUME NEW outcome \in W!Outcomes("serialize"), NativeReturns(outcome)  PROVE AInv'
  BY <1>0, <1>5, NativeReturnsStep
<1>6. CASE Elsewhere
  <2>1. UNCHANGED <<log, reads>>
    BY <1>6 DEF Elsewhere
  <2>2. CASE W!NativeAborts
    BY <1>0, <2>1, <2>2, NativeAbortsStep
  <2>3. CASE W!UserReturns
    BY <1>0, <2>1, <2>3, UserReturnsStep
  <2>4. CASE W!GetterThrows
    BY <1>0, <2>1, <2>4, GetterThrowsStep
  <2>5. CASE W!TurnThrows
    <3>1. stack' = <<>> /\ UNCHANGED <<calls, ticks>>
      BY <2>5 DEF W!TurnThrows, W!Uncaught
    <3> QED BY <1>0, <2>1, <3>1, UncaughtStep
  <2>6. CASE W!CallbackThrows
    BY <1>0, <2>1, <2>6, CallbackThrowsStep
  <2>7. CASE W!RunTick
    BY <1>0, <2>1, <2>7, RunTickStep
  <2>8. CASE W!RunTurn
    BY <1>0, <2>1, <2>8, RunTurnStep
  <2> QED BY <1>6, <2>2, <2>3, <2>4, <2>5, <2>6, <2>7, <2>8 DEF Elsewhere, W!UserEnds
<1>7. CASE UNCHANGED vars
  <2>1. UNCHANGED <<calls, ticks, stack, log, reads>>
    BY <1>7 DEF vars, wrapper
  <2>2. \A k \in DOMAIN stack : k < Len(stack') => k < Len(stack)
    BY <2>1
  <2> QED BY <1>0, <2>1, <2>2, FramesGo
<1> QED BY <1>1, <1>2, <1>3, <1>4, <1>5, <1>6, <1>7 DEF Next

\* All of the above holds in every state.
THEOREM Invariance == Spec => []AInv
BY InitAInv, NextAInv, PTL DEF Spec

----------------------------------------------------------------------------
(* What follows.                                                           *)

\* Every call has its reads, and they are of writes that were made, however many
\* calls, fields and writes there are.
THEOREM TypeCorrect == Spec => []TypeOK
<1>1. ASSUME AInv  PROVE TypeOK
  <2>1. W!TypeOK
    BY <1>1 DEF AInv, WP!IInv, WP!TypeOK, W!TypeOK, W!Call, WP!Call, W!Frame, WP!Frame,
                W!Ops, WP!Ops, W!Outcomes, WP!Outcomes
  <2>2. DOMAIN reads = DOMAIN calls /\ Now \in Nat
    BY <1>1, Frames DEF AInv, ReadsTyped, Now
  <2>3. ASSUME NEW c \in DOMAIN reads
        PROVE  /\ reads[c].object \in Objects /\ reads[c].made \in 0..Now
               /\ Len(reads[c].seen) <= FieldCount /\ ToSet(reads[c].seen) \subseteq 0..Now
    <3>1. /\ reads[c].object \in Objects /\ reads[c].made \in Nat
          /\ reads[c].seen \in Seq(Nat) /\ Len(reads[c].seen) \in Nat
          /\ DOMAIN reads[c].seen = 1..Len(reads[c].seen)
      BY <1>1, <2>2, <2>3, ReadsOf DEF AInv
    <3>2. HonestRead(reads[c], log)
      BY <1>1 DEF AInv, AllHonest, Honest
    <3>3. PICK n : n = Len(reads[c].seen)
      OBVIOUS
    <3>4. PICK times \in [1..n -> reads[c].made..Now] :
            \A f \in 1..n : reads[c].seen[f] = Held(log, reads[c].object, f, times[f])
      BY <3>2, <3>3 DEF HonestRead, Now
    <3>5. n <= FieldCount /\ reads[c].made \in 0..Now
      BY <2>2, <3>1, <3>2, <3>3 DEF HonestRead, Now
    <3>6. ASSUME NEW f \in 1..n  PROVE reads[c].seen[f] \in 0..Now
      <4>1. f \in Fields
        BY <3>1, <3>3, <3>5, ObjectAssumption DEF Fields
      <4>2. times[f] \in 0..Now
        BY <2>2, <3>1, <3>4
      <4>3. Held(log, reads[c].object, f, times[f]) \in 0..times[f]
        BY <1>1, <3>1, <4>1, <4>2, HeldFacts DEF AInv, LastWrites, Now
      <4> QED BY <2>2, <3>4, <4>2, <4>3
    <3>7. ToSet(reads[c].seen) \subseteq 0..Now
      BY <3>1, <3>3, <3>6 DEF ToSet
    <3> QED BY <3>1, <3>3, <3>5, <3>7
  <2> QED BY <2>1, <2>2, <2>3 DEF TypeOK
<1> QED BY <1>1, Invariance, PTL

\* A result is of what an object with getters had at one moment after another
\* since the call: fields are read once, in order, and never from the past.
THEOREM FieldAfterField == Spec => []ReadsGoForward
<1>1. ASSUME AInv  PROVE ReadsGoForward
  <2>1. ASSUME NEW c \in DOMAIN calls, Succeeded(c)
        PROVE  \E times \in [Fields -> reads[c].made .. Now] :
                 \A f \in Fields :
                   /\ reads[c].seen[f] = Content(reads[c].object, f, times[f])
                   /\ \A e \in 1..f : times[e] <= times[f]
    <3>1. HonestRead(reads[c], log) /\ Len(reads[c].seen) = FieldCount
      BY <1>1, <2>1, ReadsOf DEF AInv, AllHonest, Honest, Complete
    <3>2. PICK times \in [Fields -> reads[c].made..Now] :
            \A f \in Fields :
              /\ reads[c].seen[f] = Held(log, reads[c].object, f, times[f])
              /\ \A e \in 1..f : times[e] <= times[f]
      BY <3>1 DEF HonestRead, Fields, Now
    <3> QED BY <3>2, ContentIsHeld
  <2> QED BY <2>1 DEF ReadsGoForward
<1> QED BY <1>1, Invariance, PTL

\* Two calls with callbacks give their results in the order of the calls, and
\* read in that order too: no field goes back from the one to the other.
THEOREM LaterNeverOlder == Spec => []LaterSeesLater
<1>1. ASSUME AInv  PROVE LaterSeesLater
  <2>1. ASSUME NEW d \in DOMAIN calls, NEW c \in 1..d - 1,
               calls[c].async, calls[d].async, reads[c].object = reads[d].object,
               Succeeded(c), Succeeded(d), NEW f \in Fields
        PROVE  reads[c].seen[f] <= reads[d].seen[f]
    <3>1. c \in DOMAIN calls /\ c < d
      BY <1>1, Frames DEF AInv
    <3>2. f \in 1..Len(reads[d].seen)
      BY <1>1, <2>1 DEF AInv, Complete, Fields
    <3> QED BY <1>1, <2>1, <3>1, <3>2 DEF AInv, ReadsLater
  <2> QED BY <2>1 DEF LaterSeesLater
<1> QED BY <1>1, Invariance, PTL

\* The result of a call is what a plain object holds when it is handed over: no
\* code of the program runs while a native call reads such an object, and what
\* ran while the call waited for its tick shows.
THEOREM ResultsAreCurrent == Spec => ResultIsCurrent
<1> DEFINE Current ==
             \A c \in DOMAIN calls :
               calls[c].outcome = "none" /\ calls'[c].outcome = "value" /\ Plain(c)
                 => reads[c].seen = Snapshot(reads[c].object, Now)
<1>1. ASSUME AInv, AInv', [Next]_vars  PROVE [Current]_vars
  <2>1. ASSUME NEW c \in DOMAIN calls,
               calls[c].outcome = "none", calls'[c].outcome = "value", Plain(c)
        PROVE  reads[c].seen = Snapshot(reads[c].object, Now)
    <3>1. PICK outcome : NativeReturns(outcome)
      <4>1. ASSUME NEW op \in W!Ops, NEW o \in Objects, Call(op, o)  PROVE FALSE
        BY <1>1, <2>1, <4>1, CallFacts DEF AInv
      <4>2. ASSUME calls' = calls  PROVE FALSE
        BY <2>1, <4>2
      <4>3. ASSUME W!CallbackThrows  PROVE FALSE
        <5>1. WP!CallbackThrows /\ WP!TypeOK /\ calls[c] \in WP!Call
          BY <1>1, <2>1, <4>3, SameReturns, Frames DEF AInv, WP!IInv
        <5>2. CASE UNCHANGED calls
          BY <2>1, <5>2
        <5>3. CASE WP!Invoke(WP!Top.call, calls[WP!Top.call].outcome, "callback")
          <6>1. PICK b : b = WP!Top.call
            OBVIOUS
          <6>2. calls' = [calls EXCEPT ![b].outcome = calls[b].outcome,
                                       ![b].heard = Append(calls[b].heard, "callback")]
            BY <5>3, <6>1, Zenon DEF WP!Invoke
          <6>3. calls'[c].outcome = calls[c].outcome
            BY <2>1, <5>1, <6>2 DEF WP!Call
          <6> QED BY <2>1, <6>3
        <5> QED BY <5>1, <5>2, <5>3 DEF WP!CallbackThrows, WP!Uncaught
      <4>4. CASE Elsewhere
        <5>1. W!NativeAborts \/ W!UserReturns \/ W!GetterThrows \/ W!TurnThrows
                \/ W!RunTick \/ W!RunTurn => calls' = calls
          BY DEF W!NativeAborts, W!UserReturns, W!GetterThrows, W!TurnThrows, W!Uncaught,
                 W!RunTick, W!RunTurn
        <5> QED BY <4>2, <4>3, <4>4, <5>1 DEF Elsewhere, W!UserEnds
      <4>5. ASSUME NEW o, NEW f, Write(o, f)  PROVE FALSE
        BY <4>2, <4>5 DEF Write, wrapper
      <4>6. CASE ReadField
        BY <4>2, <4>6 DEF ReadField, wrapper
      <4>7. CASE EnterGetter
        BY <4>2, <4>7 DEF EnterGetter, W!EnterGetter
      <4>8. CASE UNCHANGED vars
        BY <4>2, <4>8 DEF vars, wrapper
      <4> QED BY <1>1, <4>1, <4>4, <4>5, <4>6, <4>7, <4>8 DEF Next
    <3>2. /\ stack # <<>> /\ WP!Top.at = "native" /\ WP!Top.call \in DOMAIN calls
          /\ \A d \in DOMAIN calls : d # WP!Top.call => calls'[d].outcome = calls[d].outcome
          /\ UNCHANGED <<log, reads>>
      BY <1>1, <3>1, ReturnFacts DEF NativeReturns
    <3>3. c = WP!Top.call
      BY <2>1, <3>2
    <3>4. Len(stack) \in DOMAIN stack /\ stack[Len(stack)] = WP!Top
      BY <1>1, <3>2, TopFrame DEF AInv
    <3>5. \A f \in 1..Len(reads[c].seen) : reads[c].seen[f] = Held(log, reads[c].object, f, Now)
      BY <1>1, <2>1, <3>2, <3>3, <3>4 DEF AInv, UpToDate
    <3>6. Len(reads[c].seen) = FieldCount
      <4>1. c \in DOMAIN calls'
        BY <1>1, <2>1, <3>1, ReturnFacts DEF NativeReturns
      <4> QED BY <1>1, <2>1, <3>2, <4>1 DEF AInv, Complete, Succeeded
    <3>7. reads[c].seen \in Seq(Nat)
      BY <1>1, <2>1, ReadsOf DEF AInv
    <3> QED BY <3>5, <3>6, <3>7, ContentIsHeld, SMTT(30) DEF Snapshot, Fields
  <2> QED BY <2>1
<1>2. [][Current]_vars => ResultIsCurrent
  BY DEF ResultIsCurrent
<1> QED BY <1>1, <1>2, Invariance, PTL DEF Spec

=============================================================================
