--------------------------- MODULE WrapperProofs ---------------------------
(***************************************************************************)
(* Theorems of Wrapper, for every number of calls, turns and frames.       *)
(***************************************************************************)
EXTENDS Wrapper, StackLemmas

----------------------------------------------------------------------------
(* The inductive invariant.                                                *)

\* A call that is still to be made to the addon.
Fresh(c) ==
  /\ c \in DOMAIN calls
  /\ calls[c].reply = "none" /\ calls[c].outcome = "none" /\ calls[c].heard = <<>>

\* A native frame works on a fresh call, and is at the bottom of the stack
\* exactly when the call has a callback.  A callback is at the bottom; one
\* called inside the try block has been called once, with no exception of the
\* native call.
FrameServes(k) ==
  LET fr == stack[k]
  IN /\ fr.at = "native" => Fresh(fr.call) /\ (calls[fr.call].async <=> k = 1)
     /\ fr.at = "callback" =>
          /\ k = 1 /\ fr.call \in DOMAIN calls
          /\ calls[fr.call].heard # <<>>
          /\ fr.guarded => /\ Len(calls[fr.call].heard) = 1
                           /\ calls[fr.call].heard[1] \in {"ok", "missing"}
FramesServe == \A k \in DOMAIN stack : FrameServes(k)

\* No two native frames work on the same call.
FramesDistinct ==
  \A j, k \in DOMAIN stack :
    j < k /\ stack[j].at = "native" /\ stack[k].at = "native" => stack[j].call # stack[k].call

\* The queue holds fresh calls with callbacks in the order they were made, all
\* of them later than the one being run, and no waiting call is anywhere else.
TicksFresh  == \A k \in DOMAIN ticks : Fresh(ticks[k]) /\ calls[ticks[k]].async
TicksSorted == \A j, k \in DOMAIN ticks : j < k => ticks[j] < ticks[k]
TicksLater  ==
  \A j \in DOMAIN stack, k \in DOMAIN ticks :
    stack[j].at = "native" /\ calls[stack[j].call].async => stack[j].call < ticks[k]
WaitingKept ==
  \A c \in DOMAIN calls : Waiting(c) =>
    \/ \E k \in DOMAIN ticks : ticks[k] = c
    \/ \E j \in DOMAIN stack : stack[j].at = "native" /\ stack[j].call = c

\* What a callback was told first is what the native call came back with.
Told ==
  \A c \in DOMAIN calls :
    /\ calls[c].outcome = "none" => calls[c].heard = <<>>
    /\ calls[c].outcome # "none" /\ calls[c].async => calls[c].reply = "none"
    /\ calls[c].outcome # "none" /\ calls[c].reply # "none" =>
         calls[c].reply = Reply(calls[c].outcome)
    /\ calls[c].heard # <<>> =>
         /\ calls[c].async /\ calls[c].reply = "none"
         /\ calls[c].outcome \in Outcomes(calls[c].op)
         /\ calls[c].heard[1] = Heard(calls[c].op, calls[c].outcome)

IInv ==
  /\ TypeOK /\ FramesServe /\ FramesDistinct
  /\ TicksFresh /\ TicksSorted /\ TicksLater /\ WaitingKept
  /\ Told /\ OwnFaultOnly /\ InOrder

----------------------------------------------------------------------------
(* Facts about the stack and about a new call.                             *)

LEMMA StackFacts ==
  ASSUME TypeOK, stack # <<>>
  PROVE  /\ Len(stack) \in Nat \ {0}
         /\ Top = stack[Len(stack)] /\ Top \in Frame
         /\ Front(stack) \in Seq(Frame) /\ Len(Front(stack)) = Len(stack) - 1
         /\ DOMAIN Front(stack) = 1..Len(stack) - 1
         /\ \A k \in 1..Len(stack) - 1 : Front(stack)[k] = stack[k]
<1>1. stack \in Seq(Frame)
  BY DEF TypeOK
<1> QED BY <1>1, LastOfStack, FrontOfStack DEF Top

LEMMA NewCallFacts ==
  ASSUME TypeOK, NEW op \in Ops, NEW async \in BOOLEAN, NEW reply \in {"none", "throw"},
         calls' = Append(calls, NewCall(op, async, reply))
  PROVE  /\ calls' \in Seq(Call) /\ Len(calls') = Len(calls) + 1 /\ Len(calls) \in Nat
         /\ \A c \in DOMAIN calls : c \in DOMAIN calls' /\ calls'[c] = calls[c]
         /\ \A c \in DOMAIN calls' : c \in DOMAIN calls \/ c = Len(calls) + 1
         /\ calls'[Len(calls) + 1] = NewCall(op, async, reply)
BY DEF TypeOK, NewCall, Call

\* A stack stays a stack when calls are added.
LEMMA FramesGrow ==
  ASSUME calls \in Seq(Call), calls' \in Seq(Call), Len(calls) <= Len(calls')
  PROVE  /\ \A fr \in Frame : fr \in Frame'
         /\ \A s \in Seq(Frame) : s \in Seq(Frame)'
<1>1. \A fr \in Frame : fr \in Frame'
  BY DEF Frame
<1>2. ASSUME NEW s \in Seq(Frame)  PROVE s \in Seq(Frame)'
  <2>1. \A k \in 1..Len(s) : s[k] \in Frame'
    BY <1>1, <1>2
  <2> QED BY <1>2, <2>1
<1> QED BY <1>1, <1>2

\* A call that is merely added, with stack and queue as they were, disturbs
\* no part of the invariant that speaks of the others.
LEMMA CallAdded ==
  ASSUME IInv, NEW op \in Ops, NEW async \in BOOLEAN, NEW reply \in {"none", "throw"},
         calls' = Append(calls, NewCall(op, async, reply))
  PROVE  /\ calls' \in Seq(Call) /\ Len(calls') = Len(calls) + 1 /\ Len(calls) \in Nat
         /\ ticks \in Seq(1..Len(calls)) /\ ticks \in Seq(1..Len(calls'))
         /\ stack \in Seq(Frame) /\ stack \in Seq(Frame')
         /\ Told' /\ OwnFaultOnly' /\ InOrder'
<1>1. TypeOK
  BY DEF IInv
<1>2. calls' \in Seq(Call) /\ Len(calls') = Len(calls) + 1 /\ Len(calls) \in Nat
  BY <1>1, NewCallFacts
<1>3. ticks \in Seq(1..Len(calls)) /\ ticks \in Seq(1..Len(calls'))
  BY <1>1, <1>2 DEF TypeOK
<1>4. stack \in Seq(Frame) /\ stack \in Seq(Frame')
  BY <1>1, <1>2, FramesGrow DEF TypeOK
<1>5. Told'
  BY <1>1, NewCallFacts DEF IInv, Told, NewCall
<1>6. OwnFaultOnly'
  BY <1>1, NewCallFacts DEF IInv, OwnFaultOnly, NewCall
<1>7. InOrder'
  BY <1>1, NewCallFacts DEF IInv, InOrder, Waiting, NewCall
<1> QED BY <1>2, <1>3, <1>4, <1>5, <1>6, <1>7

LEMMA InitIInv == Init => IInv
BY DEF Init, IInv, TypeOK, FramesServe, FramesDistinct, TicksFresh, TicksSorted, TicksLater,
       WaitingKept, Told, OwnFaultOnly, InOrder

LEMMA CallInvalidStep ==
  ASSUME IInv, NEW op \in Ops, NEW async \in BOOLEAN, CallInvalid(op, async)
  PROVE  IInv'
<1>0. TypeOK /\ calls' = Append(calls, NewCall(op, async, "throw"))
      /\ UNCHANGED <<ticks, stack, turns, alive>>
  BY DEF IInv, CallInvalid
<1>2. TypeOK'
  BY <1>0, CallAdded DEF TypeOK
<1>3. FramesServe'
  BY <1>0, NewCallFacts DEF IInv, FramesServe, FrameServes, Fresh
<1>4. FramesDistinct'
  BY <1>0 DEF IInv, FramesDistinct
<1>5. TicksFresh'
  BY <1>0, NewCallFacts DEF IInv, TicksFresh, Fresh
<1>6. TicksSorted'
  BY <1>0 DEF IInv, TicksSorted
<1>7. TicksLater'
  BY <1>0, NewCallFacts DEF IInv, TicksLater, FramesServe, FrameServes, Fresh
<1>8. WaitingKept'
  BY <1>0, NewCallFacts DEF IInv, WaitingKept, Waiting, NewCall
<1> QED BY <1>0, <1>2, <1>3, <1>4, <1>5, <1>6, <1>7, <1>8, CallAdded DEF IInv

LEMMA CallAsyncStep ==
  ASSUME IInv, NEW op \in Ops, CallAsync(op)
  PROVE  IInv'
<1> DEFINE c == Len(calls) + 1
<1>0. TypeOK /\ calls' = Append(calls, NewCall(op, TRUE, "none"))
      /\ ticks' = Append(ticks, c) /\ UNCHANGED <<stack, turns, alive>>
  BY DEF IInv, CallAsync, Defer
<1>1. /\ ticks' \in Seq(1..Len(calls')) /\ Len(ticks) \in Nat /\ DOMAIN ticks' = 1..Len(ticks) + 1
      /\ ticks'[Len(ticks) + 1] = c /\ \A k \in DOMAIN ticks : ticks'[k] = ticks[k]
      /\ \A k \in DOMAIN ticks' : k \in DOMAIN ticks \/ k = Len(ticks) + 1
      /\ \A k \in DOMAIN ticks : ticks[k] < c /\ k < Len(ticks) + 1
  <2>1. ticks \in Seq(1..Len(calls')) /\ ticks \in Seq(1..Len(calls))
        /\ Len(calls) \in Nat /\ Len(calls') = Len(calls) + 1
    BY <1>0, CallAdded
  <2>2. c \in 1..Len(calls')
    BY <2>1
  <2> QED BY <1>0, <2>1, <2>2, Push
<1>2. TypeOK'
  BY <1>0, <1>1, CallAdded DEF TypeOK
<1>3. FramesServe'
  BY <1>0, NewCallFacts, ZenonT(40) DEF IInv, FramesServe, FrameServes, Fresh
<1>4. FramesDistinct'
  BY <1>0 DEF IInv, FramesDistinct
<1>5. TicksFresh'
  BY <1>0, <1>1, NewCallFacts DEF IInv, TicksFresh, Fresh, NewCall
<1>6. TicksSorted'
  BY <1>0, <1>1 DEF IInv, TicksSorted
<1>7. TicksLater'
  <2>1. ASSUME NEW j \in DOMAIN stack, stack[j].at = "native"
        PROVE  stack[j].call < c /\ calls'[stack[j].call] = calls[stack[j].call]
    <3>1. stack[j].call \in DOMAIN calls
      BY <2>1 DEF IInv, FramesServe, FrameServes, Fresh
    <3>2. \A d \in DOMAIN calls : d < c
      BY <1>0 DEF TypeOK
    <3> QED BY <1>0, <3>1, <3>2, NewCallFacts
  <2> QED BY <1>0, <1>1, <2>1, ZenonT(40) DEF IInv, TicksLater
<1>8. WaitingKept'
  <2>1. ASSUME NEW d \in DOMAIN calls, Waiting(d)'
        PROVE  \/ \E k \in DOMAIN ticks' : ticks'[k] = d
               \/ \E j \in DOMAIN stack' : stack'[j].at = "native" /\ stack'[j].call = d
    <3>1. Waiting(d)
      BY <1>0, <2>1, NewCallFacts DEF Waiting
    <3>2. CASE \E k \in DOMAIN ticks : ticks[k] = d
      BY <1>1, <3>2
    <3>3. CASE \E j \in DOMAIN stack : stack[j].at = "native" /\ stack[j].call = d
      BY <1>0, <3>3
    <3> QED BY <2>1, <3>1, <3>2, <3>3 DEF IInv, WaitingKept
  <2>2. \E k \in DOMAIN ticks' : ticks'[k] = c
    BY <1>1
  <2> QED BY <1>0, <2>1, <2>2, NewCallFacts DEF WaitingKept
<1> QED BY <1>0, <1>2, <1>3, <1>4, <1>5, <1>6, <1>7, <1>8, CallAdded DEF IInv

\* Code of the program that begins or ends, with every native frame and every
\* callback left in its place, disturbs nothing.
LEMMA FramesKept ==
  ASSUME IInv, UNCHANGED <<calls, ticks>>, stack' \in Seq(Frame),
         turns' \in Nat, alive' \in BOOLEAN,
         \A k \in DOMAIN stack' :
           \/ stack'[k].at = "program"
           \/ /\ k \in DOMAIN stack /\ stack'[k].at = stack[k].at
              /\ stack'[k].call = stack[k].call /\ stack'[k].guarded = stack[k].guarded,
         \A k \in DOMAIN stack : stack[k].at = "native" =>
           k \in DOMAIN stack' /\ stack'[k].at = "native" /\ stack'[k].call = stack[k].call
  PROVE  IInv'
<1>1. TypeOK'
  BY DEF IInv, TypeOK, Frame
<1>2. FramesServe'
  BY DEF IInv, FramesServe, FrameServes, Fresh
<1>3. FramesDistinct'
  BY DEF IInv, FramesDistinct
<1>4. TicksFresh' /\ TicksSorted'
  BY DEF IInv, TicksFresh, TicksSorted, Fresh
<1>5. TicksLater'
  BY DEF IInv, TicksLater
<1>6. WaitingKept'
  BY DEF IInv, WaitingKept, Waiting
<1>7. Told' /\ OwnFaultOnly' /\ InOrder'
  BY DEF IInv, Told, OwnFaultOnly, InOrder, Waiting
<1> QED BY <1>1, <1>2, <1>3, <1>4, <1>5, <1>6, <1>7 DEF IInv

LEMMA EnterGetterStep == ASSUME IInv, EnterGetter PROVE IInv'
<1>1. TypeOK /\ stack' = Append(stack, Program) /\ UNCHANGED <<calls, ticks, turns, alive>>
  BY DEF IInv, EnterGetter
<1>2. Program \in Frame /\ Program.at = "program"
  BY <1>1 DEF Program, Frame, TypeOK
<1>3. /\ stack' \in Seq(Frame) /\ DOMAIN stack' = 1..Len(stack) + 1 /\ DOMAIN stack = 1..Len(stack)
      /\ stack'[Len(stack) + 1] = Program /\ \A k \in 1..Len(stack) : stack'[k] = stack[k]
      /\ Len(stack) \in Nat
  BY <1>1, <1>2, Push DEF TypeOK
<1> QED BY <1>1, <1>2, <1>3, FramesKept DEF TypeOK

LEMMA RunTurnStep == ASSUME IInv, RunTurn PROVE IInv'
<1>1. /\ TypeOK /\ stack = <<>> /\ stack' = <<Program>> /\ UNCHANGED <<calls, ticks, alive>>
      /\ turns' = turns + 1
  BY DEF IInv, RunTurn, Idle
<1>2. Program \in Frame /\ Program.at = "program"
  BY <1>1 DEF Program, Frame, TypeOK
<1>3. stack' \in Seq(Frame) /\ \A k \in DOMAIN stack' : stack'[k].at = "program"
  BY <1>1, <1>2
<1> QED BY <1>1, <1>3, FramesKept DEF TypeOK

LEMMA UserReturnsStep == ASSUME IInv, UserReturns PROVE IInv'
<1>1. /\ TypeOK /\ stack # <<>> /\ Top.at # "native" /\ stack' = Front(stack)
      /\ UNCHANGED <<calls, ticks, turns, alive>>
  BY DEF IInv, UserReturns, UserCode
<1>2. \A k \in DOMAIN stack : k = Len(stack) \/ k \in 1..Len(stack) - 1
  BY <1>1 DEF TypeOK
<1>3. /\ stack' \in Seq(Frame) /\ DOMAIN stack' = 1..Len(stack) - 1
      /\ \A k \in 1..Len(stack) - 1 : stack'[k] = stack[k] /\ k \in DOMAIN stack
      /\ stack[Len(stack)].at # "native"
  BY <1>1, StackFacts DEF TypeOK
<1>4. turns' \in Nat /\ alive' \in BOOLEAN
  BY <1>1 DEF TypeOK
<1> QED BY <1>1, <1>2, <1>3, <1>4, FramesKept

LEMMA GetterThrowsStep == ASSUME IInv, GetterThrows PROVE IInv'
<1> DEFINE below == Front(stack)
           n == Len(stack) - 1
<1>1. /\ TypeOK /\ stack # <<>> /\ Top.at # "native" /\ Len(stack) > 1
      /\ stack' = [below EXCEPT ![Len(below)].pending = TRUE]
      /\ UNCHANGED <<calls, ticks, turns, alive>>
  BY DEF IInv, GetterThrows, UserCode
<1>2. /\ below \in Seq(Frame) /\ Len(below) = n /\ DOMAIN below = 1..n /\ n \in Nat \ {0}
      /\ \A k \in 1..n : below[k] = stack[k] /\ stack[k] \in Frame
  BY <1>1, StackFacts DEF TypeOK
<1>3. /\ DOMAIN stack' = 1..n /\ stack' \in Seq(Frame)
      /\ \A k \in 1..n : /\ stack'[k].at = stack[k].at
                         /\ stack'[k].call = stack[k].call /\ stack'[k].guarded = stack[k].guarded
  <2> HIDE DEF below, n
  <2>1. \A fr \in Frame : [fr EXCEPT !.pending = TRUE] \in Frame
    BY DEF Frame
  <2> QED BY <1>1, <1>2, <2>1 DEF Frame
<1>4. \A k \in DOMAIN stack : k = n + 1 \/ k \in 1..n
  BY <1>1 DEF TypeOK
<1> QED BY <1>1, <1>2, <1>3, <1>4, StackFacts, FramesKept DEF TypeOK

LEMMA UncaughtStep ==
  ASSUME IInv, Uncaught, stack # <<>>, Top.at # "native", Len(stack) = 1
  PROVE  IInv'
<1>1. TypeOK /\ stack' = <<>> /\ UNCHANGED <<calls, ticks, turns>> /\ alive' \in BOOLEAN
  BY DEF IInv, Uncaught
<1>2. \A k \in DOMAIN stack : stack[k].at # "native"
  BY <1>1, StackFacts DEF TypeOK
<1> QED BY <1>1, <1>2, FramesKept DEF TypeOK

LEMMA NativeAbortsStep == ASSUME IInv, NativeAborts PROVE IInv'
<1>1. TypeOK /\ UNCHANGED <<calls, ticks, stack, turns>> /\ alive' = FALSE
  BY DEF IInv, NativeAborts
<1> QED BY <1>1, FramesKept DEF TypeOK

LEMMA NativeFrame == \A c \in 0..Len(calls) : Native(c) \in Frame
BY DEF Native, Frame

LEMMA CallSyncStep ==
  ASSUME IInv, NEW op \in Ops, CallSync(op)
  PROVE  IInv'
<1> DEFINE c == Len(calls) + 1
           n == Len(stack)
<1>0. /\ TypeOK /\ calls' = Append(calls, NewCall(op, FALSE, "none")) /\ stack # <<>>
      /\ stack' = Append(stack, Native(c)) /\ UNCHANGED <<ticks, turns, alive>>
  BY DEF IInv, CallSync, UserCode
<1>1. /\ stack' \in Seq(Frame') /\ DOMAIN stack' = 1..n + 1 /\ n \in Nat \ {0}
      /\ stack'[n + 1] = Native(c) /\ \A k \in 1..n : stack'[k] = stack[k]
      /\ DOMAIN stack = 1..n
  <2>1. /\ stack \in Seq(Frame') /\ Len(calls) \in Nat /\ Len(calls') = Len(calls) + 1
    BY <1>0, CallAdded
  <2>2. Native(c) \in Frame'
    BY <2>1 DEF Native, Frame
  <2> QED BY <1>0, <2>1, <2>2, Push
<1>2. TypeOK'
  BY <1>0, <1>1, CallAdded DEF TypeOK
<1>3. FramesServe'
  <2>1. ASSUME NEW k \in 1..n  PROVE FrameServes(k)'
    <3>1. FrameServes(k) /\ stack'[k] = stack[k]
      BY <1>1 DEF IInv, FramesServe
    <3> QED BY <1>0, <3>1, NewCallFacts, ZenonT(40) DEF FrameServes, Fresh
  <2>2. ASSUME NEW k \in DOMAIN stack', k = n + 1  PROVE FrameServes(k)'
    <3>1. stack'[k].at = "native" /\ stack'[k].call = c /\ k # 1
      BY <1>1, <2>2 DEF Native
    <3>2. calls' \in Seq(Call) /\ Len(calls') = Len(calls) + 1 /\ Len(calls) \in Nat
      BY <1>0, CallAdded
    <3>3. calls'[c] = NewCall(op, FALSE, "none")
      BY <1>0, NewCallFacts
    <3>4. c \in DOMAIN calls'
      BY <3>2
    <3> QED BY <3>1, <3>3, <3>4 DEF FrameServes, Fresh, NewCall
  <2>3. \A k \in DOMAIN stack' : k \in 1..n \/ k = n + 1
    BY <1>1
  <2> QED BY <2>1, <2>2, <2>3 DEF FramesServe
<1>4. FramesDistinct'
  <2>1. \A k \in 1..n : stack[k].at = "native" => stack[k].call # c
    <3>1. c \notin DOMAIN calls
      BY <1>0 DEF TypeOK
    <3> QED BY <1>1, <3>1 DEF IInv, FramesServe, FrameServes, Fresh
  <2> QED BY <1>1, <2>1 DEF IInv, FramesDistinct, Native
<1>5. TicksFresh'
  BY <1>0, NewCallFacts DEF IInv, TicksFresh, Fresh
<1>6. TicksSorted'
  BY <1>0 DEF IInv, TicksSorted
<1>7. TicksLater'
  <2>1. ASSUME NEW j \in DOMAIN stack', NEW k \in DOMAIN ticks,
               stack'[j].at = "native", calls'[stack'[j].call].async
        PROVE  stack'[j].call < ticks[k]
    <3>1. j # n + 1
      BY <1>0, <1>1, <2>1, NewCallFacts DEF Native, NewCall
    <3>2. stack'[j] = stack[j] /\ j \in DOMAIN stack /\ stack[j].call \in DOMAIN calls
      BY <1>1, <2>1, <3>1 DEF IInv, FramesServe, FrameServes, Fresh
    <3> QED BY <1>0, <2>1, <3>2, NewCallFacts DEF IInv, TicksLater
  <2> QED BY <1>0, <2>1 DEF TicksLater
<1>8. WaitingKept'
  <2>1. ASSUME NEW d \in DOMAIN calls', Waiting(d)'
        PROVE  \/ \E k \in DOMAIN ticks' : ticks'[k] = d
               \/ \E j \in DOMAIN stack' : stack'[j].at = "native" /\ stack'[j].call = d
    <3>1. Waiting(d)
      BY <1>0, <2>1, NewCallFacts DEF Waiting, NewCall
    <3>2. d \in DOMAIN calls
      BY <3>1 DEF Waiting
    <3>3. CASE \E k \in DOMAIN ticks : ticks[k] = d
      BY <1>0, <3>3
    <3>4. CASE \E j \in DOMAIN stack : stack[j].at = "native" /\ stack[j].call = d
      BY <1>1, <3>4
    <3> QED BY <3>1, <3>2, <3>3, <3>4 DEF IInv, WaitingKept
  <2> QED BY <2>1 DEF WaitingKept
<1> QED BY <1>0, <1>2, <1>3, <1>4, <1>5, <1>6, <1>7, <1>8, CallAdded DEF IInv

LEMMA RunTickStep == ASSUME IInv, RunTick PROVE IInv'
<1> DEFINE c == Head(ticks)
<1>0. /\ TypeOK /\ ticks # <<>> /\ stack = <<>> /\ stack' = <<Native(c)>> /\ ticks' = Tail(ticks)
      /\ UNCHANGED <<calls, turns, alive>>
  BY DEF IInv, RunTick, Idle
<1>1. /\ Len(ticks) \in Nat \ {0} /\ c = ticks[1] /\ c \in 1..Len(calls)
      /\ DOMAIN ticks = 1..Len(ticks) /\ DOMAIN ticks' = 1..Len(ticks) - 1
      /\ ticks' \in Seq(1..Len(calls))
      /\ \A k \in DOMAIN ticks' : ticks'[k] = ticks[k + 1] /\ k + 1 \in DOMAIN ticks
      /\ \A k \in DOMAIN ticks : k = 1 \/ (k - 1 \in DOMAIN ticks' /\ ticks'[k - 1] = ticks[k])
  BY <1>0, HeadTail DEF TypeOK
<1>2. DOMAIN stack' = {1} /\ stack'[1] = Native(c) /\ stack' \in Seq(Frame)
  <2>1. Native(c) \in Frame
    BY <1>0, <1>1, NativeFrame DEF TypeOK
  <2> QED BY <1>0, <2>1
<1>3. TypeOK'
  BY <1>0, <1>1, <1>2 DEF TypeOK, Frame
<1>4. FramesServe'
  BY <1>0, <1>1, <1>2 DEF IInv, FramesServe, FrameServes, TicksFresh, Fresh, Native
<1>5. FramesDistinct'
  BY <1>2 DEF FramesDistinct
<1>6. TicksFresh'
  BY <1>0, <1>1 DEF IInv, TicksFresh, Fresh
<1>7. TicksSorted'
  <2>1. ASSUME NEW j \in DOMAIN ticks', NEW k \in DOMAIN ticks', j < k
        PROVE  ticks'[j] < ticks'[k]
    <3>1. j + 1 < k + 1
      BY <1>1, <2>1
    <3> QED BY <1>1, <3>1 DEF IInv, TicksSorted
  <2> QED BY <2>1 DEF TicksSorted
<1>8. TicksLater'
  <2>1. 1 \in DOMAIN ticks /\ \A k \in DOMAIN ticks' : 1 < k + 1 /\ k + 1 \in DOMAIN ticks
    BY <1>1
  <2>2. \A k \in DOMAIN ticks' : ticks[1] < ticks[k + 1]
    BY <2>1 DEF IInv, TicksSorted
  <2>3. \A k \in DOMAIN ticks' : c < ticks'[k]
    BY <1>1, <2>2
  <2> QED BY <1>2, <2>3 DEF TicksLater, Native
<1>9. WaitingKept'
  <2>1. ASSUME NEW d \in DOMAIN calls, Waiting(d)
        PROVE  \/ \E k \in DOMAIN ticks' : ticks'[k] = d
               \/ \E j \in DOMAIN stack' : stack'[j].at = "native" /\ stack'[j].call = d
    <3>1. PICK k \in DOMAIN ticks : ticks[k] = d
      BY <1>0, <2>1 DEF IInv, WaitingKept
    <3>2. CASE k = 1
      BY <1>1, <1>2, <3>1, <3>2 DEF Native
    <3>3. CASE k # 1
      BY <1>1, <3>1, <3>3
    <3> QED BY <3>2, <3>3
  <2> QED BY <1>0, <2>1 DEF WaitingKept, Waiting
<1>10. Told' /\ OwnFaultOnly' /\ InOrder'
  BY <1>0 DEF IInv, Told, OwnFaultOnly, InOrder, Waiting
<1> QED BY <1>3, <1>4, <1>5, <1>6, <1>7, <1>8, <1>9, <1>10 DEF IInv

\* One call changes: what becomes of calls.
LEMMA CallChanged ==
  ASSUME TypeOK, NEW c \in DOMAIN calls, NEW x \in Call, calls' = [calls EXCEPT ![c] = x]
  PROVE  /\ calls' \in Seq(Call) /\ Len(calls') = Len(calls) /\ DOMAIN calls' = DOMAIN calls
         /\ calls'[c] = x /\ \A d \in DOMAIN calls : d # c => calls'[d] = calls[d]
         /\ Frame' = Frame
<1>1. calls \in Seq(Call)
  BY DEF TypeOK
<1>2. calls' \in Seq(Call) /\ Len(calls') = Len(calls) /\ DOMAIN calls' = DOMAIN calls
  BY <1>1
<1>3. Frame' = Frame
  BY <1>2 DEF Frame
<1> QED BY <1>1, <1>2, <1>3

\* A call that is answered in full is waiting no more, and no other call is
\* touched.
LEMMA ReplyStep ==
  ASSUME IInv, NEW outcome, NativeReturns(outcome), ~calls[Top.call].async
  PROVE  IInv'
<1> DEFINE c == Top.call
           n == Len(stack)
           x == [calls[c] EXCEPT !.outcome = outcome, !.reply = Reply(outcome)]
<1>0. /\ TypeOK /\ stack # <<>> /\ Top.at = "native" /\ outcome \in Outcomes(calls[c].op)
      /\ stack' = Front(stack) /\ UNCHANGED <<ticks, turns, alive>>
      /\ calls' = [calls EXCEPT ![c].outcome = outcome, ![c].reply = Reply(outcome)]
  BY DEF IInv, NativeReturns, InNative
<1>1. /\ n \in Nat \ {0} /\ n \in DOMAIN stack /\ Top = stack[n] /\ DOMAIN stack = 1..n
      /\ stack' \in Seq(Frame) /\ DOMAIN stack' = 1..n - 1
      /\ \A k \in 1..n - 1 : stack'[k] = stack[k] /\ k \in DOMAIN stack /\ k < n
  BY <1>0, StackFacts DEF TypeOK
<1>2. Fresh(c) /\ c \in DOMAIN calls /\ calls[c] \in Call /\ n # 1
  <2>1. FrameServes(n)
    BY <1>1 DEF IInv, FramesServe
  <2>2. Fresh(c) /\ n # 1
    BY <1>0, <1>1, <2>1 DEF FrameServes
  <2> QED BY <1>0, <2>2 DEF Fresh, TypeOK
<1>3. outcome \in {"value", "null", "throw"} /\ Reply(outcome) \in {"value", "throw"}
  BY <1>0 DEF Outcomes, Reply
<1>4. /\ x \in Call /\ x.async = calls[c].async /\ x.op = calls[c].op /\ x.heard = <<>>
      /\ x.outcome = outcome /\ x.reply = Reply(outcome)
  BY <1>2, <1>3 DEF Call, Outcomes, Fresh
<1>5. calls' = [calls EXCEPT ![c] = x]
  BY <1>0, <1>2 DEF TypeOK, Call
<1> HIDE DEF x
<1>6. /\ calls' \in Seq(Call) /\ Len(calls') = Len(calls) /\ DOMAIN calls' = DOMAIN calls
      /\ calls'[c] = x /\ \A d \in DOMAIN calls : d # c => calls'[d] = calls[d]
      /\ \A d \in DOMAIN calls : calls'[d].heard = calls[d].heard /\ calls'[d].async = calls[d].async
      /\ Frame' = Frame
  BY <1>0, <1>2, <1>4, <1>5, CallChanged, ZenonT(40) DEF Fresh
<1>7. stack' \in Seq(Frame')
  BY <1>1, <1>6
<1>8. TypeOK'
  BY <1>0, <1>6, <1>7 DEF TypeOK
<1>9. \A k \in 1..n - 1 : stack[k].at = "native" => stack[k].call # c
  BY <1>0, <1>1 DEF IInv, FramesDistinct
<1>10. FramesServe'
  <2>1. ASSUME NEW k \in 1..n - 1  PROVE FrameServes(k)'
    <3>1. FrameServes(k) /\ stack'[k] = stack[k]
      BY <1>1 DEF IInv, FramesServe
    <3>2. CASE stack[k].at = "native"
      BY <1>6, <1>9, <3>1, <3>2 DEF FrameServes, Fresh
    <3>3. CASE stack[k].at # "native"
      BY <1>6, <3>1, <3>3 DEF FrameServes
    <3> QED BY <3>2, <3>3
  <2> QED BY <1>1, <2>1 DEF FramesServe
<1>11. FramesDistinct'
  BY <1>1 DEF IInv, FramesDistinct
<1>12. TicksFresh'
  <2>1. \A k \in DOMAIN ticks : ticks[k] # c
    BY DEF IInv, TicksFresh
  <2> QED BY <1>0, <1>6, <2>1 DEF IInv, TicksFresh, Fresh
<1>13. TicksSorted'
  BY <1>0 DEF IInv, TicksSorted
<1>14. TicksLater'
  <2>1. \A j \in DOMAIN stack : stack[j].at = "native" => stack[j].call \in DOMAIN calls
    BY DEF IInv, FramesServe, FrameServes, Fresh
  <2> QED BY <1>0, <1>1, <1>6, <2>1 DEF IInv, TicksLater
<1>15. WaitingKept'
  <2>1. ASSUME NEW d \in DOMAIN calls, Waiting(d)'
        PROVE  \/ \E k \in DOMAIN ticks : ticks[k] = d
               \/ \E j \in DOMAIN stack' : stack'[j].at = "native" /\ stack'[j].call = d
    <3>1. d # c /\ Waiting(d)
      BY <1>4, <1>6, <2>1 DEF Waiting
    <3>2. ASSUME NEW j \in DOMAIN stack, stack[j].at = "native", stack[j].call = d
          PROVE  j \in DOMAIN stack' /\ stack'[j] = stack[j]
      BY <1>1, <3>1, <3>2
    <3> QED BY <3>1, <3>2 DEF IInv, WaitingKept
  <2> QED BY <1>0, <1>6, <2>1 DEF WaitingKept
<1>16. Told'
  <2>1. ASSUME NEW d \in DOMAIN calls, d # c  PROVE calls'[d] = calls[d]
    BY <1>6, <2>1
  <2>2. x.outcome # "none" /\ ~x.async /\ x.heard = <<>> /\ x.reply = Reply(x.outcome)
    BY <1>3, <1>4
  <2> QED BY <1>6, <2>1, <2>2 DEF IInv, Told
<1>17. OwnFaultOnly'
  BY <1>6 DEF IInv, OwnFaultOnly
<1>18. InOrder'
  <2>1. \A d \in DOMAIN calls : Waiting(d)' => Waiting(d)
    BY <1>4, <1>6 DEF Waiting
  <2>2. \A d : Waiting(d)' => d \in DOMAIN calls
    BY <1>6 DEF Waiting
  <2> QED BY <1>6, <2>1, <2>2 DEF IInv, InOrder
<1> QED BY <1>8, <1>10, <1>11, <1>12, <1>13, <1>14, <1>15, <1>16, <1>17, <1>18 DEF IInv

\* The callback of call c has just been called, on an otherwise empty stack.
\* All that is asked of the call is that its parts fit each other.
LEMMA CallbackCalled ==
  ASSUME IInv, NEW c \in DOMAIN calls, NEW x \in Call, NEW guarded \in BOOLEAN,
         calls' = [calls EXCEPT ![c] = x], UNCHANGED <<ticks, turns, alive>>,
         stack' = <<Callback(c, guarded)>>,
         x.async, x.reply = "none", x.op = calls[c].op, x.outcome \in Outcomes(x.op),
         x.heard # <<>>, x.heard[1] = Heard(x.op, x.outcome),
         guarded => Len(x.heard) = 1 /\ x.heard[1] \in {"ok", "missing"},
         Len(x.heard) <= 2,
         Len(x.heard) = 2 => x.heard[2] = "callback" /\ x.heard[1] # "native",
         \A k \in DOMAIN ticks : ticks[k] # c,
         \A d \in DOMAIN calls : d < c => ~Waiting(d),
         \A d \in DOMAIN calls : Waiting(d) => d = c \/ \E k \in DOMAIN ticks : ticks[k] = d
  PROVE  IInv'
<1>0. TypeOK
  BY DEF IInv
<1>1. /\ calls' \in Seq(Call) /\ Len(calls') = Len(calls) /\ DOMAIN calls' = DOMAIN calls
      /\ calls'[c] = x /\ \A d \in DOMAIN calls : d # c => calls'[d] = calls[d]
      /\ Frame' = Frame
  BY <1>0, CallChanged
<1>2. DOMAIN stack' = {1} /\ stack'[1] = Callback(c, guarded) /\ stack' \in Seq(Frame)
  <2>1. Callback(c, guarded) \in Frame
    BY <1>0 DEF Callback, Frame, TypeOK
  <2> QED BY <2>1
<1>3. TypeOK'
  BY <1>0, <1>1, <1>2 DEF TypeOK
<1>4. FramesServe' /\ FramesDistinct'
  BY <1>1, <1>2 DEF FramesServe, FrameServes, FramesDistinct, Callback
<1>5. TicksFresh'
  BY <1>1 DEF IInv, TicksFresh, Fresh
<1>6. TicksSorted'
  BY DEF IInv, TicksSorted
<1>7. TicksLater'
  BY <1>2 DEF TicksLater, Callback
<1>8. \A d : Waiting(d)' => d \in DOMAIN calls /\ d # c /\ Waiting(d)
  BY <1>1 DEF Waiting
<1>9. WaitingKept'
  BY <1>1, <1>8 DEF WaitingKept
<1>10. Told'
  <2>1. x.outcome # "none"
    BY DEF Outcomes
  <2> QED BY <1>1, <2>1 DEF IInv, Told
<1>11. OwnFaultOnly'
  <2>1. x.heard \in Seq({"ok", "native", "missing", "callback"})
    BY DEF Call
  <2>2. Head(x.heard) = x.heard[1] /\ x.heard[1] # "callback"
    BY <2>1 DEF Heard
  <2> QED BY <1>1, <2>2 DEF IInv, OwnFaultOnly
<1>12. InOrder'
  <2>1. ASSUME NEW d \in DOMAIN calls, NEW e \in 1..d - 1, Waiting(e)'
        PROVE  calls'[d].heard = <<>>
    <3>1. Waiting(e) /\ e \in DOMAIN calls /\ e < d
      BY <1>0, <1>8, <2>1 DEF TypeOK
    <3>2. d # c
      BY <3>1
    <3> QED BY <1>1, <3>1, <3>2 DEF IInv, InOrder
  <2> QED BY <1>1, <2>1 DEF InOrder
<1> QED BY <1>3, <1>4, <1>5, <1>6, <1>7, <1>9, <1>10, <1>11, <1>12 DEF IInv

\* The waiting calls are the queue and the call being run.
LEMMA AnswerStep ==
  ASSUME IInv, NEW outcome, NativeReturns(outcome), calls[Top.call].async
  PROVE  IInv'
<1> DEFINE c == Top.call
           what == Heard(calls[c].op, outcome)
           x == [calls[c] EXCEPT !.outcome = outcome, !.heard = Append(calls[c].heard, what)]
           guarded == what \in {"ok", "missing"}
<1>0. /\ TypeOK /\ stack # <<>> /\ Top.at = "native" /\ outcome \in Outcomes(calls[c].op)
      /\ stack' = Append(Front(stack), Callback(c, guarded)) /\ UNCHANGED <<ticks, turns, alive>>
      /\ calls' = [calls EXCEPT ![c].outcome = outcome, ![c].heard = Append(@, what)]
  BY DEF IInv, NativeReturns, InNative, Invoke
<1>1. Len(stack) \in DOMAIN stack /\ Top = stack[Len(stack)]
  BY <1>0, StackFacts DEF TypeOK
<1>2. Fresh(c) /\ Len(stack) = 1
  <2>1. FrameServes(Len(stack))
    BY <1>1 DEF IInv, FramesServe
  <2> QED BY <1>0, <1>1, <2>1 DEF FrameServes
<1>3. c \in DOMAIN calls /\ calls[c] \in Call /\ calls[c].heard = <<>> /\ calls[c].reply = "none"
  BY <1>0, <1>2 DEF Fresh, TypeOK
<1>4. what \in {"ok", "native", "missing"} /\ outcome \in {"value", "null", "throw"}
  BY <1>0 DEF Heard, Outcomes
<1>5. /\ x \in Call /\ x.async /\ x.op = calls[c].op /\ x.reply = "none" /\ x.outcome = outcome
      /\ x.heard = <<what>>
  <2>1. Append(calls[c].heard, what) = <<what>>
        /\ <<what>> \in Seq({"ok", "native", "missing", "callback"})
    BY <1>3, <1>4
  <2> HIDE DEF what
  <2> QED BY <1>3, <1>4, <2>1 DEF Call, Outcomes
<1>6. calls' = [calls EXCEPT ![c] = x]
  BY <1>0, <1>3 DEF TypeOK, Call
<1>7. stack' = <<Callback(c, guarded)>>
  <2>1. Front(stack) = <<>>
    BY <1>0, <1>2, StackFacts
  <2> QED BY <1>0, <2>1
<1>8. \A k \in DOMAIN ticks : c < ticks[k]
  BY <1>0, <1>1 DEF IInv, TicksLater
<1>9. \A k \in DOMAIN ticks : ticks[k] # c
  <2>1. c \in Nat
    BY <1>0, <1>3 DEF TypeOK
  <2> QED BY <1>8, <2>1
<1>10. \A j \in DOMAIN stack : stack[j] = Top
  BY <1>0, <1>1, <1>2 DEF TypeOK
<1>11. \A d \in DOMAIN calls : Waiting(d) => d = c \/ \E k \in DOMAIN ticks : ticks[k] = d
  BY <1>10 DEF IInv, WaitingKept
<1>12. \A d \in DOMAIN calls : d < c => ~Waiting(d)
  <2>1. ASSUME NEW d \in DOMAIN calls, d < c, Waiting(d)  PROVE FALSE
    <3>1. d \in Nat /\ c \in Nat
      BY <1>0, <1>3 DEF TypeOK
    <3>2. PICK k \in DOMAIN ticks : ticks[k] = d
      BY <1>11, <2>1, <3>1
    <3> QED BY <1>8, <2>1, <3>1, <3>2
  <2> QED BY <2>1
<1>13. /\ Len(x.heard) = 1 /\ x.heard[1] = what /\ x.heard # <<>> /\ x.heard[1] = Heard(x.op, x.outcome)
       /\ x.outcome \in Outcomes(x.op)
  BY <1>0, <1>5
<1>14. guarded \in BOOLEAN
  OBVIOUS
<1> HIDE DEF x, guarded
<1>15. guarded => Len(x.heard) = 1 /\ x.heard[1] \in {"ok", "missing"}
  BY <1>13 DEF guarded
<1>16. /\ Len(x.heard) <= 2
       /\ Len(x.heard) = 2 => x.heard[2] = "callback" /\ x.heard[1] # "native"
  BY <1>13
<1> HIDE DEF c, what
<1> QED BY ZenonT(40), <1>0, <1>3, <1>5, <1>6, <1>7, <1>9, <1>11, <1>12, <1>13, <1>14, <1>15, <1>16,
          CallbackCalled

\* The second call of a callback is the last.
LEMMA CallbackThrowsStep == ASSUME IInv, CallbackThrows PROVE IInv'
<1> DEFINE c == Top.call
           x == [calls[c] EXCEPT !.outcome = calls[c].outcome, !.heard = Append(calls[c].heard, "callback")]
<1>0. TypeOK /\ stack # <<>> /\ Top.at = "callback"
  BY DEF IInv, CallbackThrows, UserCode
<1>1. Len(stack) \in DOMAIN stack /\ Top = stack[Len(stack)] /\ Top \in Frame
  BY <1>0, StackFacts DEF TypeOK
<1>2. /\ Len(stack) = 1 /\ c \in DOMAIN calls /\ calls[c].heard # <<>>
      /\ Top.guarded => Len(calls[c].heard) = 1 /\ calls[c].heard[1] \in {"ok", "missing"}
  <2>1. FrameServes(Len(stack))
    BY <1>1 DEF IInv, FramesServe
  <2> QED BY <1>0, <1>1, <2>1 DEF FrameServes
<1>3. CASE ~Top.guarded
  BY <1>0, <1>2, <1>3, UncaughtStep DEF CallbackThrows
<1>4. CASE Top.guarded
  <2>1. /\ stack' = Append(Front(stack), Callback(c, FALSE)) /\ UNCHANGED <<ticks, turns, alive>>
        /\ calls' = [calls EXCEPT ![c].outcome = calls[c].outcome, ![c].heard = Append(@, "callback")]
    <3>1. ("callback" \in {"ok", "missing"}) = FALSE
      OBVIOUS
    <3> QED BY <1>4, <3>1 DEF CallbackThrows, Invoke
  <2>2. /\ calls[c] \in Call /\ calls[c].reply = "none" /\ calls[c].async
        /\ calls[c].outcome \in Outcomes(calls[c].op)
        /\ calls[c].heard[1] = Heard(calls[c].op, calls[c].outcome)
    BY <1>0, <1>2 DEF IInv, Told, TypeOK
  <2>3. /\ x \in Call /\ x.async /\ x.op = calls[c].op /\ x.reply = "none"
        /\ x.outcome = calls[c].outcome /\ x.heard = Append(calls[c].heard, "callback")
    <3>1. /\ Append(calls[c].heard, "callback") \in Seq({"ok", "native", "missing", "callback"})
          /\ calls[c].outcome \in Outcomes("serialize") \cup {"none"}
      BY <2>2 DEF Call
    <3> QED BY <2>2, <3>1 DEF Call
  <2>4. calls' = [calls EXCEPT ![c] = x]
    BY <1>0, <1>2, <2>1 DEF TypeOK, Call
  <2>5. stack' = <<Callback(c, FALSE)>>
    <3>1. Front(stack) = <<>>
      BY <1>0, <1>2, StackFacts
    <3> QED BY <2>1, <3>1
  <2>6. /\ Len(x.heard) = 2 /\ x.heard[1] = calls[c].heard[1] /\ x.heard[2] = "callback"
        /\ x.heard # <<>>
    <3>1. calls[c].heard \in Seq({"ok", "native", "missing", "callback"})
      BY <2>2 DEF Call
    <3> QED BY <1>2, <1>4, <2>3, <3>1
  <2>7. Len(x.heard) <= 2 /\ x.heard[1] # "native" /\ x.heard[1] = Heard(x.op, x.outcome)
        /\ x.outcome \in Outcomes(x.op)
    BY <1>2, <1>4, <2>2, <2>3, <2>6
  <2>8. \A k \in DOMAIN ticks : ticks[k] # c
    BY <1>2 DEF IInv, TicksFresh, Fresh
  <2>9. \A d \in DOMAIN calls : d < c => ~Waiting(d)
    <3>1. \A d \in DOMAIN calls : d < c => d \in 1..c - 1
      BY <1>0, <1>2 DEF TypeOK
    <3> QED BY <1>2, <3>1 DEF IInv, InOrder
  <2>10. \A d \in DOMAIN calls : Waiting(d) => d = c \/ \E k \in DOMAIN ticks : ticks[k] = d
    <3>1. \A j \in DOMAIN stack : stack[j].at # "native"
      BY <1>0, <1>1, <1>2 DEF TypeOK
    <3> QED BY <3>1 DEF IInv, WaitingKept
  <2> HIDE DEF x, c
  <2> QED BY <1>2, <2>1, <2>3, <2>4, <2>5, <2>6, <2>7, <2>8, <2>9, <2>10, CallbackCalled
<1> QED BY <1>1, <1>3, <1>4 DEF Frame

----------------------------------------------------------------------------
(* The theorems.                                                           *)

LEMMA NextIInv == IInv /\ [Next]_vars => IInv'
<1> SUFFICES ASSUME IInv, [Next]_vars  PROVE IInv'
  OBVIOUS
<1>1. ASSUME NEW op \in Ops, NEW async \in BOOLEAN, CallInvalid(op, async)  PROVE IInv'
  BY <1>1, CallInvalidStep
<1>2. ASSUME NEW op \in Ops, CallSync(op)  PROVE IInv'
  BY <1>2, CallSyncStep
<1>3. ASSUME NEW op \in Ops, CallAsync(op)  PROVE IInv'
  BY <1>3, CallAsyncStep
<1>4. ASSUME NEW o \in Outcomes("serialize"), NativeReturns(o)  PROVE IInv'
  BY <1>4, ReplyStep, AnswerStep
<1>5. CASE TurnThrows
  BY <1>5, UncaughtStep DEF TurnThrows, UserCode
<1>6. CASE UNCHANGED vars
  BY <1>6, FramesKept DEF vars, IInv, TypeOK
<1> QED BY <1>1, <1>2, <1>3, <1>4, <1>5, <1>6, EnterGetterStep, NativeAbortsStep, UserReturnsStep,
          GetterThrowsStep, CallbackThrowsStep, RunTickStep, RunTurnStep DEF Next

\* The invariant holds of every behaviour of the wrapper.
THEOREM Invariance == Spec => []IInv
<1>1. Init => IInv
  BY InitIInv
<1>2. IInv /\ [Next]_vars => IInv'
  BY NextIInv
<1> QED BY <1>1, <1>2, PTL DEF Spec

\* Frames and ticks always name calls that were made.
THEOREM TypeCorrect == Spec => []TypeOK
<1>1. IInv => TypeOK
  BY DEF IInv
<1> QED BY <1>1, Invariance, PTL

\* parse, parseWithUnknown and serialize never call a callback while other code
\* of the program is running, however deeply calls, getters and callbacks nest.
THEOREM CallbacksRunAlone == Spec => []RunsAlone
<1>1. IInv => RunsAlone
  BY DEF IInv, FramesServe, FrameServes, RunsAlone
<1> QED BY <1>1, Invariance, PTL

\* The try block around the callback makes for a second call of it at most, and
\* only for what the callback itself has thrown.
THEOREM SecondCallIsOwnFault == Spec => []OwnFaultOnly
<1>1. IInv => OwnFaultOnly
  BY DEF IInv
<1> QED BY <1>1, Invariance, PTL

\* Callbacks are first called in the order of the calls, for any number of them
\* and whatever the callbacks do.
THEOREM CallbacksInOrder == Spec => []InOrder
<1>1. IInv => InOrder
  BY DEF IInv
<1> QED BY <1>1, Invariance, PTL

\* A caller gets a result exactly when the native call produced one.
THEOREM ResultsAreReal == Spec => []ResultIsReal
<1>1. IInv => ResultIsReal
  <2>1. ASSUME IInv, NEW c \in DOMAIN calls, calls[c].reply # "none", calls[c].outcome # "none"
        PROVE  calls[c].reply = "value" <=> calls[c].outcome = "value"
    BY <2>1 DEF IInv, Told, Reply
  <2>2. ASSUME IInv, NEW c \in DOMAIN calls, calls[c].heard # <<>>
        PROVE  Head(calls[c].heard) = "ok" <=> calls[c].outcome = "value"
    <3>1. /\ calls[c].outcome \in Outcomes(calls[c].op)
          /\ calls[c].heard[1] = Heard(calls[c].op, calls[c].outcome)
      BY <2>2 DEF IInv, Told
    <3>2. Head(calls[c].heard) = calls[c].heard[1]
      BY <2>2 DEF IInv, TypeOK, Call
    <3> QED BY <3>1, <3>2 DEF Outcomes, Heard
  <2> QED BY <2>1, <2>2 DEF ResultIsReal
<1> QED BY <1>1, Invariance, PTL
=============================================================================
