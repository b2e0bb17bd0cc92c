------------------------------ MODULE Wrapper ------------------------------
(***************************************************************************)
(* protobuf.js: the parse, parseWithUnknown and serialize that a program   *)
(* calls, with and without a callback, on Node's single thread.            *)
(*                                                                         *)
(* stack is the JavaScript stack: code of the program at the bottom or     *)
(* called by the native walk (a getter), a native call, or a callback.  A  *)
(* call with a callback only queues a tick; Node runs ticks in order, each *)
(* when the stack is empty, before anything else.                          *)
(***************************************************************************)
EXTENDS Integers, SequencesExt

CONSTANTS
  MaxCalls,  \* bound: calls of the three operations
  MaxTurns,  \* bound: turns of the event loop that run code of the program
  MaxDepth   \* bound: frames on the JavaScript stack

ASSUME BoundAssumption == MaxCalls \in Nat /\ MaxTurns \in Nat /\ MaxDepth \in Nat \ {0}

VARIABLES
  calls, \* every call made: [op, async, outcome, reply, heard]
  ticks, \* process.nextTick's queue: calls whose native part is due
  stack, \* the JavaScript stack, innermost last
  turns, \* turns of the event loop begun
  alive  \* the process has not died of an uncaught exception or an abort

vars == <<calls, ticks, stack, turns, alive>>

Ops == {"parse", "parseWithUnknown", "serialize"}

\* What a native call comes back with: a value, null, or an exception.  A parse
\* returns null only together with an exception; serialize returns null on its
\* own when its walk found a required field missing.
Outcomes(op) == IF op = "serialize" THEN {"value", "null", "throw"} ELSE {"value", "throw"}

----------------------------------------------------------------------------
(* Frames.                                                                 *)

\* guarded: a callback that was called inside the try block.  pending: a
\* native call during which a getter has thrown.
Program == [at |-> "program", call |-> 0, guarded |-> FALSE, pending |-> FALSE]
Native(c) == [at |-> "native", call |-> c, guarded |-> FALSE, pending |-> FALSE]
Callback(c, guarded) == [at |-> "callback", call |-> c, guarded |-> guarded, pending |-> FALSE]

Top == Last(stack)
\* Code of the program is running: a turn, a getter or a callback.
UserCode == alive /\ stack # <<>> /\ Top.at # "native"
InNative == alive /\ stack # <<>> /\ Top.at = "native"
Idle     == alive /\ stack = <<>>

NewCall(op, async, reply) ==
  [op |-> op, async |-> async, outcome |-> "none", reply |-> reply, heard |-> <<>>]

\* Mutant: ticks run in the reverse order.
DeferFirst(c) == <<c>> \o ticks

Defer(c) == Append(ticks, c)

----------------------------------------------------------------------------
(* Calls.                                                                  *)

\* A missing argument, or a parse of something that is no Buffer: an exception,
\* thrown at once whether or not there is a callback.
CallInvalid(op, async) ==
  /\ UserCode /\ Len(calls) < MaxCalls
  /\ calls' = Append(calls, NewCall(op, async, "throw"))
  /\ UNCHANGED <<ticks, stack, turns, alive>>

CallSync(op) ==
  /\ UserCode /\ Len(calls) < MaxCalls /\ Len(stack) < MaxDepth
  /\ calls' = Append(calls, NewCall(op, FALSE, "none"))
  /\ stack' = Append(stack, Native(Len(calls) + 1))
  /\ UNCHANGED <<ticks, turns, alive>>

\* Mutant: the native part runs at once.
CallAsyncAtOnce(op) ==
  /\ UserCode /\ Len(calls) < MaxCalls /\ Len(stack) < MaxDepth
  /\ calls' = Append(calls, NewCall(op, TRUE, "none"))
  /\ stack' = Append(stack, Native(Len(calls) + 1))
  /\ UNCHANGED <<ticks, turns, alive>>

CallAsync(op) ==
  /\ UserCode /\ Len(calls) < MaxCalls
  /\ calls' = Append(calls, NewCall(op, TRUE, "none"))
  /\ ticks' = Defer(Len(calls) + 1)
  /\ UNCHANGED <<stack, turns, alive>>

----------------------------------------------------------------------------
(* The native call and what follows it.                                    *)

\* The walk of serialize calls a getter or a conversion of the program's.
EnterGetter ==
  /\ InNative /\ calls[Top.call].op = "serialize" /\ Len(stack) < MaxDepth
  /\ stack' = Append(stack, Program)
  /\ UNCHANGED <<calls, ticks, turns, alive>>

\* Mutant: null is taken for a result.
HeardUnchecked(op, outcome) == IF outcome = "throw" THEN "native" ELSE "ok"

\* What the callback of an asynchronous call is told: (null, result), the
\* exception the native call threw, or an Error for a null of serialize.
Heard(op, outcome) ==
  CASE outcome = "throw" -> "native"
    [] outcome = "null" /\ op = "serialize" -> "missing"
    [] OTHER -> "ok"

\* Mutant: null is returned to the caller.
ReplyUnchecked(outcome) == outcome

\* What the caller of a synchronous call gets.
Reply(outcome) == IF outcome = "value" THEN "value" ELSE "throw"

\* Mutant: the catch block is empty.
InvokeUnlessThrown(c, outcome, what) ==
  /\ calls' = [calls EXCEPT ![c].outcome = outcome,
                             ![c].heard = IF what = "native" THEN @ ELSE Append(@, what)]
  /\ stack' = IF what = "native" THEN Front(stack)
              ELSE Append(Front(stack), Callback(c, what \in {"ok", "missing"}))

\* The callback of call c is called with what.  The catch block calls it
\* outside of the try.
Invoke(c, outcome, what) ==
  /\ calls' = [calls EXCEPT ![c].outcome = outcome, ![c].heard = Append(@, what)]
  /\ stack' = Append(Front(stack), Callback(c, what \in {"ok", "missing"}))

NativeReturns(outcome) ==
  /\ InNative
  /\ outcome \in Outcomes(calls[Top.call].op)
  /\ Top.pending => outcome = "throw"
  /\ LET c == Top.call IN
     IF calls[c].async
     THEN Invoke(c, outcome, Heard(calls[c].op, outcome))
     ELSE /\ calls' = [calls EXCEPT ![c].outcome = outcome, ![c].reply = Reply(outcome)]
          /\ stack' = Front(stack)
  /\ UNCHANGED <<ticks, turns, alive>>

\* The walk of serialize aborts the process.
NativeAborts ==
  /\ InNative /\ calls[Top.call].op = "serialize"
  /\ alive' = FALSE
  /\ UNCHANGED <<calls, ticks, stack, turns>>

----------------------------------------------------------------------------
(* Code of the program ends.                                               *)

UserReturns ==
  /\ UserCode
  /\ stack' = Front(stack)
  /\ UNCHANGED <<calls, ticks, turns, alive>>

\* An exception nothing catches: the program's uncaughtException handler keeps
\* the process alive, or it has none.
Uncaught ==
  /\ stack' = <<>>
  /\ alive' \in BOOLEAN
  /\ UNCHANGED <<calls, ticks, turns>>

GetterThrows ==
  /\ UserCode /\ Top.at = "program" /\ Len(stack) > 1
  /\ LET below == Front(stack)
     IN stack' = [below EXCEPT ![Len(below)].pending = TRUE]
  /\ UNCHANGED <<calls, ticks, turns, alive>>

TurnThrows == UserCode /\ Top.at = "program" /\ Len(stack) = 1 /\ Uncaught

\* Mutant: the catch block has a try block of its own around the callback.
CallbackThrowsAgain ==
  /\ UserCode /\ Top.at = "callback" /\ Len(calls[Top.call].heard) < 3
  /\ calls' = [calls EXCEPT ![Top.call].heard = Append(@, "callback")]
  /\ stack' = Append(Front(stack), Callback(Top.call, TRUE))
  /\ UNCHANGED <<ticks, turns, alive>>

\* What a callback throws inside the try block is caught, and the callback is
\* called again with it; what it throws then is not.
CallbackThrows ==
  /\ UserCode /\ Top.at = "callback"
  /\ IF Top.guarded
     THEN /\ Invoke(Top.call, calls[Top.call].outcome, "callback")
          /\ UNCHANGED <<ticks, turns, alive>>
     ELSE Uncaught

----------------------------------------------------------------------------
(* The event loop.                                                         *)

RunTick ==
  /\ Idle /\ ticks # <<>>
  /\ stack' = <<Native(Head(ticks))>>
  /\ ticks' = Tail(ticks)
  /\ UNCHANGED <<calls, turns, alive>>

\* The main script, a timer, input: only when no tick is left.
RunTurn ==
  /\ Idle /\ ticks = <<>> /\ turns < MaxTurns
  /\ stack' = <<Program>>
  /\ turns' = turns + 1
  /\ UNCHANGED <<calls, ticks, alive>>

Init == calls = <<>> /\ ticks = <<>> /\ stack = <<>> /\ turns = 0 /\ alive = TRUE

UserEnds == UserReturns \/ GetterThrows \/ TurnThrows \/ CallbackThrows
NativeEnds == NativeAborts \/ \E o \in Outcomes("serialize") : NativeReturns(o)

Next ==
  \/ \E op \in Ops, async \in BOOLEAN : CallInvalid(op, async)
  \/ \E op \in Ops : CallSync(op)
  \/ \E op \in Ops : CallAsync(op)
  \/ EnterGetter
  \/ \E o \in Outcomes("serialize") : NativeReturns(o)
  \/ NativeAborts
  \/ UserReturns
  \/ GetterThrows
  \/ TurnThrows
  \/ CallbackThrows
  \/ RunTick
  \/ RunTurn

Spec == Init /\ [][Next]_vars

\* Node runs the queue whenever the stack is empty, the program's own code comes
\* to an end, and so does a native call, however many getters it has called:
\* Serializer's CallsEnd.
FairSpec == Spec /\ WF_vars(RunTick) /\ SF_vars(NativeEnds) /\ WF_vars(UserEnds)

----------------------------------------------------------------------------

Frame == [at : {"program", "native", "callback"}, call : 0..Len(calls),
          guarded : BOOLEAN, pending : BOOLEAN]
Call  == [op : Ops, async : BOOLEAN, outcome : Outcomes("serialize") \cup {"none"},
          reply : {"none", "value", "throw"},
          heard : Seq({"ok", "native", "missing", "callback"})]

\* Frames and ticks name calls that were made, and every part of a call is one
\* of the values the code tells apart.
TypeOK ==
  /\ calls \in Seq(Call)
  /\ ticks \in Seq(1..Len(calls))
  /\ stack \in Seq(Frame)
  /\ turns \in Nat
  /\ alive \in BOOLEAN

----------------------------------------------------------------------------
(* What a program may rely on.                                             *)

\* A callback runs on an empty stack: never inside the call it belongs to,
\* inside other code of the program or in the middle of another native call.
RunsAlone == \A k \in DOMAIN stack : stack[k].at = "callback" => k = 1

\* A callback is called for the second time only with an exception of its own,
\* after the call it serves was answered, and never for a third time.
OwnFaultOnly ==
  \A c \in DOMAIN calls :
    LET heard == calls[c].heard
    IN /\ Len(heard) <= 2
       /\ heard # <<>> => Head(heard) # "callback"
       /\ Len(heard) = 2 => heard[2] = "callback" /\ heard[1] # "native"

\* An accepted call whose callback has not been called.
Waiting(c) ==
  /\ c \in DOMAIN calls
  /\ calls[c].async /\ calls[c].reply = "none" /\ calls[c].heard = <<>>

\* Callbacks are first called in the order in which the calls were made.
InOrder ==
  \A d \in DOMAIN calls : \A c \in 1..d - 1 :
    Waiting(c) => calls[d].heard = <<>>

\* A caller is given a result exactly when the native call produced one,
\* whichever way it asked: null is never passed off as a result.
ResultIsReal ==
  \A c \in DOMAIN calls :
    /\ calls[c].reply # "none" /\ calls[c].outcome # "none" =>
         (calls[c].reply = "value" <=> calls[c].outcome = "value")
    /\ calls[c].heard # <<>> => (Head(calls[c].heard) = "ok" <=> calls[c].outcome = "value")

\* Every call with a callback is answered, however the callbacks of earlier
\* calls behave, unless the process dies first.
EveryCallAnswered == \A c \in 1..MaxCalls : Waiting(c) ~> (~Waiting(c) \/ ~alive)
=============================================================================
