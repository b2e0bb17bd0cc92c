-------------------------------- MODULE Addon --------------------------------
(***************************************************************************)
(* The calls of Wrapper together with what they read: the object passed to *)
(* serialize(), or the Buffer passed to parse(), which the program goes on *)
(* writing to while the call waits in the queue of ticks.                  *)
(*                                                                         *)
(* A native call reads the fields one by one.  An object that is lively    *)
(* has getters, which run code of the program between two reads.           *)
(***************************************************************************)
EXTENDS Integers, SequencesExt

CONSTANTS
  MaxCalls, MaxTurns, MaxDepth,  \* Wrapper's bounds
  Objects,    \* what a program passes
  Lively,     \* those with getters
  FieldCount, \* how many parts of an object a call reads
  MaxWrites   \* bound: writes by the program

ASSUME BoundAssumption == MaxCalls \in Nat /\ MaxTurns \in Nat /\ MaxDepth \in Nat \ {0}
ASSUME ObjectAssumption == Lively \subseteq Objects /\ FieldCount \in Nat /\ MaxWrites \in Nat

VARIABLES
  calls, ticks, stack, turns, alive,  \* Wrapper's
  log,   \* the program's writes, oldest first: [object, field]
  reads  \* for every call: [object, made, seen], the length of the log when it
         \* was made and, field by field, the write that it has read

W == INSTANCE Wrapper

wrapper == <<calls, ticks, stack, turns, alive>>
vars == <<wrapper, log, reads>>

Fields == 1..FieldCount

\* The write that field f of object o holds after the first t writes; 0 if none.
Content(o, f, t) ==
  LET writes == {i \in 1..t : log[i] = [object |-> o, field |-> f]}
  IN  IF writes = {} THEN 0 ELSE CHOOSE i \in writes : \A j \in writes : j <= i

Snapshot(o, t) == [f \in Fields |-> Content(o, f, t)]
Now == Len(log)

\* Mutant: the arguments are copied when the call is made.
ArgumentsCopied(o) == [object |-> o, made |-> Now, seen |-> Snapshot(o, Now)]

\* A call keeps its argument by reference.
Arguments(o) == [object |-> o, made |-> Now, seen |-> <<>>]

----------------------------------------------------------------------------
(* The program.                                                            *)

Call(op, o) ==
  /\ W!CallSync(op) \/ W!CallAsync(op)
  /\ reads' = Append(reads, Arguments(o))
  /\ UNCHANGED log

Write(o, f) ==
  /\ W!UserCode /\ Now < MaxWrites
  /\ log' = Append(log, [object |-> o, field |-> f])
  /\ UNCHANGED <<wrapper, reads>>

----------------------------------------------------------------------------
(* The native call.                                                        *)

Reading == reads[W!Top.call]
\* The next field to be read.
Field   == Len(Reading.seen) + 1

\* Mutant: the fields last to first.
ReadFieldBackwards ==
  /\ W!InNative /\ ~W!Top.pending /\ Field <= FieldCount
  /\ reads' = [reads EXCEPT ![W!Top.call].seen =
                 <<Content(Reading.object, FieldCount + 1 - Field, Now)>> \o @]
  /\ UNCHANGED <<wrapper, log>>

\* Mutant: one field more.
ReadFieldBeyond ==
  /\ W!InNative /\ ~W!Top.pending /\ Field <= FieldCount + 1
  /\ reads' = [reads EXCEPT ![W!Top.call].seen = Append(@, Content(Reading.object, Field, Now))]
  /\ UNCHANGED <<wrapper, log>>

ReadField ==
  /\ W!InNative /\ ~W!Top.pending /\ Field <= FieldCount
  /\ reads' = [reads EXCEPT ![W!Top.call].seen = Append(@, Content(Reading.object, Field, Now))]
  /\ UNCHANGED <<wrapper, log>>

\* A getter of a field, before its value is there.
EnterGetter ==
  /\ W!EnterGetter /\ Reading.object \in Lively /\ Field <= FieldCount
  /\ UNCHANGED <<log, reads>>

\* A result takes all fields; null and exceptions may come earlier.
NativeReturns(outcome) ==
  /\ W!NativeReturns(outcome) /\ (outcome = "value" => Field > FieldCount)
  /\ UNCHANGED <<log, reads>>

\* What reads nothing: ends of callbacks and getters, ticks and turns.
Elsewhere ==
  /\ W!NativeAborts \/ W!UserEnds \/ W!RunTick \/ W!RunTurn
  /\ UNCHANGED <<log, reads>>

Init == W!Init /\ log = <<>> /\ reads = <<>>

Next ==
  \/ \E op \in W!Ops, o \in Objects : Call(op, o)
  \/ \E o \in Objects, f \in Fields : Write(o, f)
  \/ ReadField
  \/ EnterGetter
  \/ \E outcome \in W!Outcomes("serialize") : NativeReturns(outcome)
  \/ Elsewhere

Spec == Init /\ [][Next]_vars

----------------------------------------------------------------------------
(* Properties.                                                             *)

\* Every call has its reads, of writes that were made.
TypeOK ==
  /\ W!TypeOK
  /\ DOMAIN reads = DOMAIN calls
  /\ \A c \in DOMAIN reads :
       /\ reads[c].object \in Objects /\ reads[c].made \in 0..Now
       /\ Len(reads[c].seen) <= FieldCount /\ ToSet(reads[c].seen) \subseteq 0..Now

Succeeded(c) == calls[c].outcome = "value"
Plain(c)     == reads[c].object \notin Lively

\* When a result is handed over, to the caller or to the callback, it is what a
\* plain object holds at that moment, in all of its fields: never a mixture, and
\* not what it held when the call was made (protobuf.js:117).
ResultIsCurrent ==
  [][\A c \in DOMAIN calls :
       calls[c].outcome = "none" /\ calls'[c].outcome = "value" /\ Plain(c)
         => reads[c].seen = Snapshot(reads[c].object, Now)]_vars

\* An object with getters is read no earlier than the call and field after field:
\* every field is as some moment since then had it, in the order of the fields.
ReadsGoForward ==
  \A c \in DOMAIN calls : Succeeded(c) =>
    \E times \in [Fields -> reads[c].made .. Now] :
      \A f \in Fields :
        /\ reads[c].seen[f] = Content(reads[c].object, f, times[f])
        /\ \A e \in 1..f : times[e] <= times[f]

\* Of two calls with callbacks the later one never sees an older state.
LaterSeesLater ==
  \A d \in DOMAIN calls : \A c \in 1..d - 1 :
    /\ calls[c].async /\ calls[d].async /\ reads[c].object = reads[d].object
    /\ Succeeded(c) /\ Succeeded(d)
    => \A f \in Fields : reads[c].seen[f] <= reads[d].seen[f]
==============================================================================
