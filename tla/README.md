# Specification of node-protobuf

TLA+ specifications of node-protobuf (the Node.js addon that serializes plain
JavaScript objects with Google's protobuf library), the TLC configurations that
check them on small instances, and TLAPS proofs of their main invariants.
File references are to this repository; `serialize.cpp`, `parse.cpp` and
`native.cpp` are in `src/`.

## The system

| component | code | state it keeps | operations |
|---|---|---|---|
| wrapper | `protobuf.js` | none of its own; closures on `process.nextTick`'s queue | `parse`, `parseWithUnknown`, `serialize`, each with or without a callback; `info` |
| serializer | `native.cpp` `Serialize`, `serialize.cpp` | one heap-allocated message per call, with the nested ones; one C++ activation of `SerializePart` per level | `Serialize`, `SerializePart`, `SerializeField` |
| native parser | `native.cpp` `Parse`, `ParseWithUnknown` | a message, a stream with a byte limit | parse a buffer, throw on malformed input |
| object parser | `parse.cpp` | none | `ParsePart`, `ParsePartWithUnknown`, `ParseField`, `ParseUnknownFieldset`, `NewTypedArray` |
| pool | `native.cpp` `New`, constructor, `Info`; `init.cpp` | descriptor pool, message factory, list of names, `preserve_int64` | build from a descriptor set, list schemas |
| conversions | `serialize.cpp:16-99`, `parse.cpp:39-105` | none | numbers, [hi, lo] halves and decimal strings to and from 64-bit integers |

How they interact.  A program calls the wrapper; the wrapper checks the
arguments and calls the addon, at once or in a tick when there is a callback.
The serializer walks the caller's object by the message descriptor.  Reading a
property may run a getter; converting a value may run `valueOf`, `toString` or
`toProtobuf` of the caller's.  That is user code in the middle of the native
walk: it can change the objects being walked, call `serialize` again on the same
addon object, and throw.  The parser calls no user code.  Everything runs on one
thread; interleaving comes from these callbacks and from the tick queue.

What makes each part correct:

- wrapper: every call is answered once, in order, on an empty stack, with a
  result exactly when there is one;
- serializer: a buffer holds what the object held and no required field is
  missing, null means that one is, memory is released, nested calls do not
  disturb each other, every walk ends;
- native parser: the limit in force is the one asked for; a message ends where it
  says or where the data end; every parse ends and no message leaks;
- object parser: the object is the message, field by field; answers share nothing;
  what was parsed can be serialized and parsed again without further change;
- pool: an object that a program gets is whole, and its files fit together;
- conversions: halves, strings and numbers agree with the 64-bit value;
- all together: a call reads the object as it is when the call runs.

The behaviours that are hard to test are listed, at their lines, under "hazards"
in `PROJECT.json`, with the properties that would catch them going wrong.

## Modules

| module | models | checked or proved by |
|---|---|---|
| `Values` | schemas as the descriptor pool gives them; JavaScript values, objects, getters; the conversions, up to "has a payload or not" | used by the next five |
| `Serializer` | `NativeProtobuf::Serialize`, `SerializePart`, `SerializeField`, and JavaScript as an actor that runs while a frame waits for it | runs `serializer_*` |
| `MCSerializer` | two small instances of it | `serializer_script`, `serializer_ends`, `serializer_required` |
| `SerializerContract` | what serialize promises for objects that run no JavaScript: one atomic answer | refined in `MCContract` |
| `MCContract` | an instance of `Serializer` and the refinement mapping | `serializer_contract` |
| `Parser` | `NativeProtobuf::Parse` and `ParseWithUnknown` around the message, `ParsePart`, `ParsePartWithUnknown`, `ParseField`, `ParseUnknownFieldset`, `NewTypedArray` | `MCParser`, run `parser` |
| `RoundTrip` | `Serializer` and `Parser` on one heap, taking turns | `MCRoundTrip`, run `roundtrip` |
| `WireParse` | the limits from `protobuf.js` to the stream, the stream's limits, tags and message ends | `MCWireParse`, run `wire` |
| `Int64` | integers of both widths, from JavaScript and back | `MCInt64`, run `int64` |
| `Pool` | the constructors, the loop of `BuildFile`, `info()`, the look-up of a schema | `MCPool`, runs `pool`, `pool_invalid` |
| `Wrapper` | the three operations of `protobuf.js`, the JavaScript stack, the tick queue and the event loop | run `wrapper` |
| `Addon` | `Wrapper`'s calls with what they read of arguments that the program goes on writing to | run `addon` |
| `StackLemmas` | what push, pop and replacing the top do to a sequence | TLAPS |
| `SerializerProofs`, `ParserProofs`, `WireParseProofs`, `Int64Proofs`, `PoolProofs`, `WrapperProofs`, `AddonProofs` | theorems | TLAPS |

### Serializer

`stack` is the C++ stack: a frame per activation of `SerializePart`, with the loop
variables (`i` the field, `arr`, `len`, `j` the list loop), the message it fills,
the object it reads, what JavaScript it waits for, and whether an exception is
pending.  `msgs` is every message ever allocated, `live` those not deleted.
One action is one loop step: `ReadField` (lines 178-218, up to the call of
JavaScript or the end of the field), `ReadElement` (213-215), `EndLoop`, `EndPart`
(222).  The cases of `SerializeField` are operators of the field's kind
(`SetNumber` ... `SetString`) that end in one of the outcomes `Store`, `Skip`,
`Await`, `Abort` or a pushed frame.  `Return` is what the two callers do with the
result: `NativeProtobuf::Serialize` answers and deletes (or not: the early return
of line 86), `SerializeField` drops it.

While a frame waits, and whenever no call is in progress, JavaScript runs:
`Mutate` changes an object, `Serialize` and `SerializeUnknown` make calls,
`ScriptReturns` and `ScriptThrows` go back to the waiting frame.  What a throw
does depends on where the empty handle is met: a required field gives up the
walk (186), any other property aborts in `ToLocalChecked` (190), an element is
passed over by the test of line 11, a number is stored as whatever the failed
conversion yields (`Junk`), a string is a null pointer that is dereferenced.

Data are abstracted to what the control can tell apart: a primitive carries a
payload of `Data` (a value the field can represent) or `Odd`; `Junk` is what a
conversion yields without a payload, `Falsy` the payloads that are false.

Left out: [hi, lo] halves are plain data, not getters or objects, and what number
they make is in `Int64`;
`SerializeToArray` into a buffer of `ByteSize` bytes does not fail; the test of
line 12 (optional and null) cannot be reached from `SerializePart`, which
filters null before, except for elements, whose field is not optional; oneofs,
maps, proxies; exhaustion of the stack is a bound on frames at which pushing one
aborts.  `toProtobuf` and `toString` of an object are both one wait for
JavaScript that may run or not; an object without them answers at once.

### SerializerContract and the refinement

The contract holds a heap, the open call and the answers.  `Reply` answers in one
step: null if a required field of the outermost object is null or undefined,
otherwise `Encode`, a recursive function of the object graph.  `Crash` is the
uncaught C++ exception of `stoll`.  `MCContract` maps the root frames to open
calls and each buffer to the tree of its message, and checks that every behaviour
of `Serializer` (with its fairness) is one of the contract.  Objects there have no
getters, so nothing runs in the middle of a call; values of every kind, lists,
buffers and nested objects occur in every field.

### Parser

A buffer is what the library reads in it: a message of the table `msgs`, in the
form in which `Serializer` leaves it, or no message at all (0).  `frames` is the
C++ stack, a frame per activation of `ParsePart` with its loop variables; `heap`
and `used` are V8's objects, taken from `Arena` in order.  One action is one step of
the loop: `SkipAbsent` (lines 223, 283), `ParseSingular` (244, 304), `BeginList`,
`ParseElement` and `EndList` (288-302).  A step on a scalar sets it, on a message
pushes a frame (`EnterMessage`) for the overload of line 259, which has forgotten
`use_typed_array`.  `EndPart` hands the object to the level above, or answers and
deletes the message; `EndPartWithUnknown` adds the fields that the reader's schema
does not have: `Known` says how many of a type's fields it has.  `Refuse` is the
unknown schema and the malformed buffer (`native.cpp:120`, 154), `Accept` the rest.
A buffer is malformed if it is no message or a required field is missing in one of the
messages that the reader looks into (`ReadIn`): none inside a field that it does not know.

A numeric field is read back as a payload: the one that was written, or `Leftover`
where the conversion that wrote it had none.  A string is what a C string keeps of
it (`Cut`), line 147.

### RoundTrip

An object is serialized, the buffer parsed, the answer serialized, and so on; a
buffer is the message it was written from.  `Serializer` and `Parser` do the steps on
one heap and one table of messages.

### WireParse

`stream` is the `CodedInputStream`: position, current and total limit, threshold,
`legitimate_message_end_`, recursion budget, as in the inline functions of
`coded_stream.h` and the comments on those that are out of line.  `levels` holds
what the callers of `PushLimit` keep: the limit to restore.  A byte is a tag and a
length at once, and what it is taken for depends on where it stands.  `SetLimits` is
`native.cpp:130-134` after `protobuf.js:45`; `ReadTag`, `ReadValue`, `ReadLength`
and `EndNested` are the library's loop over fields; `EndParse` is the test of
`IsInitialized` and the answer.  Words are scaled: `Word` stands for 2^32.

### Int64

A number is an integer that a double holds, a text a numeral that may go on with
something else, a pair two integers.  `Stores` gives what `SerializeField` may put
in the field: one value, none (the process ends in `stoll`), or any (the conversion
of a double is undefined outside the type).  `Answer` is `ParseField`.  `Send` and
`Receive` alternate for ever.  `Half` stands for 2^32 and `Exact` for 2^53.

### Pool

A descriptor set is a sequence of files with imports and types.  `ConstructThrows`
covers the assertion of `protobuf.js`, the call without `new` (line 19 applies `new`
to `pb_wrapper.apply`, which is no constructor) and `ParseFromArray`;
`ConstructAborts` is `Buffer::Data` of something else; `BuildFile` is one turn of
the loop, and what happens to a NULL there.  What the library's `BuildFile` accepts
(`CanBuild`) is external: a new file name, new type names, all imports present.

### Wrapper

`stack` is the JavaScript stack: code of the program, native calls, callbacks.
`CallInvalid` is the argument checks, `CallSync` and `CallAsync` the two paths,
`NativeReturns` what follows the native call (lines 54-58, 62-65, 109-124),
`CallbackThrows` the catch block: a callback called inside the try is called
again with what it threw.  `EnterGetter` lets the program run, and call, in the
middle of a native `serialize`; `NativeAborts` is the abort of `Serializer`.
`RunTick` and `RunTurn` are the event loop: ticks first, each on an empty stack.
An exception nobody catches ends the process or, with an `uncaughtException`
handler, only the tick.

`parse`'s deferred path does not test for null (line 62).  The native parse
returns null only together with a pending exception (`native.cpp:121`, `154`), so
`Outcomes` has no null for it and `ResultIsReal` holds there because of that, not
because of the wrapper.

### Addon

`log` is what the program has written, to which object and field; `reads` gives for
every call what it has read, as indices of the log.  A native call reads field
after field (`ReadField`); only an object in `Lively` has getters, in which the
program runs, writes and calls (`EnterGetter`).  The steps of `Wrapper` happen with
their own guards; `Addon` adds no scheduling.

## Runs

| run | question | instance |
|---|---|---|
| `serializer_script` | do `BufferIsComplete`, `NullMeansMissing`, `Ledger`, `OnePerIndex`, `WritesInnermostOnly` hold whatever JavaScript does in the middle? | two calls, nested or in sequence; a required string, a nested message with a required field, a repeated number; getters and converting objects in each position; JavaScript may empty the list, null the nested field, return or throw |
| `serializer_ends` | does every walk end? | a recursive message with a field of every kind; trees, objects that contain themselves, a list that grows into itself; three frames |
| `serializer_contract` | is the walk's result the contract's? | values of every kind in fields of every kind and label; two calls |
| `serializer_required` | README.md:97, "Throws if required fields are not present" | violated: the verdict on a nested message is dropped |
| `wrapper` | `RunsAlone`, `OwnFaultOnly`, `InOrder`, `ResultIsReal`, `EveryCallAnswered` | three calls, two turns, four stack frames |
| `parser` | is the answer the message (`ResultIsDecoded`, level by level, against the message), has every object one owner, do earlier answers stay as they were, is the message released, does every parse end? | two parses; every combination of present, absent, empty and filled fields of a type with a nested one; a reader that knows fewer fields than the writer; every choice of arrays |
| `roundtrip` | does one trip settle an object, and does nothing fail on later ones? | three trips; values of every kind in fields of every kind, nested and not |
| `wire` | how far is a buffer read? | every buffer of up to five bytes of five kinds, a bad tag, nesting beyond the recursion limit; words of four bits, every limit that a buffer can reach, those around the largest int and the largest word, a negative one; with and without a warning |
| `int64` | what do numbers, numerals and halves come to? | halves of three bits, doubles of four; every number, numeral and pair around both types |
| `pool` | which descriptor sets become objects (`BuiltIsConsistent`: no others, `ConsistentBuilds`: all those), and what is in them? | every sequence of up to three of five files that import each other, share a name or a type |
| `pool_invalid` | README.md:58, "next call will throw if desc file is invalid" | violated: a file that cannot be built ends the process |
| `addon` | of which moment is what a call reads? | two calls, two writes, two fields, objects with and without getters |

Deadlock is not checked: a program may stop calling, and an aborted process or one
whose bounds are used up has no step left.

Bounds.  Two calls are the least that can nest, interleave or reuse a schema; a
message type with one nested type has a frame to return to and one to return
from; lists of two elements have a next element after JavaScript ran for the
first.  `MaxStack` is
room for two nested walks of the two-level schema, one inside the other; in
`serializer_ends`, whose message type is recursive, it is what an object that
contains itself runs into.
Three wrapper calls allow one running, one queued and one made meanwhile; two
turns let a program call again after the queue was empty; four frames are a
program, a native call, its getter and a native call of the getter's.
Two parses are the least that could share an object, and the arena has room for
both.  Three trips compare two settled answers with the first.  Five bytes hold a
nested message inside another with a byte behind each end; with words of four
bits the limits tried are none, all up to five, the largest int (7) and one more, the
largest word (15), one that is more than a word (19) and a negative one (-3).  Three bits for a half
and four for a double leave numbers beyond `Exact` in both 64-bit types; the
theorems of `Int64Proofs` and `WireParseProofs` hold at every width.  Three files
are the least for an import that comes too late behind one that is there.  In
`addon` two writes to two fields are the least that can be seen in part.

Fairness.  In `Serializer`, the C++ walk takes its next step whenever it can and
JavaScript called by it comes back; nothing obliges the program to call, to
change objects, or a getter not to call.  In `Wrapper`, ticks are run (`WF`), the
program's code ends (`WF`), and a native call comes back however many getters it
has entered meanwhile (`SF`), which is `CallsEnd` of `Serializer`.  In `Parser`,
`WireParse` and `Pool` a native call, which nothing interrupts, takes its next step
(`WF`); nothing obliges the program to make one.

## Where the code departs from its documents

Two departures have a run that shows them, `serializer_required` and `pool_invalid`.
The others are part of the models, and the property named here states exactly how
far each one goes.

| the document | the code | stated by |
|---|---|---|
| README.md:93, :105, a callback in Node's style | it is called inside the `try` whose `catch` calls it again: a second time, with what it threw itself | `OwnFaultOnly` |
| README.md:105, exceptions go to the callback | a missing argument or one that is no Buffer is thrown at the caller | `CallInvalid` of `Wrapper` |
| CHANGES.md:40, memory leaks fixed | a `serialize` that answers null keeps its messages, `native.cpp:86` | `Ledger` |
| README.md:107, limit | a message that goes on behind the limit is answered as far as it was read; a limit of 2^31 or more, or a negative one, lets nothing be read | `MessagesEndProperly`, `NeverPastLimit` |
| README.md:107, "the warning threshold is set to limit/2" | it is the limit, `native.cpp:133` | `SetLimits` of `WireParse` |
| README.md:111, "Throws if Buffer is malformed" | nobody asks `ConsumedEntireMessage`: what follows a zero byte or an end-group tag is dropped, and a nested message that the buffer cuts short is accepted | `MessagesEndProperly` |
| README.md:81, int64 "to/from JavaScript" as [hi, lo] | only to: `parse` answers numerals, `parse.cpp:58`, 81 | `ParsedIsSerializable`, `TextIsLossless` |
| README.md:69, "exactly the same as obj" | a string ends at its first NUL, `serialize.cpp:162`, `parse.cpp:147` | `Settled`: on the first trip only |
| README.md:85, "you'll lose some data" | rounding takes numbers near 2^63 out of the type; sending those again is undefined | `NumbersComeBack`: those only |
| README.md:121, "all available schemas" | messages inside others are usable and not listed, `native.cpp:12` | `BuiltIsWhole` |
| `use_typed_array` is the caller's choice, `native.cpp:137` | nested messages have typed arrays anyway, `parse.cpp:130` | `ResultIsDecoded` |

## Proofs

All proofs are checked by TLAPS, for every value of the constants under the
assumptions of the modules.  These say:

- of schemas, heaps, updates, answers, buffers and files that they are well typed,
  of bounds that they are natural numbers, and of payloads that the special ones are
  no others (`Values`, `Serializer`, `WireParse`, `Pool`, `Wrapper`, `Addon`);
- of the numbers, that the widths are even and the exact range is smaller than the
  type, that the spacing of doubles doubles from one range to the next and is known
  for every number of a field, and that a number the program gives is a double
  (`Int64`);
- of a message that the library has read, that it fits its schema: a list of items
  per field, of the field's kind, nested messages of the field's type (`WellFormed`
  in `Parser`); of a schema, that its fields have different names, which the library
  checks, none of them `$unknownFields`, which is no identifier; of V8, that no
  object is allocated twice.

TLC evaluates each of them on the instances.

### Serializer

`SerializerProofs` proves every safety property of the run `serializer_script`, from
two inductive invariants.  `IInv` gives type correctness, `BufferIsComplete` and the
action property `WritesInnermostOnly`.  It says of every frame that it is at a field of
its message whenever it loops, waits or has called another (`FramesFit`), that a
frame which is not a root was called for a message field of the frame below
(`CallersFit`), and that no field every value sets is empty behind the field the
frame is at (`NoneSkipped`).  The last is what makes a buffer complete when the walk
reaches the end; the first two are needed at a return, where the caller steps over a
field that its callee's verdict says nothing about: it is a message field, of the
kinds that `BufferIsComplete` does not speak of.  All step proofs go through three
shapes: the top frame is replaced (`TopStep`), a frame is pushed (`Pushed`), a frame
is popped (`Retopped`), each under the fact that messages only grow (`MsgsGrow`).

`Accounts` gives `Ledger`, `NullMeansMissing` and `OnePerIndex`, which speak of
several calls at once.  No two frames fill one message and every message belongs to
the call it was made in (`OwnMessages`), what was answered is filled by nobody
(`Finished`), the call of every message being filled is on the stack (`RootsRun`),
fields ahead of a frame are empty (`NoneAhead`), and lists hold what their loops have
passed (`AllCounted`).  A step of the system is first reduced to what it does to the
stack and the messages, whatever value and whatever JavaScript led to it (`Shape`:
a field filled, passed over or asked for, a list opened or ended, a call, a return),
and the invariant is proved of those.

### Parser

`ParserProofs` proves every safety property of the run `parser`, from four inductive
invariants.
The first invariant, `IInv`, gives `TypeOK` and `Released`: an activation stands at a
field and an element that its message has, and all but the innermost at a message
item (`FramesFit`); while one runs, an answer is awaited and one message is held.
It rests on lemmas about the recursive functions of the community modules that
`UnknownFields` uses, proved by taking the least counterexample.

The second, `Placing`, gives `OneOwner`.  An object that was made is in exactly one
place (`Sole`: exactly one, and not at least and at most one in two steps, since a
step moves an object from its activation to the level above); an object still to be
made is in none and refers to nothing (`Unmade`); and the properties and elements an
activation has yet to set hold no object (`Ahead`), for otherwise setting one
would lose what was there.  Here the names matter: a field that another field
of the same name had set before would not be empty.  That one place is one owner, by
the cardinalities of `Owners`, is `OnePlaceOneOwner`.

The third, `FillsRecent`, gives the action property `KeepsObjects`: what an activation
fills was made since the outermost one began.

The fourth, `Decoding`, gives `ResultIsDecoded`, for the objects of every level.  It says
that there is a function `of` from the objects that activations were begun for to what
each stands for: a message, the choice of arrays, with the unknown fields or without
(`Consistent`).  An object that no activation fills shows all of its message
(`Complete`); one that is being filled shows the fields before the current one, the
list in progress the items before the current one, and everything else is still
undefined (`Partial`); the object that a value of a message field refers to stands for
that message, with typed arrays and without unknown fields (`ShownAs`); an activation
stands for the item that its caller is at (`Chained`), the outermost one for what was
asked (`Asking`), and so does the object of every answer (`AnswerRight`).  What one
activation writes disturbs no other object that was shown, and this is where
`Placing` is needed: the object and the list of an activation are referred to from
nowhere else in the heap (`Private`).  The property then follows by induction on the
level: the parts of an image that is right are right (`PartStands`).  The recursive
function that collects the levels exists (`LevelsExist`) and is the only one
(`LevelsAgree`), by the least counterexample.

### Wire, conversions, pool

`WireParseProofs` proves every safety property of the run `wire`.  The strengthening
has the limit asked for in force from the moment it is set (`TotalAsAsked`), the
position before every limit (`BeforeLimits`), and the suspended limits in order
(`LimitsNest`).  For `MessagesEndProperly` it adds that an end found legitimate is at
the limit or at the end of the data (`EndsWell`), and that the outermost message has
no limit of its own (`Outermost`), so that only the total limit can end it early.

`Int64Proofs` proves every property of the run `int64`, at every width.  Halves store
their number and texts are lossless because division and remainder by `Half` take a
number apart and put it together again (`PairOfHalves`), a text that was parsed is
the numeral of what is stored (`StoredFromValue`), and each conversion back is the
identity there, so that there is always something to store and the process goes on.  Type correctness, `LosesLittle` and `NumbersComeBack` need the second
invariant, `SInv`, in which a value that was received is the answer to what is
stored, and the lemmas on rounding: a double is rounded to itself, rounding is off by
no more than half the spacing, and it does not leave the range of doubles.

`PoolProofs` proves every safety property of the run `pool`: in every state of the
constructor the pool is the first `file` files of the set, `info` lists their top-level
names, and each of those files stands behind what it imports and agrees with the files
before it (`Follows`).  The last is the invariant behind `OnlyConsistentSets`; its step
(`BuiltFollows`) needs the two ways of `BuildFile` apart, since a file that is in the set
twice agrees with what followed its first copy, not with itself alone.

### Wrapper and Addon

`WrapperProofs` proves every safety invariant of the run `wrapper`.  The
strengthening says which calls the queue and the stack hold: fresh ones, each in
one place (`FramesServe`, `FramesDistinct`, `TicksFresh`), in the order they were
made (`TicksSorted`, `TicksLater`), every waiting call among them (`WaitingKept`),
and what a callback was told follows from the native outcome (`Told`).

`AddonProofs` proves that `Addon` implements `Wrapper` (`Refines`: every step is a step
of `Wrapper` or leaves its variables alone), so that the invariant of `WrapperProofs`
holds of it too, and from that one every property of the run `addon`.  `AInv`
says that every field a call has read is the object's content at some moment since
the call was made, later fields at later moments (`AllHonest`), that of an object
without getters it is the current content while the call runs (`UpToDate`; a call that
is suspended reads an object with getters, `SuspendedIsLively`), that a call in the
queue has read nothing (`TicksUnread`) and a successful one everything (`Complete`),
and that no call has read anything older than an earlier one with a callback
(`ReadsLater`).

### Model-checked only

- `Settled`, `ParsedIsSerializable` and `ImplementsContract`: they compare with recursive
  definitions (`View`, `Encode`) or are stated in a module that has one, and the
  prover takes no module with a recursive operator;
- `CallsEnd`, `EveryCallAnswered`, `ParsesAnswer`, `ParseEnds` and `ConsistentBuilds`,
  which are liveness under fairness.

## Not modelled

The encoding of values on the wire, `ByteSize` and `SerializeToArray`; groups and
packed fields; the presence rules of proto3 (a field without presence is left out
when it has its default value); the rounding of `float` fields; setters on
`Object.prototype`, which could observe the parser's `Set`; build scripts, tests,
benchmarks, `leak.js`.

Nearly all lines of the repository are headers of a vendored release of protobuf
(`lpb_release/include`), most of them generated accessors, containers and options
whose bodies are in a library that is not here.  The addon's own code is about a
thousand lines.  Of the library, the models take what the addon's behaviour hangs
on: the stream's limits and ends, the pool's building of files, reflection's
getters and setters; the rest has no state that the addon can reach.

## Plan

Done: the modules above and their proofs.  Left:

1. A statement of the serializer's contract that does not recurse (what a buffer's message
   holds of its object, level by level, for objects that run no JavaScript), as
   `ResultIsDecoded` is for the parser, so that a theorem can hold it for every schema.
2. The theorems of `ParserProofs` in the composition: they are about a table of messages
   chosen at the start, and in `RoundTrip` the serializer's bytes make the table as it runs.
