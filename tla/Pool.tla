--------------------------------- MODULE Pool ---------------------------------
(***************************************************************************)
(* One protobuf object: pb_wrapper's constructor, NativeProtobuf::New with *)
(* its loop that builds the files of a descriptor set into a pool, and     *)
(* what info() and the look-up of a schema answer afterwards.              *)
(***************************************************************************)
EXTENDS Integers, SequencesExt

CONSTANTS
  FileSets,  \* the descriptor sets, sequences of files
  Names      \* schema names that a program may ask for

\* A file: its name, the names of the files it imports, and the full names of
\* its messages, in order, and of those inside them.
File == [name : STRING, imports : SUBSET STRING, messages : Seq(Names), nested : SUBSET Names]

ASSUME FileAssumption == \A fs \in FileSets : fs \in Seq(File)

\* The first argument: a Buffer with a descriptor set, or with something else,
\* a value that is no Buffer, or nothing.
Argument ==
  [kind : {"set"}, files : FileSets]
    \cup [kind : {"none", "malformed", "no buffer"}, files : {<<>>}]

VARIABLES
  descriptor,  \* the first argument
  called,      \* "new", or "function" for a call without new
  file,        \* how many files the loop has built
  pool,        \* the files in the pool
  info,        \* NativeProtobuf::info
  object,      \* "none", "building", "built", "threw" or "crashed"
  asked        \* the last schema asked for, and whether it was found

vars == <<descriptor, called, file, pool, info, object, asked>>

Nothing == [name |-> "", found |-> FALSE]

Defines(f)   == ToSet(f.messages) \cup f.nested
Importable   == {f.name : f \in pool}
Defined(fs)  == UNION {Defines(f) : f \in fs}

----------------------------------------------------------------------------
(* The library's pool.                                                     *)

\* Mutant: AllowUnknownDependencies, so that an import need not be there.
CanBuildAlone(f) ==
  f \in pool \/ (f.name \notin Importable /\ Defines(f) \cap Defined(pool) = {})

\* BuildFile: a file that is there already, or one with a name and types of its
\* own whose imports are all there.  Otherwise it answers NULL.
CanBuild(f) ==
  \/ f \in pool
  \/ f.name \notin Importable /\ f.imports \subseteq Importable /\ Defines(f) \cap Defined(pool) = {}

----------------------------------------------------------------------------
(* The constructors.                                                       *)

\* protobuf.js: `new pb_wrapper.apply(...)` is no constructor, and the assertion
\* wants a descriptor.  native.cpp: ParseFromArray.
ConstructThrows ==
  /\ object = "none" /\ (called = "function" \/ descriptor.kind \in {"none", "malformed"})
  /\ object' = "threw"
  /\ UNCHANGED <<descriptor, called, file, pool, info, asked>>

\* Buffer::Data asserts a Buffer.
ConstructAborts ==
  /\ object = "none" /\ called = "new" /\ descriptor.kind = "no buffer"
  /\ object' = "crashed"
  /\ UNCHANGED <<descriptor, called, file, pool, info, asked>>

New ==
  /\ object = "none" /\ called = "new" /\ descriptor.kind = "set"
  /\ object' = "building"
  /\ UNCHANGED <<descriptor, called, file, pool, info, asked>>

\* Mutant: the files last to first.
CurrentFromLast == descriptor.files[Len(descriptor.files) - file]

Current == descriptor.files[file + 1]

\* Mutant: a file that was not built is skipped.
BuildFileOrSkip ==
  /\ object = "building" /\ file < Len(descriptor.files)
  /\ file' = file + 1
  /\ pool' = IF CanBuild(Current) THEN pool \cup {Current} ELSE pool
  /\ info' = IF CanBuild(Current) THEN info \o Current.messages ELSE info
  /\ UNCHANGED <<descriptor, called, object, asked>>

\* pool.BuildFile, and the names of the file's messages.  The result is used
\* without a look at it: NULL ends the process.
BuildFile ==
  /\ object = "building" /\ file < Len(descriptor.files)
  /\ \/ /\ CanBuild(Current)
        /\ pool' = pool \cup {Current}
        /\ info' = info \o Current.messages
        /\ file' = file + 1 /\ UNCHANGED object
     \/ /\ ~CanBuild(Current)
        /\ object' = "crashed" /\ UNCHANGED <<pool, info, file>>
  /\ UNCHANGED <<descriptor, called, asked>>

\* The loop is over: proto->Wrap, and the object is the program's.
Wrap ==
  /\ object = "building" /\ file = Len(descriptor.files)
  /\ object' = "built"
  /\ UNCHANGED <<descriptor, called, file, pool, info, asked>>

\* Mutant: a call gets through before the constructor is done.
FindSchemaEarly(name) ==
  /\ object \in {"building", "built"}
  /\ asked' = [name |-> name, found |-> name \in Defined(pool)]
  /\ UNCHANGED <<descriptor, called, file, pool, info, object>>

\* parse() or serialize() looks its schema up.
FindSchema(name) ==
  /\ object = "built"
  /\ asked' = [name |-> name, found |-> name \in Defined(pool)]
  /\ UNCHANGED <<descriptor, called, file, pool, info, object>>

Construct == ConstructThrows \/ ConstructAborts \/ New \/ BuildFile \/ Wrap

Init ==
  /\ descriptor \in Argument /\ called \in {"new", "function"}
  /\ file = 0 /\ pool = {} /\ info = <<>> /\ object = "none" /\ asked = Nothing

Next == Construct \/ \E name \in Names : FindSchema(name)

Spec == Init /\ [][Next]_vars
\* The constructor is one synchronous call; what a program asks is up to it.
FairSpec == Spec /\ WF_vars(Construct)

----------------------------------------------------------------------------
(* Properties.                                                             *)

\* The variables have their types.
TypeOK ==
  /\ descriptor \in Argument /\ called \in {"new", "function"}
  /\ file \in 0..Len(descriptor.files)
  /\ pool \subseteq ToSet(descriptor.files) /\ info \in Seq(Names)
  /\ object \in {"none", "building", "built", "threw", "crashed"}
  /\ asked = Nothing \/ (asked.name \in Names /\ object = "built")

\* An object that a program gets is whole: a schema is found if and only if the
\* descriptor set defines it, at the top or inside another, and info() lists the
\* top ones.
BuiltIsWhole ==
  object = "built" =>
    /\ ToSet(info) = UNION {ToSet(f.messages) : f \in ToSet(descriptor.files)}
    /\ asked # Nothing => (asked.found <=> asked.name \in Defined(ToSet(descriptor.files)))

\* A descriptor set as protoc --include_imports writes it: imports first, no type
\* in two files, no two files of one name; a file may be there more than once.
Consistent(fs) ==
  \A i \in 1..Len(fs) :
    /\ fs[i].imports \subseteq {fs[j].name : j \in 1..(i - 1)}
    /\ \A j \in 1..(i - 1) :
         fs[j] = fs[i] \/ (fs[j].name # fs[i].name /\ Defines(fs[j]) \cap Defines(fs[i]) = {})

\* A program never gets an object of any other set, one whose messages may have
\* fields of a type that is not there, or of one that another file defines anew:
\* the loop does not test what BuildFile answers, and has to end in some way at
\* the first file that is refused (native.cpp:11).
BuiltIsConsistent == object = "built" => Consistent(descriptor.files)

\* Such a set always becomes an object.
ConsistentBuilds ==
  called = "new" /\ descriptor.kind = "set" /\ Consistent(descriptor.files) ~> object = "built"

----------------------------------------------------------------------------
(* What the documents say and the code does not do.                        *)

\* README.md:58, "next call will throw if desc file is invalid".
InvalidThrows == descriptor.kind = "set" => object # "crashed"
===============================================================================
