------------------------------ MODULE PoolProofs ------------------------------
(***************************************************************************)
(* Theorems of Pool, for every descriptor set.                             *)
(***************************************************************************)
EXTENDS Pool, TLAPS

----------------------------------------------------------------------------
(* Sequences and their sets.                                               *)

\* The elements of two sequences one behind the other.
LEMMA SetOfBoth ==
  ASSUME NEW S, NEW s \in Seq(S), NEW t \in Seq(S)
  PROVE  s \o t \in Seq(S) /\ ToSet(s \o t) = ToSet(s) \cup ToSet(t)
<1> DEFINE b == s \o t
<1>1. /\ b \in Seq(S) /\ Len(b) = Len(s) + Len(t) /\ Len(s) \in Nat /\ Len(t) \in Nat
      /\ \A k \in 1..Len(s) : b[k] = s[k]
      /\ \A k \in 1..Len(t) : b[Len(s) + k] = t[k]
  OBVIOUS
<1>2. DOMAIN s = 1..Len(s) /\ DOMAIN t = 1..Len(t) /\ DOMAIN b = 1..Len(s) + Len(t)
  BY <1>1
<1> HIDE DEF b
<1>3. ToSet(b) \subseteq ToSet(s) \cup ToSet(t)
  <2> SUFFICES ASSUME NEW k \in 1..Len(s) + Len(t) PROVE b[k] \in ToSet(s) \cup ToSet(t)
    BY <1>2 DEF ToSet
  <2>1. CASE k <= Len(s)
    BY <1>1, <1>2, <2>1 DEF ToSet
  <2>2. CASE k > Len(s)
    <3>1. k - Len(s) \in 1..Len(t) /\ k = Len(s) + (k - Len(s))
      BY <1>1, <2>2
    <3>2. b[k] = t[k - Len(s)]
      BY <1>1, <3>1
    <3> QED BY <1>2, <3>1, <3>2 DEF ToSet
  <2> QED BY <1>1, <2>1, <2>2
<1>4. ToSet(s) \subseteq ToSet(b)
  BY <1>1, <1>2 DEF ToSet
<1>5. ToSet(t) \subseteq ToSet(b)
  <2> SUFFICES ASSUME NEW k \in 1..Len(t) PROVE t[k] \in ToSet(b)
    BY <1>2 DEF ToSet
  <2>1. b[Len(s) + k] = t[k] /\ Len(s) + k \in 1..Len(s) + Len(t)
    BY <1>1
  <2> QED BY <1>2, <2>1 DEF ToSet
<1> QED BY <1>1, <1>3, <1>4, <1>5 DEF b

----------------------------------------------------------------------------
(* The inductive invariant.                                                *)

files == descriptor.files
Tops(fs) == UNION {ToSet(f.messages) : f \in fs}

\* A file has what it imports before it, and agrees with all that are there.
Agree(f, g) == g = f \/ (g.name # f.name /\ Defines(g) \cap Defines(f) = {})
Follows(fs, i) ==
  /\ fs[i].imports \subseteq {fs[j].name : j \in 1..(i - 1)}
  /\ \A j \in 1..(i - 1) : Agree(fs[i], fs[j])

\* The pool holds the files that the loop has come past, info their messages,
\* and each of those files was where it could be built.
PoolIsBuilt ==
  /\ pool = {files[j] : j \in 1..file}
  /\ ToSet(info) = Tops(pool)
  /\ \A i \in 1..file : Follows(files, i)

\* Only a loop that is over makes an object, and what was asked was answered from
\* the whole pool.
Answered ==
  /\ object = "built" => file = Len(files)
  /\ asked # Nothing => (asked.found <=> asked.name \in Defined(pool))

IInv == TypeOK /\ PoolIsBuilt /\ Answered

\* The files of any first argument are files.
LEMMA FilesAreFiles ==
  ASSUME NEW a \in Argument
  PROVE  a.files \in Seq(File)
<1>1. a.files \in FileSets \/ a.files = <<>>
  BY DEF Argument
<1>2. <<>> \in Seq(File)
  OBVIOUS
<1> QED BY <1>1, <1>2, FileAssumption

LEMMA FileFacts ==
  ASSUME TypeOK
  PROVE  /\ files \in Seq(File) /\ Len(files) \in Nat /\ DOMAIN files = 1..Len(files)
         /\ file \in Nat /\ file <= Len(files)
<1>1. files \in Seq(File)
  BY FilesAreFiles DEF TypeOK, files
<1> QED BY <1>1 DEF TypeOK, files

LEMMA InitIInv == Init => IInv
<1> SUFFICES ASSUME Init PROVE IInv
  OBVIOUS
<1>1. descriptor.files \in Seq(File)
  BY FilesAreFiles DEF Init
<1>2. 0 \in 0..Len(descriptor.files) /\ <<>> \in Seq(Names)
  BY <1>1
<1>3. TypeOK
  BY <1>2 DEF Init, TypeOK
<1>4. ToSet(info) = {}
  BY DEF Init, ToSet
<1> QED BY <1>3, <1>4 DEF Init, IInv, PoolIsBuilt, Answered, Tops, files

\* A file that can be built follows those of the pool: as a new one, or as one of
\* them did.
LEMMA BuiltFollows ==
  ASSUME NEW fs, NEW n \in Nat, pool = {fs[j] : j \in 1..n},
         \A i \in 1..n : Follows(fs, i), CanBuild(fs[n + 1])
  PROVE  Follows(fs, n + 1)
<1>1. (n + 1) - 1 = n
  OBVIOUS
<1>2. CASE fs[n + 1] \in pool
  <2>1. PICK k \in 1..n : fs[k] = fs[n + 1]
    BY <1>2
  <2>2. Follows(fs, k) /\ 1..(k - 1) \subseteq 1..n
    BY <2>1
  <2>3. fs[n + 1].imports \subseteq {fs[j].name : j \in 1..n}
    BY <2>1, <2>2 DEF Follows
  <2>4. ASSUME NEW j \in 1..n PROVE Agree(fs[n + 1], fs[j])
    <3>1. CASE j < k
      BY <2>1, <2>2, <3>1 DEF Follows
    <3>2. CASE j = k
      BY <2>1, <3>2 DEF Agree
    <3>3. CASE j > k
      <4>1. Follows(fs, j) /\ k \in 1..(j - 1)
        BY <3>3
      <4>2. Agree(fs[j], fs[k])
        BY <4>1 DEF Follows
      <4> QED BY <2>1, <4>2 DEF Agree
    <3> QED BY <3>1, <3>2, <3>3
  <2> QED BY <1>1, <2>3, <2>4 DEF Follows
<1>3. CASE fs[n + 1] \notin pool
  <2>1. /\ fs[n + 1].name \notin Importable /\ fs[n + 1].imports \subseteq Importable
        /\ Defines(fs[n + 1]) \cap Defined(pool) = {}
    BY <1>3 DEF CanBuild
  <2>2. Importable = {fs[j].name : j \in 1..n}
    BY DEF Importable
  <2>3. ASSUME NEW j \in 1..n PROVE Agree(fs[n + 1], fs[j])
    <3>1. fs[j] \in pool
      OBVIOUS
    <3>2. Defines(fs[j]) \subseteq Defined(pool)
      BY <3>1, Zenon DEF Defined
    <3> QED BY <2>1, <2>2, <3>2 DEF Agree
  <2> QED BY <1>1, <2>1, <2>2, <2>3 DEF Follows
<1> QED BY <1>2, <1>3

LEMMA BuildFileKeeps ==
  ASSUME IInv, BuildFile
  PROVE  IInv'
<1> USE FileFacts
<1>1. TypeOK /\ object = "building" /\ asked = Nothing /\ descriptor' = descriptor
      /\ called' = called /\ asked' = asked
  BY DEF IInv, TypeOK, BuildFile, Nothing
<1>2. Current = files[file + 1] /\ file + 1 \in 1..Len(files) /\ Current \in File
      /\ Current \in ToSet(files)
  BY <1>1 DEF BuildFile, Current, files, ToSet
<1>3. CASE object' = "crashed" /\ UNCHANGED <<pool, info, file>>
  BY <1>1, <1>3 DEF IInv, TypeOK, PoolIsBuilt, Answered, files
<1>4. CASE CanBuild(Current) /\ pool' = pool \cup {Current} /\ info' = info \o Current.messages
           /\ file' = file + 1 /\ object' = object
  <2>1. info' \in Seq(Names) /\ ToSet(info') = ToSet(info) \cup ToSet(Current.messages)
    <3>1. info \in Seq(Names) /\ Current.messages \in Seq(Names)
      BY <1>1, <1>2 DEF TypeOK, File
    <3> QED BY <1>4, <3>1, SetOfBoth
  <2>2. TypeOK'
    BY <1>1, <1>2, <1>4, <2>1 DEF TypeOK, files
  <2>3. pool' = {files[j] : j \in 1..file'}
    BY <1>1, <1>2, <1>4 DEF IInv, PoolIsBuilt
  <2>4. ToSet(info') = Tops(pool')
    BY <1>4, <2>1 DEF IInv, PoolIsBuilt, Tops
  <2>5. \A i \in 1..file' : Follows(files, i)
    <3>1. Follows(files, file + 1)
      <4>1. CanBuild(files[file + 1]) /\ file \in Nat
        BY <1>1, <1>2, <1>4
      <4>2. pool = {files[j] : j \in 1..file} /\ \A i \in 1..file : Follows(files, i)
        BY DEF IInv, PoolIsBuilt
      <4> QED BY <4>1, <4>2, BuiltFollows, Zenon
    <3>2. \A i \in 1..(file + 1) : i \in 1..file \/ i = file + 1
      BY <1>1
    <3> QED BY <1>4, <3>1, <3>2 DEF IInv, PoolIsBuilt
  <2> QED BY <1>1, <1>4, <2>2, <2>3, <2>4, <2>5
       DEF IInv, PoolIsBuilt, Answered, files, Tops
<1> QED BY <1>3, <1>4 DEF BuildFile

LEMMA StepKeeps == IInv /\ [Next]_vars => IInv'
<1> SUFFICES ASSUME IInv, [Next]_vars PROVE IInv'
  OBVIOUS
<1> USE DEF IInv, PoolIsBuilt, files
<1>1. CASE UNCHANGED vars
  BY <1>1 DEF vars, TypeOK, Answered
<1>2. CASE ConstructThrows \/ ConstructAborts \/ New
  BY <1>2 DEF ConstructThrows, ConstructAborts, New, TypeOK, Answered, Nothing
<1>3. CASE Wrap
  BY <1>3, ZenonT(40) DEF Wrap, TypeOK, Answered, Nothing
<1>4. ASSUME NEW name \in Names, FindSchema(name) PROVE IInv'
  BY <1>4 DEF FindSchema, TypeOK, Answered, Defined
<1> QED BY <1>1, <1>2, <1>3, <1>4, BuildFileKeeps DEF Next, Construct

----------------------------------------------------------------------------
(* Theorems.                                                               *)

LEMMA AlwaysIInv == Spec => []IInv
<1> QED BY InitIInv, StepKeeps, PTL DEF Spec

\* The loop stays within the descriptor set, puts nothing but its files into the
\* pool, and no look-up is answered before the object is there.
THEOREM TypeCorrect == Spec => []TypeOK
<1>1. IInv => TypeOK
  BY DEF IInv
<1> QED BY <1>1, AlwaysIInv, PTL

\* A program never gets an object of a descriptor set whose files do not fit
\* together, although the result of BuildFile is not tested (native.cpp:11): no
\* schema it can use has a field of a type that is missing.
THEOREM OnlyConsistentSets == Spec => []BuiltIsConsistent
<1>1. IInv => BuiltIsConsistent
  <2> SUFFICES ASSUME IInv, object = "built" PROVE Consistent(files)
    BY DEF BuiltIsConsistent, files
  <2>1. \A i \in 1..Len(files) : Follows(files, i)
    BY DEF IInv, PoolIsBuilt, Answered
  <2> QED BY <2>1, Zenon DEF Consistent, Follows, Agree
<1> QED BY <1>1, AlwaysIInv, PTL

\* A program never gets an object that lacks a schema of its descriptor set.
THEOREM ObjectsAreWhole == Spec => []BuiltIsWhole
<1>1. IInv => BuiltIsWhole
  <2> SUFFICES ASSUME IInv, object = "built" PROVE BuiltIsWhole
    BY DEF BuiltIsWhole
  <2>1. pool = ToSet(files)
    BY FileFacts DEF IInv, PoolIsBuilt, Answered, ToSet
  <2> QED BY <2>1 DEF IInv, PoolIsBuilt, Answered, BuiltIsWhole, Tops, files
<1> QED BY <1>1, AlwaysIInv, PTL
===============================================================================
