-------------------------------- MODULE Int64 --------------------------------
(***************************************************************************)
(* The integers of a field on their way between JavaScript and a message:  *)
(* the number, text or [hi, lo] array that SerializeField converts, and    *)
(* the number or text that ParseField makes of what is stored.  A program  *)
(* sends a value, reads it back and sends what it has read, for ever.      *)
(*                                                                         *)
(* The widths are parameters: Half stands for 2^32 and Exact for 2^53, up  *)
(* to which a double holds every integer.                                  *)
(***************************************************************************)
EXTENDS Integers

CONSTANTS
  Half,     \* 2^32, scaled
  Exact,    \* 2^53, scaled
  Scales,   \* the spacings of doubles, powers of two
  Given     \* the values that a program sends

Full == Half * Half

\* A number is an integer that a double holds; a text starts with the numeral n
\* and may go on; "NaN" stands for all that is no number.
Number(n)    == [tag |-> "number", n |-> n]
Text(n, s)   == [tag |-> "text", n |-> n, more |-> s]
Pair(hi, lo) == [tag |-> "pair", hi |-> hi, lo |-> lo]
NaN  == [tag |-> "NaN"]
Word == [tag |-> "word"]
Value ==
  [tag : {"number"}, n : Int] \cup [tag : {"text"}, n : Int, more : BOOLEAN]
    \cup [tag : {"pair"}, hi : Int, lo : Int] \cup {NaN, Word}

Abs(n) == IF n < 0 THEN -n ELSE n
\* u is the distance between the doubles around n.
Spacing(u, n) == Abs(n) <= Exact * u /\ (u = 1 \/ 2 * Abs(n) > Exact * u)
IsDouble(n)   == \E u \in Scales : Spacing(u, n) /\ n % u = 0

ASSUME WidthAssumption ==
  /\ Half \in Nat \ {0} /\ Half % 2 = 0
  /\ Exact \in Nat \ {0} /\ Exact < Full \div 2
  /\ Scales \subseteq Nat \ {0} /\ \A u, v \in Scales : u < v => v % (2 * u) = 0
  /\ \A n \in -Full..Full : \E u \in Scales : Spacing(u, n)
ASSUME GivenAssumption ==
  /\ Given \subseteq Value
  /\ \A v \in Given : /\ v.tag = "number" => IsDouble(v.n)
                      /\ v.tag = "text" => \E u \in Scales : Spacing(u, v.n)

Types == {"int32", "uint32", "int64", "uint64"}

\* What a field of a type holds.
Values(t) ==
  CASE t = "int32"  -> -(Half \div 2) .. Half \div 2 - 1
    [] t = "uint32" -> 0 .. Half - 1
    [] t = "int64"  -> -(Full \div 2) .. Full \div 2 - 1
    [] t = "uint64" -> 0 .. Full - 1

VARIABLES
  type,      \* the field's type
  preserve,  \* preserve_int64
  value,     \* the JavaScript value at hand
  stored,    \* what the message's field holds
  parsed,    \* whether value is what parse() answered
  at         \* what comes next: "send", "receive", or "aborted"

vars == <<type, preserve, value, stored, parsed, at>>

----------------------------------------------------------------------------
(* Doubles.                                                                *)

Ulp(n) == CHOOSE u \in Scales : Spacing(u, n)

\* The nearest double, of two the even one.
Round(n) ==
  LET u == Ulp(n)  q == n \div u  r == n % u
  IN  IF 2 * r < u \/ (2 * r = u /\ q % 2 = 0) THEN q * u ELSE (q + 1) * u

\* Value::NumberValue.  A pair is no number, a text only if nothing follows.
NumberValue(v) ==
  CASE v.tag = "number" -> v
    [] v.tag = "text" /\ ~v.more -> Number(Round(v.n))
    [] OTHER -> NaN

\* Value::Int32Value and Uint32Value: modulo 2^32, zero for no number.
Uint32Value(v) ==
  LET x == NumberValue(v) IN IF x = NaN THEN 0 ELSE x.n % Half

\* The bits x, read as a value of the type.
OfBits(t, x) == CHOOSE n \in Values(t) : \E k \in -1..0 : n = x + k * (IF t = "int32" THEN Half ELSE Full)

----------------------------------------------------------------------------
(* SerializeField and ParseField.                                          *)

\* Mutant: the low half keeps its sign.
FromPairSigned(v) == ((v.hi % Half) * Half + v.lo) % Full

\* ((uint64)hi << 32) + (uint64)lo
FromPair(v) == (v.hi % Half) * Half + (v.lo % Half)

\* Mutant: one of the two functions for both types.
FromTextSigned(t, v) == {v.n} \cap Values("int64")

\* std::stoll, or std::stoull, which takes a minus sign: what is stored, or
\* nothing when the number is out of range and the exception ends the process.
FromText(t, v) ==
  IF t = "int64" THEN {v.n} \cap Values(t)
  ELSE IF Abs(v.n) < Full THEN {v.n % Full} ELSE {}

\* Mutant: the conversion for 32 bits.
FromNumberNarrow(t, v) == {Uint32Value(v)}

\* The conversion from double is undefined outside the type.
FromNumber(t, v) ==
  LET x == NumberValue(v)
  IN  IF x # NaN /\ x.n \in Values(t) THEN {x.n} ELSE Values(t)

Wide == type \in {"int64", "uint64"}

Stores(v) ==
  CASE type = "int32"  -> {OfBits(type, Uint32Value(v))}
    [] type = "uint32" -> {Uint32Value(v)}
    [] Wide /\ preserve /\ v.tag = "pair" -> {OfBits(type, FromPair(v))}
    [] Wide /\ preserve /\ v.tag = "text" -> FromText(type, v)
    [] Wide /\ preserve /\ v.tag = "word" -> {}
    [] OTHER -> FromNumber(type, v)

\* Mutant: a cast where the conversion rounds.
AnswerTruncated(n) ==
  IF Wide /\ preserve THEN Text(n, FALSE) ELSE Number((n \div Ulp(n)) * Ulp(n))

Answer(n) == IF Wide /\ preserve THEN Text(n, FALSE) ELSE Number(Round(n))

Send ==
  /\ at = "send"
  /\ \/ stored' \in Stores(value) /\ at' = "receive"
     \/ Stores(value) = {} /\ at' = "aborted" /\ UNCHANGED stored
  /\ UNCHANGED <<type, preserve, value, parsed>>

Receive ==
  /\ at = "receive"
  /\ value' = Answer(stored) /\ parsed' = TRUE /\ at' = "send"
  /\ UNCHANGED <<type, preserve, stored>>

Init ==
  /\ type \in Types /\ preserve \in BOOLEAN
  /\ value \in Given /\ stored = 0 /\ parsed = FALSE /\ at = "send"

Next == Send \/ Receive
Spec == Init /\ [][Next]_vars

----------------------------------------------------------------------------
(* Properties.                                                             *)

Sent == at = "receive"

\* What is stored has its field's type, and only a value that was not read back
\* ends the process.
TypeOK ==
  /\ type \in Types /\ preserve \in BOOLEAN /\ parsed \in BOOLEAN
  /\ value \in Given \/ value.tag \in {"number", "text"}
  /\ stored \in Values(type)
  /\ at \in {"send", "receive"} \/ (at = "aborted" /\ ~parsed)

\* The halves of n, each as a signed or an unsigned number.
HalvesOf(n) ==
  {Pair(hi, lo) : hi \in {h \in -Half .. Half - 1 : h % Half = (n \div Half) % Half},
                  lo \in {l \in -Half .. Half - 1 : l % Half = n % Half}}

\* [hi, lo] stores the number whose halves they are, whichever way a program has
\* come by its 32-bit halves, and however negative (serialize.cpp:26 to 31).
HalvesMeanTheNumber ==
  Sent /\ preserve /\ Wide => \A n \in Values(type) : value \in HalvesOf(n) => stored = n

\* With preserve_int64 what parse() has answered stores again what it was read
\* from, over the whole range of both types, and never ends the process, as a
\* numeral out of the range of stoll or stoull would (parse.cpp:58 and 81, read by
\* serialize.cpp:48 and 83).
TextIsLossless ==
  [][preserve /\ Wide /\ parsed /\ Send => at' = "receive" /\ stored' = stored]_vars

\* Without it nothing is lost up to 2^53, and of larger numbers no more than what
\* lies between two doubles.
LosesLittle ==
  Sent \/ ~parsed \/ value.tag # "number"
    \/ (/\ Abs(stored) <= Exact => value.n = stored
        /\ 2 * Abs(value.n - stored) <= Ulp(stored))

\* A number that fits its field comes back as the same number, as a text where
\* 64 bits are preserved, also when it is larger than 2^53.  A number that parse()
\* answered is one of them unless rounding took it out of the type: near 2^63.
NumbersComeBack ==
  [][Receive /\ value.tag = "number" /\ value.n \in Values(type) => value'.n = value.n]_vars
==============================================================================
