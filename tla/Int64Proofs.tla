----------------------------- MODULE Int64Proofs -----------------------------
(***************************************************************************)
(* Theorems of Int64, for every width of a half and every value sent.      *)
(***************************************************************************)
EXTENDS Int64, TLAPS

----------------------------------------------------------------------------
(* Arithmetic.                                                             *)

\* Multiplication by a natural number keeps the order.
LEMMA Monotone ==
  ASSUME NEW a \in Int, NEW b \in Int, NEW c \in Nat, a <= b
  PROVE  a * c <= b * c
<1>1. (b - a) * c >= 0
  OBVIOUS
<1> QED BY <1>1

\* A double word has twice as many values as half of it.
LEMMA FullIsEven ==
  /\ Half \in Nat \ {0} /\ Full \in Nat \ {0} /\ Half <= Full
  /\ Full \div 2 \in Nat /\ Full = 2 * (Full \div 2)
<1> DEFINE h == Half \div 2
           m == h * Half
<1>1. Half \in Nat \ {0} /\ Half % 2 = 0
  BY WidthAssumption
<1>2. h \in Nat /\ Half = 2 * h
  BY <1>1
<1>3. m \in Nat /\ Full = 2 * m /\ Half <= Full /\ Full \in Nat \ {0}
  <2>1. m \in Nat /\ (2 * h) * Half = 2 * m
    BY <1>1, <1>2
  <2>2. 1 * Half <= Half * Half
    BY <1>1, Monotone
  <2> QED BY <1>1, <1>2, <2>1, <2>2 DEF Full
<1> HIDE DEF m
<1> QED BY <1>1, <1>3

\* The quotient and the remainder of a number by a half.
LEMMA Halves ==
  ASSUME NEW n \in Int
  PROVE  /\ n \div Half \in Int /\ n % Half \in 0..(Half - 1)
         /\ n = (n \div Half) * Half + (n % Half)
<1>1. Half \in Nat \ {0}
  BY FullIsEven
<1>2. n \div Half \in Int /\ n % Half \in 0..(Half - 1)
  BY <1>1
<1>3. n = Half * (n \div Half) + (n % Half)
  BY <1>1
<1> QED BY <1>1, <1>2, <1>3

\* A number below the modulus is its own remainder.
LEMMA SmallRemainder ==
  ASSUME NEW m \in Nat \ {0}, NEW x \in 0..(m - 1)
  PROVE  x % m = x
OBVIOUS

\* Two halves make a double word.
LEMMA PairRange ==
  ASSUME NEW a \in 0..(Half - 1), NEW b \in 0..(Half - 1)
  PROVE  a * Half + b \in 0..(Full - 1)
<1>1. a * Half <= (Half - 1) * Half /\ 0 * Half <= a * Half
  BY Monotone, FullIsEven
<1>2. (Half - 1) * Half = Full - Half /\ a * Half \in Int
  BY FullIsEven DEF Full
<1> QED BY <1>1, <1>2, FullIsEven

\* The bits of a double word are those of exactly one value of each wide type.
LEMMA OneOfBits ==
  ASSUME NEW t \in {"int64", "uint64"}, NEW x \in 0..(Full - 1)
  PROVE  /\ OfBits(t, x) \in Values(t)
         /\ \A n \in Values(t) : (n = x \/ n + Full = x) => OfBits(t, x) = n
<1> USE FullIsEven
<1> DEFINE P(n) == \E k \in -1..0 : n = x + k * Full
<1>1. OfBits(t, x) = CHOOSE n \in Values(t) : P(n)
  BY DEF OfBits
<1>2. \A n \in Values(t) : n \in Int /\ (P(n) <=> (n = x \/ n = x - Full))
  BY DEF Values
<1>3. \E n \in Values(t) : P(n)
  <2>1. CASE x \in Values(t)
    BY <1>2, <2>1
  <2>2. CASE x \notin Values(t)
    <3>1. x - Full \in Values(t)
      BY <2>2 DEF Values
    <3> QED BY <1>2, <3>1
  <2> QED BY <2>1, <2>2
<1>4. \A n, o \in Values(t) : P(n) /\ P(o) => n = o
  <2>1. ASSUME NEW n \in Values(t), NEW o \in Values(t), n # o
        PROVE  n - o < Full /\ o - n < Full
    BY DEF Values
  <2> QED BY <1>2, <2>1
<1> HIDE DEF P
<1>5. OfBits(t, x) \in Values(t) /\ P(OfBits(t, x))
  BY <1>1, <1>3
<1>6. ASSUME NEW n \in Values(t), n = x \/ n + Full = x
      PROVE  P(n)
  BY <1>2, <1>6
<1> QED BY <1>4, <1>5, <1>6

\* A value and the halves that stand for it have the same bits.
LEMMA PairOfHalves ==
  ASSUME NEW n \in -Full..(Full - 1), NEW v \in Value, v.tag = "pair",
         v.hi % Half = (n \div Half) % Half, v.lo % Half = n % Half
  PROVE  /\ FromPair(v) \in 0..(Full - 1)
         /\ FromPair(v) = n \/ FromPair(v) = n + Full
<1> USE FullIsEven
<1> DEFINE q == n \div Half
           r == n % Half
<1>1. q \in Int /\ r \in 0..(Half - 1) /\ n = q * Half + r
  BY Halves
<1> HIDE DEF q, r
<1>2. -Half <= q /\ q <= Half - 1
  <2>1. CASE q <= -Half - 1
    <3>1. q * Half <= (-Half - 1) * Half
      BY <1>1, <2>1, Monotone
    <3>2. (-Half - 1) * Half = -Full - Half
      BY DEF Full
    <3> QED BY <1>1, <3>1, <3>2
  <2>2. CASE q >= Half
    <3>1. Half * Half <= q * Half
      BY <1>1, <2>2, Monotone
    <3> QED BY <1>1, <3>1 DEF Full
  <2> QED BY <1>1, <2>1, <2>2
<1>3. q % Half = q \/ q % Half = q + Half
  BY <1>1, <1>2
<1>4. q % Half \in 0..(Half - 1)
  BY <1>1
<1>5. FromPair(v) = (q % Half) * Half + r
  BY DEF FromPair, q, r
<1>6. FromPair(v) \in 0..(Full - 1)
  BY <1>1, <1>4, <1>5, PairRange
<1>7. (q + Half) * Half = q * Half + Full
  BY <1>1 DEF Full
<1> QED BY <1>1, <1>3, <1>5, <1>6, <1>7

----------------------------------------------------------------------------
(* Pairs of halves.                                                        *)

\* What a field holds, once sent, is one of the conversions of the value.
StoredFromValue ==
  /\ at = "receive" => stored \in Stores(value)
  /\ type \in Types /\ preserve \in BOOLEAN

LEMMA AlwaysFromValue == Spec => []StoredFromValue
<1>1. Init => StoredFromValue
  BY DEF Init, StoredFromValue
<1>2. StoredFromValue /\ [Next]_vars => StoredFromValue'
  <2> SUFFICES ASSUME StoredFromValue, [Next]_vars PROVE StoredFromValue'
    OBVIOUS
  <2>1. CASE Send
    BY <2>1 DEF Send, StoredFromValue, Stores, Wide
  <2>2. CASE Receive
    BY <2>2 DEF Receive, StoredFromValue
  <2>3. CASE UNCHANGED vars
    BY <2>3 DEF vars, StoredFromValue, Stores, Wide
  <2> QED BY <2>1, <2>2, <2>3 DEF Next
<1> QED BY <1>1, <1>2, PTL DEF Spec

\* A double word given as [hi, lo] stores the number with these halves, whichever
\* way they are signed and for both types (serialize.cpp:26 to 31).
THEOREM PairsStoreTheirNumber == Spec => []HalvesMeanTheNumber
<1>1. StoredFromValue => HalvesMeanTheNumber
  <2> SUFFICES ASSUME StoredFromValue, Sent, preserve, Wide,
                      NEW n \in Values(type), value \in HalvesOf(n)
               PROVE  stored = n
    BY DEF HalvesMeanTheNumber
  <2> USE FullIsEven
  <2>1. type \in {"int64", "uint64"}
    BY DEF Wide
  <2>2. n \in -Full..(Full - 1)
    BY <2>1 DEF Values
  <2>3. PICK hi \in Int, lo \in Int : /\ value = Pair(hi, lo)
                                      /\ hi % Half = (n \div Half) % Half /\ lo % Half = n % Half
    BY DEF HalvesOf
  <2>4. value \in Value /\ value.tag = "pair"
        /\ value.hi % Half = (n \div Half) % Half /\ value.lo % Half = n % Half
    BY <2>3 DEF Pair, Value
  <2> DEFINE x == FromPair(value)
  <2>5. x \in 0..(Full - 1) /\ (n = x \/ n + Full = x)
    BY <2>2, <2>4, PairOfHalves
  <2>6. stored \in {OfBits(type, x)}
    BY <2>1, <2>4 DEF StoredFromValue, Sent, Stores, Wide
  <2> HIDE DEF x
  <2>7. OfBits(type, x) = n
    BY <2>1, <2>5, OneOfBits
  <2> QED BY <2>6, <2>7
<1> QED BY <1>1, AlwaysFromValue, PTL

----------------------------------------------------------------------------
(* Texts.                                                                  *)

\* With preserve_int64, a wide field holds a value of its type, and what was read
\* from it is its text.
TextHeld ==
  preserve /\ Wide =>
    /\ value \in Value /\ stored \in Values(type)
    /\ parsed => value = Text(stored, FALSE)

IInv == type \in Types /\ preserve \in BOOLEAN /\ TextHeld

\* Zero is a value of every type, and every conversion makes one of the field's.
LEMMA StoresTyped ==
  ASSUME Wide, preserve, value \in Value
  PROVE  Stores(value) \subseteq Values(type) /\ 0 \in Values(type)
<1> USE FullIsEven
<1>1. type \in {"int64", "uint64"}
  BY DEF Wide
<1>2. 0 \in Values(type)
  BY <1>1 DEF Values
<1>3. CASE value.tag = "pair"
  <2>1. value.hi \in Int /\ value.lo \in Int
    BY <1>3 DEF Value, NaN, Word
  <2>2. value.hi % Half \in 0..(Half - 1) /\ value.lo % Half \in 0..(Half - 1)
    BY <2>1
  <2>3. FromPair(value) \in 0..(Full - 1)
    BY <2>2, PairRange DEF FromPair
  <2>4. OfBits(type, FromPair(value)) \in Values(type)
    BY <1>1, <2>3, OneOfBits
  <2> QED BY <1>1, <1>2, <1>3, <2>4 DEF Stores, Wide
<1>4. CASE value.tag = "text"
  <2>1. value.n \in Int
    BY <1>4 DEF Value, NaN, Word
  <2>2. FromText(type, value) \subseteq Values(type)
    BY <1>1, <2>1 DEF FromText, Values
  <2> QED BY <1>1, <1>2, <1>4, <2>2 DEF Stores, Wide
<1>5. CASE value.tag \notin {"pair", "text"}
  <2>1. Stores(value) \in {{}, FromNumber(type, value)}
    BY <1>1, <1>5 DEF Stores, Wide
  <2>2. FromNumber(type, value) \subseteq Values(type)
    BY DEF FromNumber
  <2> QED BY <1>2, <2>1, <2>2
<1> QED BY <1>3, <1>4, <1>5

\* The text of a number that a field holds is converted to that number.
LEMMA TextConverts ==
  ASSUME Wide, preserve, NEW s \in Values(type), value = Text(s, FALSE)
  PROVE  Stores(value) = {s}
<1> USE FullIsEven
<1>1. type \in {"int64", "uint64"} /\ value.tag = "text" /\ value.n = s
  BY DEF Wide, Text
<1>2. FromText(type, value) = {s}
  <2>1. CASE type = "int64"
    BY <1>1, <2>1 DEF FromText
  <2>2. CASE type = "uint64"
    <3>1. s \in 0..(Full - 1)
      BY <2>2 DEF Values
    <3>2. Abs(s) < Full /\ s % Full = s
      BY <3>1, SmallRemainder DEF Abs
    <3> QED BY <1>1, <2>2, <3>2 DEF FromText
  <2> QED BY <1>1, <2>1, <2>2
<1> QED BY <1>1, <1>2 DEF Stores, Wide

LEMMA AlwaysIInv == Spec => []IInv
<1>1. Init => IInv
  <2> SUFFICES ASSUME Init PROVE IInv
    OBVIOUS
  <2>1. value \in Value
    BY GivenAssumption DEF Init
  <2>2. Wide /\ preserve => 0 \in Values(type)
    BY <2>1, StoresTyped
  <2> QED BY <2>1, <2>2 DEF Init, IInv, TextHeld
<1>2. IInv /\ [Next]_vars => IInv'
  <2> SUFFICES ASSUME IInv, [Next]_vars PROVE IInv'
    OBVIOUS
  <2>1. CASE Send
    <3>1. UNCHANGED <<type, preserve, value, parsed>>
      BY <2>1 DEF Send
    <3>2. ASSUME preserve, Wide PROVE stored' \in Values(type) /\ (parsed => stored' = stored)
      <4>1. value \in Value /\ stored \in Values(type) /\ (parsed => value = Text(stored, FALSE))
        BY <3>2 DEF IInv, TextHeld
      <4>2. stored' \in Stores(value) \/ stored' = stored
        BY <2>1 DEF Send
      <4>3. parsed => Stores(value) = {stored}
        BY <3>2, <4>1, TextConverts
      <4> QED BY <3>2, <4>1, <4>2, <4>3, StoresTyped
    <3> QED BY <3>1, <3>2 DEF IInv, TextHeld, Wide, Values
  <2>2. CASE Receive
    <3>1. UNCHANGED <<type, preserve, stored>> /\ value' = Answer(stored)
      BY <2>2 DEF Receive
    <3>2. ASSUME preserve, Wide
          PROVE  value' \in Value /\ value' = Text(stored, FALSE) /\ stored \in Values(type)
      <4>1. value' = Text(stored, FALSE) /\ stored \in Values(type)
        BY <3>1, <3>2 DEF Answer, IInv, TextHeld
      <4>2. stored \in Int
        BY <3>2, <4>1, FullIsEven DEF Wide, Values
      <4> QED BY <4>1, <4>2 DEF Text, Value
    <3> QED BY <3>1, <3>2 DEF IInv, TextHeld, Wide, Values
  <2>3. CASE UNCHANGED vars
    BY <2>3 DEF vars, IInv, TextHeld, Wide, Values
  <2> QED BY <2>1, <2>2, <2>3 DEF Next
<1> QED BY <1>1, <1>2, PTL DEF Spec

\* The text of a 64-bit number that parse() has answered is taken, and stores the
\* number again, over the whole range (parse.cpp:58 and 81, serialize.cpp:48 and 83).
THEOREM TextsAreLossless == Spec => TextIsLossless
<1>1. IInv /\ [Next]_vars =>
        [preserve /\ Wide /\ parsed /\ Send => at' = "receive" /\ stored' = stored]_vars
  <2> SUFFICES ASSUME IInv, preserve, Wide, parsed, Send
               PROVE  at' = "receive" /\ stored' = stored
    OBVIOUS
  <2>1. Stores(value) = {stored}
    BY TextConverts DEF IInv, TextHeld
  <2>2. Stores(value) # {}
    BY <2>1
  <2> QED BY <2>1, <2>2 DEF Send
<1> QED BY <1>1, AlwaysIInv, PTL DEF Spec, TextIsLossless
----------------------------------------------------------------------------
(* Doubles.                                                                *)

\* Division by a spacing.
LEMMA Division ==
  ASSUME NEW n \in Int, NEW u \in Nat \ {0}
  PROVE  /\ n \div u \in Int /\ n % u \in 0..(u - 1)
         /\ n = (n \div u) * u + (n % u)
<1>1. n \div u \in Int /\ n % u \in 0..(u - 1)
  OBVIOUS
<1>2. n = u * (n \div u) + (n % u)
  OBVIOUS
<1> QED BY <1>1, <1>2

LEMMA MultipleOf ==
  ASSUME NEW k \in Int, NEW u \in Nat \ {0}
  PROVE  k * u \in Int /\ (k * u) % u = 0
<1>1. PICK n \in Int : n = k * u
  OBVIOUS
<1>2. PICK q \in Int, r \in 0..(u - 1) : n = q * u + r /\ r = n % u
  BY Division
<1>3. CASE k = q
  <2>1. r = 0
    <3>1. n = q * u
      BY <1>1, <1>3
    <3>2. PICK m \in Int : m = q * u
      OBVIOUS
    <3> QED BY <1>2, <3>1, <3>2
  <2> QED BY <1>1, <1>2, <2>1
<1>4. CASE k >= q + 1
  <2>1. (q + 1) * u <= k * u /\ (q + 1) * u = q * u + u
    BY <1>4, Monotone
  <2> QED BY <1>1, <1>2, <2>1
<1>5. CASE k + 1 <= q
  <2>1. (k + 1) * u <= q * u /\ (k + 1) * u = k * u + u
    BY <1>5, Monotone
  <2> QED BY <1>1, <1>2, <2>1
<1> QED BY <1>1, <1>3, <1>4, <1>5

\* The numbers between two doubles of which one holds a number.
HasSpacing(n) == \E u \in Scales : Spacing(u, n)

LEMMA UlpIsSpacing ==
  ASSUME NEW n \in Int, HasSpacing(n)
  PROVE  /\ Ulp(n) \in Scales /\ Ulp(n) \in Nat \ {0} /\ Spacing(Ulp(n), n)
BY WidthAssumption DEF Ulp, HasSpacing

\* A double is at most half a spacing away, and a number that is one stays.
LEMMA RoundNear ==
  ASSUME NEW n \in Int, HasSpacing(n)
  PROVE  /\ Round(n) \in Int /\ 2 * Abs(Round(n) - n) <= Ulp(n)
         /\ \E k \in Int : Round(n) = k * Ulp(n)
         /\ n % Ulp(n) = 0 => Round(n) = n
<1>1. PICK u \in Nat \ {0} : u = Ulp(n)
  BY UlpIsSpacing
<1>2. PICK q \in Int, r \in 0..(u - 1) : n = q * u + r /\ r = n % u /\ q = n \div u
  BY Division
<1>3. Round(n) = IF 2 * r < u \/ (2 * r = u /\ q % 2 = 0) THEN q * u ELSE (q + 1) * u
  BY <1>1, <1>2 DEF Round
<1>4. PICK m \in Int : m = q * u
  OBVIOUS
<1>5. (q + 1) * u = m + u /\ q + 1 \in Int
  BY <1>4
<1>6. CASE Round(n) = m /\ 2 * r <= u
  <2>1. Round(n) - n = -r
    BY <1>2, <1>4, <1>6
  <2>2. 2 * Abs(Round(n) - n) <= u
    BY <1>6, <2>1 DEF Abs
  <2>3. n % u = 0 => Round(n) = n
    BY <1>2, <1>4, <1>6
  <2> QED BY <1>1, <1>4, <1>6, <2>2, <2>3
<1>7. CASE Round(n) = m + u /\ 2 * r >= u
  <2>1. Round(n) - n = u - r /\ u - r >= 0
    BY <1>2, <1>4, <1>7
  <2>2. 2 * Abs(Round(n) - n) <= u
    BY <1>7, <2>1 DEF Abs
  <2>3. n % u # 0
    BY <1>2, <1>7
  <2> QED BY <1>1, <1>4, <1>5, <1>7, <2>2, <2>3
<1> QED BY <1>3, <1>4, <1>5, <1>6, <1>7

\* The spacing of a number is the only one it has.
LEMMA OneSpacing ==
  ASSUME NEW n \in Int, NEW u \in Scales, NEW v \in Scales, Spacing(u, n), Spacing(v, n)
  PROVE  u = v
<1>1. ASSUME NEW a \in Scales, NEW b \in Scales, Spacing(a, n), Spacing(b, n), a < b
      PROVE  FALSE
  <2>1. a \in Nat \ {0} /\ b \in Nat \ {0} /\ b % (2 * a) = 0 /\ Exact \in Nat
    BY <1>1, WidthAssumption
  <2>2. 2 * a <= b
    BY <1>1, <2>1
  <2>3. (2 * a) * Exact <= b * Exact
    BY <2>1, <2>2, Monotone
  <2>4. PICK x \in Int : x = Exact * a
    BY <2>1
  <2>5. PICK y \in Int : y = Exact * b
    BY <2>1
  <2>6. 2 * x <= y
    BY <2>1, <2>3, <2>4, <2>5
  <2>7. Abs(n) <= x /\ 2 * Abs(n) > y /\ Abs(n) \in Int
    BY <1>1, <2>1, <2>4, <2>5 DEF Spacing, Abs
  <2> QED BY <2>6, <2>7
<1>2. u \in Int /\ v \in Int
  BY WidthAssumption
<1> QED BY <1>1, <1>2

LEMMA DoubleStays ==
  ASSUME NEW n \in Int, IsDouble(n)
  PROVE  Round(n) = n
<1>1. PICK u \in Scales : Spacing(u, n) /\ n % u = 0
  BY DEF IsDouble
<1>2. HasSpacing(n)
  BY <1>1 DEF HasSpacing
<1>3. Ulp(n) = u
  BY <1>1, <1>2, UlpIsSpacing, OneSpacing
<1> QED BY <1>1, <1>2, <1>3, RoundNear

\* Up to 2^53 every integer is a double.
LEMMA SmallStays ==
  ASSUME NEW n \in Int, HasSpacing(n), Abs(n) <= Exact
  PROVE  Round(n) = n
<1>1. PICK u \in Nat \ {0} : u = Ulp(n) /\ Spacing(u, n)
  BY UlpIsSpacing
<1>2. u = 1
  <2>1. SUFFICES ASSUME u >= 2  PROVE FALSE
    BY <1>1
  <2>2. 2 * Exact <= u * Exact /\ Exact \in Nat
    BY <2>1, Monotone, WidthAssumption
  <2>3. 2 * Abs(n) > Exact * u /\ Abs(n) \in Int
    BY <1>1, <2>1 DEF Spacing, Abs
  <2>4. u * Exact = Exact * u
    BY <2>2
  <2> QED BY <2>2, <2>3, <2>4
<1>3. n % 1 = 0
  OBVIOUS
<1> QED BY <1>1, <1>2, <1>3, RoundNear

\* What rounding makes is a double.
LEMMA RoundIsDouble ==
  ASSUME NEW n \in Int, HasSpacing(n), HasSpacing(Round(n))
  PROVE  IsDouble(Round(n))
<1>1. PICK u \in Scales : u = Ulp(n) /\ Spacing(u, n)
  BY UlpIsSpacing
<1>2. PICK k \in Int : Round(n) = k * u
  BY <1>1, RoundNear
<1>3. PICK r \in Int : r = Round(n)
  BY RoundNear
<1>4. 2 * Abs(r - n) <= u
  BY <1>1, <1>3, RoundNear
<1>5. PICK v \in Scales : Spacing(v, r)
  BY <1>3 DEF HasSpacing
<1>6. u \in Nat \ {0} /\ v \in Nat \ {0} /\ Exact \in Nat \ {0}
  BY WidthAssumption
<1>7. ~(u < v)
  <2>1. SUFFICES ASSUME u < v  PROVE FALSE
    OBVIOUS
  <2>2. v % (2 * u) = 0
    BY <2>1, WidthAssumption
  <2>3. 2 * u <= v
    BY <1>6, <2>1, <2>2
  <2>4. PICK x \in Int : x = Exact * u
    BY <1>6
  <2>5. PICK y \in Int : y = Exact * v
    BY <1>6
  <2>6. (2 * u) * Exact <= v * Exact
    BY <1>6, <2>3, Monotone
  <2>7. 2 * x <= y
    BY <1>6, <2>4, <2>5, <2>6
  <2>8. 2 * Abs(r) > y /\ Abs(n) <= x
    BY <1>1, <1>5, <1>6, <2>1, <2>4, <2>5 DEF Spacing
  <2>9. Abs(r) > x
    BY <2>7, <2>8 DEF Abs
  <2>10. CASE k >= Exact + 1
    <3>1. (Exact + 1) * u <= k * u /\ (Exact + 1) * u = Exact * u + u
      BY <1>6, <2>10, Monotone
    <3>2. r >= x + u
      BY <1>2, <1>3, <1>6, <2>4, <3>1
    <3> QED BY <1>4, <1>6, <2>8, <3>2 DEF Abs
  <2>11. CASE k <= -Exact - 1
    <3>1. k * u <= (-Exact - 1) * u /\ (-Exact - 1) * u = -(Exact * u) - u
      BY <1>6, <2>11, Monotone
    <3>2. r <= -x - u
      BY <1>2, <1>3, <1>6, <2>4, <3>1
    <3> QED BY <1>4, <1>6, <2>8, <3>2 DEF Abs
  <2>12. CASE -Exact <= k /\ k <= Exact
    <3>1. k * u <= Exact * u /\ (-Exact) * u <= k * u /\ (-Exact) * u = -(Exact * u)
      BY <1>6, <2>12, Monotone
    <3>2. -x <= r /\ r <= x
      BY <1>2, <1>3, <2>4, <3>1
    <3> QED BY <2>9, <3>2 DEF Abs
  <2> QED BY <1>6, <2>10, <2>11, <2>12
<1>8. CASE u = v
  BY <1>2, <1>3, <1>5, <1>6, <1>8, MultipleOf DEF IsDouble
<1>9. CASE v < u
  <2>1. u % (2 * v) = 0
    BY <1>9, WidthAssumption
  <2>2. PICK q \in Int : u = q * (2 * v)
    <3>1. PICK w \in Nat \ {0} : w = 2 * v
      BY <1>6
    <3>2. u = (u \div w) * w + (u % w) /\ u \div w \in Int
      <4>1. u \in Int /\ w \in Nat \ {0}
        BY <1>6, <3>1
      <4> QED BY <4>1, Division, Zenon
    <3>3. u % w = 0
      BY <2>1, <3>1
    <3>4. u = (u \div w) * w
      <4>1. PICK m \in Int : m = (u \div w) * w
        BY <3>1, <3>2
      <4> QED BY <1>6, <3>2, <3>3, <4>1
    <3> QED BY <3>1, <3>2, <3>4
  <2>3. PICK j \in Int : j = k * (q * 2)
    OBVIOUS
  <2>4. k * (q * (2 * v)) = (k * (q * 2)) * v
    BY <1>6
  <2>5. r = j * v
    BY <1>2, <1>3, <2>2, <2>3, <2>4
  <2> QED BY <1>3, <1>5, <1>6, <2>5, MultipleOf DEF IsDouble
<1> QED BY <1>6, <1>7, <1>8, <1>9

----------------------------------------------------------------------------
(* What is sent, whatever the field.                                       *)

\* A value is one that a program sends or what parse() has answered, and what
\* the field holds is a conversion of it until it is read.
ValueHeld ==
  IF parsed THEN \E s \in Values(type) : value = Answer(s) ELSE value \in Given
SInv ==
  /\ TypeOK /\ StoredFromValue /\ ValueHeld
  /\ parsed /\ at # "receive" => value = Answer(stored)

\* Every value of a field lies where the doubles are known.
LEMMA ValuesSpaced ==
  ASSUME NEW t \in Types, NEW n \in Values(t)
  PROVE  n \in Int /\ HasSpacing(n) /\ 0 \in Values(t)
<1> USE FullIsEven
<1>1. Half \div 2 \in Nat /\ Half \div 2 <= Half
  OBVIOUS
<1>2. n \in -Full..Full /\ 0 \in Values(t)
  BY <1>1, WidthAssumption DEF Types, Values
<1> QED BY <1>2, WidthAssumption DEF HasSpacing

\* The bits of a word are those of exactly one value of the signed type.
LEMMA OneOfWord ==
  ASSUME NEW n \in Int
  PROVE  /\ n % Half \in 0..(Half - 1)
         /\ OfBits("int32", n % Half) \in Values("int32")
         /\ n \in Values("int32") => OfBits("int32", n % Half) = n
         /\ n \in Values("uint32") => n % Half = n
<1> USE FullIsEven
<1> DEFINE h == Half \div 2
           x == n % Half
           P(m) == \E k \in -1..0 : m = x + k * Half
<1>1. x \in 0..(Half - 1) /\ h \in Nat /\ Half = 2 * h /\ Half \in Nat \ {0}
  BY WidthAssumption
<1>2. OfBits("int32", x) = CHOOSE m \in Values("int32") : P(m)
  BY DEF OfBits
<1>3. Values("int32") = -h..h - 1
  BY DEF Values
<1>4. \A m \in Int : P(m) <=> (m = x \/ m = x - Half)
  BY <1>1
<1>5. n \in Values("int32") => n = x \/ n = x - Half
  BY <1>1, <1>3
<1>6. n \in Values("uint32") => x = n
  <2>1. Values("uint32") = 0..Half - 1
    BY DEF Values
  <2> QED BY <1>1, <2>1, SmallRemainder
<1> HIDE DEF P, x, h
<1>7. \E m \in Values("int32") : P(m)
  <2>1. CASE x <= h - 1
    BY <1>1, <1>3, <1>4, <2>1
  <2>2. CASE x > h - 1
    <3>1. x - Half \in Values("int32") /\ x - Half \in Int
      BY <1>1, <1>3, <2>2
    <3> QED BY <1>4, <3>1
  <2> QED BY <1>1, <2>1, <2>2
<1>8. OfBits("int32", x) \in Values("int32") /\ P(OfBits("int32", x))
  BY <1>2, <1>7
<1>9. n \in Values("int32") => OfBits("int32", x) = n
  BY <1>1, <1>3, <1>4, <1>5, <1>8
<1> QED BY <1>1, <1>6, <1>8, <1>9 DEF x

\* What a number is: the number given, or the one a text starts with, rounded.
LEMMA NumberOfValue ==
  ASSUME NEW v \in Value, v.tag = "text" => HasSpacing(v.n)
  PROVE  /\ v.tag = "number" => NumberValue(v) = v /\ v.n \in Int /\ v # NaN
         /\ NumberValue(v) # NaN => NumberValue(v).n \in Int
<1>1. v.tag = "number" => v.n \in Int /\ v # NaN
  BY DEF Value, NaN, Word
<1>2. v.tag = "text" => v.n \in Int
  BY DEF Value, NaN, Word
<1>3. v.tag = "text" => Number(Round(v.n)).n \in Int
  BY <1>2, RoundNear DEF Number
<1> QED BY <1>1, <1>3 DEF NumberValue

\* A conversion makes a value of the field's type, and of a number of this type
\* the number.
LEMMA Converts ==
  ASSUME type \in Types, preserve \in BOOLEAN, NEW v \in Value, v = value,
         v.tag = "text" => HasSpacing(v.n)
  PROVE  /\ Stores(v) \subseteq Values(type)
         /\ v.tag = "number" => Stores(v) # {}
         /\ v.tag = "number" /\ v.n \in Values(type) => Stores(v) = {v.n}
<1> USE FullIsEven
<1>1. /\ v.tag = "number" => NumberValue(v) = v /\ v.n \in Int /\ v # NaN
      /\ NumberValue(v) # NaN => NumberValue(v).n \in Int
  BY NumberOfValue
<1>2. CASE ~Wide
  <2>1. type \in {"int32", "uint32"}
    BY <1>2 DEF Wide, Types
  <2>2. PICK n \in Int : /\ Uint32Value(v) = n % Half
                         /\ v.tag = "number" => n = v.n
    <3>1. CASE NumberValue(v) = NaN
      <4>1. 0 % Half = 0
        OBVIOUS
      <4> QED BY <1>1, <3>1, <4>1 DEF Uint32Value
    <3>2. CASE NumberValue(v) # NaN
      BY <1>1, <3>2 DEF Uint32Value
    <3> QED BY <3>1, <3>2
  <2>3. /\ n % Half \in 0..(Half - 1)
        /\ OfBits("int32", n % Half) \in Values("int32")
        /\ n \in Values("int32") => OfBits("int32", n % Half) = n
        /\ n \in Values("uint32") => n % Half = n
    BY OneOfWord
  <2>4. CASE type = "int32"
    <3>1. Stores(v) = {OfBits("int32", Uint32Value(v))}
      BY <1>2, <2>4 DEF Stores
    <3>2. PICK x : x = OfBits("int32", n % Half)
      OBVIOUS
    <3>3. Stores(v) = {x} /\ x \in Values(type)
      BY <2>2, <2>3, <2>4, <3>1, <3>2
    <3>4. v.tag = "number" /\ v.n \in Values(type) => x = v.n
      BY <2>2, <2>3, <2>4, <3>2
    <3> HIDE DEF Stores
    <3> QED BY <3>3, <3>4
  <2>5. CASE type = "uint32"
    <3>1. Values(type) = 0..Half - 1
      BY <2>5 DEF Values
    <3>2. Stores(v) = {Uint32Value(v)}
      BY <1>2, <2>5 DEF Stores
    <3>3. PICK x : x = n % Half
      OBVIOUS
    <3>4. Stores(v) = {x} /\ x \in Values(type)
      BY <2>2, <2>3, <3>1, <3>2, <3>3
    <3>5. v.tag = "number" /\ v.n \in Values(type) => x = v.n
      BY <2>2, <2>3, <2>5, <3>3
    <3> QED BY <3>4, <3>5
  <2> QED BY <2>1, <2>4, <2>5
<1>3. CASE Wide /\ ~(preserve /\ v.tag \in {"pair", "text", "word"})
  <2>1. Stores(v) = FromNumber(type, v)
    BY <1>3 DEF Stores, Wide
  <2>2. Values(type) # {} /\ FromNumber(type, v) \subseteq Values(type)
    <3>1. 0 \in Values(type)
      BY <1>3 DEF Wide, Values
    <3> QED BY <3>1 DEF FromNumber
  <2>3. v.tag = "number" => FromNumber(type, v) # {}
    BY <2>2 DEF FromNumber
  <2>4. v.tag = "number" /\ v.n \in Values(type) => FromNumber(type, v) = {v.n}
    BY <1>1 DEF FromNumber
  <2> QED BY <2>1, <2>2, <2>3, <2>4
<1>4. CASE Wide /\ preserve /\ v.tag \in {"pair", "text", "word"}
  BY <1>4, StoresTyped
<1> QED BY <1>2, <1>3, <1>4

\* What parse() answers can be sent again, and a number among it is a double.
LEMMA Answers ==
  ASSUME type \in Types, preserve \in BOOLEAN, NEW s \in Values(type)
  PROVE  /\ Answer(s) \in Value /\ Answer(s).tag \in {"number", "text"}
         /\ Answer(s).tag = "text" =>
              /\ Wide /\ preserve /\ Answer(s) = Text(s, FALSE) /\ HasSpacing(Answer(s).n)
         /\ Answer(s).tag = "number" =>
              Answer(s) = Number(Round(s)) /\ Answer(s).n = Round(s)
         /\ Answer(s).n \in Int
<1>1. s \in Int /\ HasSpacing(s)
  BY ValuesSpaced
<1>2. Round(s) \in Int
  BY <1>1, RoundNear
<1>3. CASE Wide /\ preserve
  BY <1>1, <1>3 DEF Answer, Text, Value
<1>4. CASE ~(Wide /\ preserve)
  BY <1>2, <1>4 DEF Answer, Number, Value
<1> QED BY <1>3, <1>4

\* Whatever is at hand can be converted.
LEMMA AtHand ==
  ASSUME SInv
  PROVE  /\ value \in Value /\ (value.tag = "text" => HasSpacing(value.n))
         /\ parsed => Stores(value) # {}
<1>1. type \in Types /\ preserve \in BOOLEAN
  BY DEF SInv, TypeOK
<1>2. CASE ~parsed
  BY <1>2, GivenAssumption DEF SInv, ValueHeld, HasSpacing
<1>3. CASE parsed
  <2>1. PICK s \in Values(type) : value = Answer(s)
    BY <1>3 DEF SInv, ValueHeld
  <2>2. /\ value \in Value /\ value.tag \in {"number", "text"}
        /\ value.tag = "text" => Wide /\ preserve /\ value = Text(s, FALSE) /\ HasSpacing(value.n)
    BY <1>1, <2>1, Answers
  <2>3. CASE value.tag = "text"
    BY <2>2, <2>3, TextConverts
  <2>4. CASE value.tag = "number"
    BY <1>1, <2>2, <2>4, Converts
  <2> QED BY <2>2, <2>3, <2>4
<1> QED BY <1>2, <1>3

LEMMA AlwaysSInv == Spec => []SInv
<1>1. Init => SInv
  <2> SUFFICES ASSUME Init  PROVE SInv
    OBVIOUS
  <2>1. 0 \in Values(type)
    <3>1. Half \div 2 \in Nat \ {0} /\ Full \div 2 \in Nat /\ Full \in Nat \ {0} /\ Half \in Nat \ {0}
      BY WidthAssumption, FullIsEven
    <3>2. type \in Types
      BY DEF Init
    <3> QED BY <3>1, <3>2, FullIsEven DEF Types, Values
  <2>2. TypeOK
    BY <2>1 DEF Init, TypeOK
  <2> QED BY <2>2 DEF Init, SInv, StoredFromValue, ValueHeld
<1>2. SInv /\ [Next]_vars => SInv'
  <2> SUFFICES ASSUME SInv, [Next]_vars  PROVE SInv'
    OBVIOUS
  <2>0. /\ type \in Types /\ preserve \in BOOLEAN /\ parsed \in BOOLEAN /\ stored \in Values(type)
        /\ value \in Given \/ value.tag \in {"number", "text"}
    BY DEF SInv, TypeOK
  <2>1. CASE Send
    <3>1. UNCHANGED <<type, preserve, value, parsed>> /\ at = "send"
      BY <2>1 DEF Send
    <3>2. value \in Value /\ (value.tag = "text" => HasSpacing(value.n)) /\ (parsed => Stores(value) # {})
      BY AtHand
    <3>3. Stores(value) \subseteq Values(type)
      BY <2>0, <3>2, Converts
    <3>4. Values(type)' = Values(type) /\ Stores(value)' = Stores(value)
          /\ \A s : Answer(s)' = Answer(s)
      BY <3>1 DEF Values, Stores, Answer, Wide
    <3>5. CASE stored' \in Stores(value) /\ at' = "receive"
      <4>1. stored' \in Values(type)
        BY <3>3, <3>5
      <4>2. TypeOK'
        BY <2>0, <3>1, <3>5, <4>1 DEF TypeOK, Values
      <4>3. StoredFromValue' /\ ValueHeld'
        BY <2>0, <3>1, <3>4, <3>5 DEF SInv, StoredFromValue, ValueHeld
      <4> QED BY <3>5, <4>2, <4>3 DEF SInv
    <3>6. CASE Stores(value) = {} /\ at' = "aborted" /\ stored' = stored
      <4>1. ~parsed
        BY <3>2, <3>6
      <4>2. TypeOK'
        BY <2>0, <3>1, <3>6, <4>1 DEF TypeOK, Values
      <4>3. StoredFromValue' /\ ValueHeld'
        BY <2>0, <3>1, <3>4, <3>6, <4>1 DEF SInv, StoredFromValue, ValueHeld
      <4> QED BY <3>1, <3>6, <4>1, <4>2, <4>3 DEF SInv
    <3> QED BY <2>1, <3>5, <3>6 DEF Send
  <2>2. CASE Receive
    <3>1. UNCHANGED <<type, preserve, stored>> /\ value' = Answer(stored) /\ parsed' = TRUE /\ at' = "send"
      BY <2>2 DEF Receive
    <3>2. value'.tag \in {"number", "text"}
      BY <2>0, <3>1, Answers
    <3>3. Values(type)' = Values(type) /\ \A s : Answer(s)' = Answer(s)
      BY <3>1 DEF Values, Answer, Wide
    <3>4. TypeOK'
      BY <2>0, <3>1, <3>2 DEF TypeOK, Values
    <3>5. value' = Answer(stored)'
      BY <3>1 DEF Answer, Wide
    <3>6. StoredFromValue' /\ ValueHeld'
      BY <2>0, <3>1, <3>3, <3>5 DEF StoredFromValue, ValueHeld
    <3> QED BY <3>4, <3>5, <3>6 DEF SInv
  <2>3. CASE UNCHANGED vars
    BY <2>3 DEF vars, SInv, TypeOK, StoredFromValue, ValueHeld, Stores, Answer, Wide, Values
  <2> QED BY <2>1, <2>2, <2>3 DEF Next
<1> QED BY <1>1, <1>2, PTL DEF Spec

\* What a field holds has the field's type, whatever is sent and however often,
\* and what parse() has answered never ends the process.
THEOREM TypeCorrect == Spec => []TypeOK
<1>1. SInv => TypeOK
  BY DEF SInv
<1> QED BY <1>1, AlwaysSInv, PTL

\* A number that parse() answers without preserve_int64 is the one that is
\* stored up to 2^53, and never further from it than half of what lies between
\* two doubles: for the real widths as for any others.
THEOREM LittleIsLost == Spec => []LosesLittle
<1>1. ASSUME SInv  PROVE LosesLittle
  <2> SUFFICES ASSUME ~Sent, parsed, value.tag = "number"
               PROVE  /\ Abs(stored) <= Exact => value.n = stored
                      /\ 2 * Abs(value.n - stored) <= Ulp(stored)
    BY DEF LosesLittle
  <2>1. value = Answer(stored) /\ type \in Types /\ preserve \in BOOLEAN /\ stored \in Values(type)
    BY <1>1 DEF SInv, Sent, TypeOK
  <2>2. value.n = Round(stored)
    BY <2>1, Answers
  <2>3. stored \in Int /\ HasSpacing(stored)
    BY <2>1, ValuesSpaced
  <2> QED BY <2>2, <2>3, RoundNear, SmallStays
<1> QED BY <1>1, AlwaysSInv, PTL

\* Sending a number that fits its field and reading it back gives that number,
\* for ever: the only loss is in the first answer.
THEOREM NumbersReturn == Spec => NumbersComeBack
<1>1. ASSUME SInv, Receive, value.tag = "number", value.n \in Values(type)
      PROVE  value'.n = value.n
  <2>1. /\ type \in Types /\ preserve \in BOOLEAN /\ stored \in Stores(value)
        /\ value' = Answer(stored)
    BY <1>1 DEF SInv, TypeOK, StoredFromValue, Receive
  <2>2. stored = value.n
    BY <1>1, <2>1, AtHand, Converts
  <2>3. value.n \in Int /\ HasSpacing(value.n)
    BY <1>1, <2>1, ValuesSpaced
  <2>4. IsDouble(value.n)
    <3>1. CASE ~parsed
      BY <1>1, <3>1, GivenAssumption DEF SInv, ValueHeld
    <3>2. CASE parsed
      <4>1. PICK s \in Values(type) : value = Answer(s)
        BY <1>1, <3>2 DEF SInv, ValueHeld
      <4>2. value.n = Round(s) /\ s \in Int /\ HasSpacing(s)
        BY <1>1, <2>1, <4>1, Answers, ValuesSpaced
      <4> QED BY <2>3, <4>2, RoundIsDouble
    <3> QED BY <3>1, <3>2
  <2>5. Round(value.n) = value.n
    BY <2>3, <2>4, DoubleStays
  <2> QED BY <2>1, <2>2, <2>5 DEF Answer, Text, Number
<1>2. SInv /\ [Next]_vars =>
        [Receive /\ value.tag = "number" /\ value.n \in Values(type) => value'.n = value.n]_vars
  BY <1>1
<1> QED BY <1>2, AlwaysSInv, PTL DEF Spec, NumbersComeBack

==============================================================================
