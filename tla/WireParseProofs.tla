--------------------------- MODULE WireParseProofs ---------------------------
(***************************************************************************)
(* Theorems of WireParse, for every buffer, limit and width of a word.     *)
(***************************************************************************)
EXTENDS WireParse, StackLemmas

----------------------------------------------------------------------------
(* Numbers.                                                                *)

\* A word holds as many non-negative ints as negative ones.
LEMMA MaxIntIsHalf == MaxInt \in Nat \ {0} /\ Word = 2 * (MaxInt + 1)
<1>1. Word \in Nat /\ Word % 2 = 0 /\ DefaultLimit \in 1..MaxInt
  BY NumberAssumption
<1>2. Word = 2 * (Word \div 2) /\ Word \div 2 \in Nat
  BY <1>1
<1> QED BY <1>1, <1>2 DEF MaxInt

\* A number below the modulus is its own remainder.
LEMMA SmallRemainder ==
  ASSUME NEW m \in Nat \ {0}, NEW x \in 0..(m - 1)
  PROVE  x % m = x
OBVIOUS

\* An int never exceeds the largest one, and a small number stays what it is.
LEMMA IntRange ==
  ASSUME NEW x \in Int
  PROVE  ToInt(x) \in Int /\ ToInt(x) <= MaxInt
<1>1. x % Word \in 0..(Word - 1)
  BY NumberAssumption
<1> QED BY <1>1, MaxIntIsHalf DEF ToInt
LEMMA SmallInt ==
  ASSUME NEW x \in 0..MaxInt
  PROVE  ToInt(x) = x
<1>1. x % Word = x
  BY MaxIntIsHalf, SmallRemainder
<1> QED BY <1>1, MaxIntIsHalf DEF ToInt

\* Taking a modulus away leaves the remainder.
LEMMA OneWordLess ==
  ASSUME NEW m \in Nat \ {0}, NEW x \in 0..(m - 1)
  PROVE  (x - m) % m = x
<1> DEFINE q == (x - m) \div m
           r == (x - m) % m
<1>1. q \in Int /\ r \in 0..(m - 1) /\ x - m = m * q + r
  OBVIOUS
<1>2. m * (q + 1) = x - r
  BY <1>1
<1>3. x - r < m /\ x - r > -m
  BY <1>1
<1>4. q + 1 = 0
  BY <1>1, <1>2, <1>3
<1> QED BY <1>1, <1>2, <1>4

\* A limit that an int holds comes through all its conversions.
LEMMA LimitComesThrough ==
  ASSUME limit \in 1..MaxInt
  PROVE  MaxBytes = limit /\ ToInt(MaxBytes) = limit
<1>1. ToInt(limit) = limit
  BY SmallInt, MaxIntIsHalf
<1>2. limit % Word = limit
  BY MaxIntIsHalf, SmallRemainder
<1> QED BY <1>1, <1>2 DEF MaxBytes

\* One that none holds, or a negative one, comes out negative.
LEMMA UnheldIsNegative ==
  ASSUME limit \in Unheld
  PROVE  MaxBytes # 0 /\ ToInt(MaxBytes) < 0
<1> USE MaxIntIsHalf
<1> DEFINE y == IF limit < 0 THEN limit + Word ELSE limit
<1>1. /\ Word \in Nat \ {0} /\ y \in 0..(Word - 1) /\ y > MaxInt /\ y # 0
      /\ limit < 0 => limit = y - Word
      /\ ~(limit < 0) => limit = y
  BY DEF Unheld
<1> HIDE DEF y
<1>2. y % Word = y /\ (y - Word) % Word = y
  BY <1>1, SmallRemainder, OneWordLess
<1>3. limit % Word = y
  BY <1>1, <1>2
<1>4. ToInt(limit) = y - Word /\ ToInt(y) = y - Word
  BY <1>1, <1>2, <1>3 DEF ToInt
<1>5. MaxBytes = y
  BY <1>2, <1>4 DEF MaxBytes
<1> QED BY <1>1, <1>4, <1>5

----------------------------------------------------------------------------
(* The inductive invariant.                                                *)

\* Nothing is read before the limits are set, and the limit asked for is the
\* one in force; the stream is before both its limits.
TotalAsAsked ==
  Began => /\ limit \in 1..MaxInt => stream.total = limit
           /\ limit \in Unheld => stream.total = 0
Untouched    == ~Began => stream.pos = 0
BeforeLimits == stream.pos <= stream.total /\ stream.pos <= stream.current

IInv == TypeOK /\ TotalAsAsked /\ Untouched /\ BeforeLimits /\ LimitsNest

Level == [limit : 0..MaxInt, has : BOOLEAN]

LEMMA InitIInv == Init => IInv
<1> SUFFICES ASSUME Init PROVE IInv
  OBVIOUS
<1>1. Len(bytes) \in Nat /\ DefaultLimit \in 0..MaxInt /\ DefaultRecursion \in Nat
  BY BufferAssumption, NumberAssumption DEF Init
<1>2. levels \in Seq(Level) /\ Len(levels) = 1 /\ DOMAIN levels = 1..1
      /\ levels[1].limit = MaxInt
  BY MaxIntIsHalf DEF Init, Level
<1>3. TypeOK
  BY <1>1, <1>2, MaxIntIsHalf, NumberAssumption DEF Init, TypeOK, NewStream, Level
<1>4. TotalAsAsked /\ Untouched /\ BeforeLimits /\ LimitsNest
  BY <1>1, <1>2, MaxIntIsHalf DEF Init, TotalAsAsked, Untouched, BeforeLimits, LimitsNest, Began, NewStream
<1> QED BY <1>3, <1>4 DEF IInv

----------------------------------------------------------------------------
(* Steps.                                                                  *)

\* The facts of a state that the steps use.
LEMMA StreamFacts ==
  ASSUME IInv
  PROVE  /\ Len(bytes) \in Nat /\ stream.pos \in Nat /\ stream.pos <= Len(bytes)
         /\ stream.current \in 0..MaxInt /\ stream.total \in 0..MaxInt
         /\ stream.budget \in 0..DefaultRecursion /\ DefaultRecursion \in Nat
         /\ Len(levels) \in Nat \ {0} /\ DOMAIN levels = 1..Len(levels) /\ levels # <<>>
         /\ levels \in Seq(Level) /\ Len(levels) + stream.budget = 1 + DefaultRecursion
         /\ \A i \in DOMAIN levels : levels[i] \in Level /\ levels[i].limit \in 0..MaxInt
<1>1. Len(bytes) \in Nat /\ DefaultRecursion \in Nat
  BY BufferAssumption, NumberAssumption DEF IInv, TypeOK
<1>2. levels \in Seq(Level)
  BY DEF IInv, TypeOK, Level
<1>3. Len(levels) \in Nat \ {0} /\ DOMAIN levels = 1..Len(levels) /\ levels # <<>>
  BY <1>1, <1>2 DEF IInv, TypeOK
<1>4. \A i \in DOMAIN levels : levels[i] \in Level
  BY <1>2, <1>3
<1>5. \A i \in DOMAIN levels : levels[i].limit \in 0..MaxInt
  BY <1>4 DEF Level
<1> QED BY <1>1, <1>2, <1>3, <1>4, <1>5 DEF IInv, TypeOK

\* One byte is read where no limit and no end forbids it.
LEMMA Advances ==
  ASSUME IInv, ~AtEnd
  PROVE  /\ Advance(stream) = [stream EXCEPT !.pos = stream.pos + 1]
         /\ stream.pos + 1 \in 0..Len(bytes)
         /\ stream.pos + 1 <= stream.total /\ stream.pos + 1 <= stream.current
         /\ \A i \in DOMAIN levels : stream.pos + 1 <= levels[i].limit
<1>1. stream.pos < stream.current /\ stream.pos < stream.total /\ stream.pos < Len(bytes)
  BY StreamFacts, MaxIntIsHalf DEF AtEnd
<1>2. \A i \in DOMAIN levels : stream.current <= levels[i].limit
  BY DEF IInv, LimitsNest
<1>3. ASSUME NEW i \in DOMAIN levels PROVE stream.pos + 1 <= levels[i].limit
  <2>1. levels[i].limit \in 0..MaxInt /\ stream.current \in 0..MaxInt /\ stream.pos \in Nat
    BY StreamFacts
  <2>2. stream.current <= levels[i].limit
    BY <1>2
  <2> QED BY <1>1, <2>1, <2>2, MaxIntIsHalf
<1>4. /\ stream.pos + 1 \in 0..Len(bytes)
      /\ stream.pos + 1 <= stream.total /\ stream.pos + 1 <= stream.current
  BY <1>1, StreamFacts, MaxIntIsHalf
<1> QED BY <1>3, <1>4 DEF Advance

LEMMA SetLimitsKeeps ==
  ASSUME IInv, SetLimits
  PROVE  IInv'
<1> USE StreamFacts, MaxIntIsHalf
<1> DEFINE w == ToInt(IF WarnBytes # 0 THEN WarnBytes ELSE MaxBytes)
           t == ToInt(MaxBytes)
<1>1. limit \in Int /\ warn \in Int
  BY NumberAssumption DEF IInv, TypeOK
<1>2. MaxBytes \in Int /\ WarnBytes \in Int
  <2>1. ToInt(limit) \in Int /\ ToInt(warn) \in Int
    BY <1>1, IntRange
  <2> QED BY <2>1, NumberAssumption DEF MaxBytes, WarnBytes
<1>3. t \in Int /\ t <= MaxInt /\ w \in Int /\ w <= MaxInt
  BY <1>2, IntRange
<1>4. stream.pos = 0 /\ Began' /\ expect' = "tag"
      /\ UNCHANGED <<bytes, limit, warn, required, levels, complete, outcome>>
  BY DEF IInv, Untouched, SetLimits, Began, arguments
<1>5. stream' = IF MaxBytes = 0 THEN stream ELSE SetTotalBytesLimit(stream, t, w)
  BY DEF SetLimits
<1>6. limit \in 1..MaxInt => MaxBytes = limit /\ t = limit
  BY LimitComesThrough
<1>12. limit \in Unheld => MaxBytes # 0 /\ t < 0
  BY UnheldIsNegative
<1> HIDE DEF w, t
<1>7. stream' \in [pos : 0..Len(bytes), current : 0..MaxInt, total : 0..MaxInt,
                   threshold : -1..MaxInt, legitimate : BOOLEAN, budget : 0..DefaultRecursion]
      /\ stream'.pos = 0 /\ stream'.current = stream.current /\ stream'.budget = stream.budget
  <2>1. stream \in [pos : 0..Len(bytes), current : 0..MaxInt, total : 0..MaxInt,
                    threshold : -1..MaxInt, legitimate : BOOLEAN, budget : 0..DefaultRecursion]
    BY DEF IInv, TypeOK
  <2>2. CASE MaxBytes = 0
    BY <1>4, <1>5, <2>1, <2>2
  <2>3. CASE MaxBytes # 0
    <3>1. stream' = [stream EXCEPT !.total = IF t > 0 THEN t ELSE 0,
                                   !.threshold = IF w >= 0 THEN w ELSE -1]
      BY <1>4, <1>5, <2>3 DEF SetTotalBytesLimit
    <3>2. (IF t > 0 THEN t ELSE 0) \in 0..MaxInt /\ (IF w >= 0 THEN w ELSE -1) \in -1..MaxInt
      BY <1>3
    <3> QED BY <1>4, <2>1, <3>1, <3>2
  <2> QED BY <2>2, <2>3
<1>8. /\ limit \in 1..MaxInt => stream'.total = limit
      /\ limit \in Unheld => stream'.total = 0
  <2>1. MaxBytes # 0 => stream'.total = IF t > 0 THEN t ELSE 0
    BY <1>3, <1>4, <1>5 DEF SetTotalBytesLimit, IInv, TypeOK
  <2>2. limit \in Unheld => limit \notin 1..MaxInt
    BY DEF Unheld
  <2>3. CASE limit \in 1..MaxInt
    BY <1>6, <2>1, <2>2, <2>3
  <2>4. CASE limit \in Unheld
    BY <1>3, <1>12, <2>1, <2>2, <2>4
  <2> QED BY <2>3, <2>4
<1>9. TypeOK'
  BY <1>4, <1>7 DEF IInv, TypeOK, SetLimits
<1>10. (TotalAsAsked /\ Untouched /\ BeforeLimits)'
  BY <1>4, <1>7, <1>8 DEF TotalAsAsked, Untouched, BeforeLimits, Began
<1>11. LimitsNest'
  BY <1>4, <1>7 DEF LimitsNest, IInv
<1> QED BY <1>9, <1>10, <1>11 DEF IInv

\* A step that at most reads a byte, and sets neither limits nor levels'
\* limits.
LEMMA ReadingKeeps ==
  ASSUME IInv, UNCHANGED arguments, Began,
         stream' = stream \/ (~AtEnd /\ stream' = Advance(stream)) \/ stream' = AtMessageEnd(stream),
         levels' \in Seq(Level),
         Len(levels') = Len(levels), DOMAIN levels' = DOMAIN levels,
         \A i \in DOMAIN levels : levels'[i].limit = levels[i].limit,
         expect' \in {"tag", "value", "length", "end", "done"},
         complete' \in BOOLEAN, outcome' \in {"none", "object", "throw"},
         (expect' = "done") = (outcome' # "none")
  PROVE  IInv'
<1> USE StreamFacts, MaxIntIsHalf
<1>1. /\ stream' \in [pos : 0..Len(bytes), current : 0..MaxInt, total : 0..MaxInt,
                      threshold : -1..MaxInt, legitimate : BOOLEAN, budget : 0..DefaultRecursion]
      /\ stream'.current = stream.current /\ stream'.total = stream.total
      /\ stream'.budget = stream.budget
      /\ stream'.pos <= stream.total /\ stream'.pos <= stream.current
      /\ \A i \in DOMAIN levels : stream'.pos <= levels[i].limit
  <2>1. CASE stream' = stream
    BY <2>1 DEF IInv, TypeOK, BeforeLimits, LimitsNest
  <2>2. CASE ~AtEnd /\ stream' = Advance(stream)
    BY <2>2, Advances, SMTT(30) DEF IInv, TypeOK
  <2>3. CASE stream' = AtMessageEnd(stream)
    BY <2>3 DEF IInv, TypeOK, BeforeLimits, LimitsNest, AtMessageEnd
  <2> QED BY <2>1, <2>2, <2>3
<1>2. TypeOK'
  BY <1>1 DEF IInv, TypeOK, arguments, Level
<1>3. (TotalAsAsked /\ Untouched /\ BeforeLimits)'
  BY <1>1 DEF IInv, TotalAsAsked, Untouched, BeforeLimits, Began, arguments
<1>4. LimitsNest'
  <2>1. ASSUME NEW i \in DOMAIN levels
        PROVE  /\ stream'.pos <= levels'[i].limit /\ stream'.current <= levels'[i].limit
               /\ \A j \in 1..i : levels'[i].limit <= levels'[j].limit
    <3>1. \A j \in 1..i : j \in DOMAIN levels /\ levels[i].limit <= levels[j].limit
      BY DEF IInv, LimitsNest
    <3>2. stream.current <= levels[i].limit /\ levels'[i].limit = levels[i].limit
      BY DEF IInv, LimitsNest
    <3> QED BY <1>1, <3>1, <3>2
  <2> QED BY <2>1 DEF LimitsNest
<1> QED BY <1>2, <1>3, <1>4 DEF IInv

\* Noting that a message has its field changes no limit.
LEMMA TagKeepsLimits ==
  ASSUME IInv,
         levels' = IF Next1.tag = "1" THEN [levels EXCEPT ![Len(levels)].has = TRUE] ELSE levels
  PROVE  /\ levels' \in Seq(Level)
         /\ Len(levels') = Len(levels) /\ DOMAIN levels' = DOMAIN levels
         /\ \A i \in DOMAIN levels : levels'[i].limit = levels[i].limit
<1> USE StreamFacts
<1>1. CASE Next1.tag = "1"
  <2> DEFINE top == [levels[Len(levels)] EXCEPT !.has = TRUE]
  <2>1. top \in Level /\ top.limit = levels[Len(levels)].limit
    <3>1. levels[Len(levels)] \in Level
      OBVIOUS
    <3> QED BY <3>1 DEF Level
  <2>2. levels' = [levels EXCEPT ![Len(levels)] = top]
    BY <1>1
  <2> HIDE DEF top
  <2>3. /\ levels' \in Seq(Level) /\ Len(levels') = Len(levels) /\ DOMAIN levels' = DOMAIN levels
        /\ levels'[Len(levels)] = top /\ \A k \in 1..Len(levels) - 1 : levels'[k] = levels[k]
    <3>1. levels \in Seq(Level) /\ levels # <<>> /\ top \in Level
      BY <2>1
    <3> QED BY ONLY <2>2, <3>1, ReplaceTop
  <2> QED BY <2>1, <2>3
<1>2. CASE Next1.tag # "1"
  BY <1>2
<1> QED BY <1>1, <1>2

LEMMA ReadTagKeeps ==
  ASSUME IInv, ReadTag
  PROVE  IInv'
<1> USE StreamFacts
<1>1. Began /\ levels \in Seq(Level) /\ complete \in BOOLEAN
      /\ outcome = "none"
  BY DEF ReadTag, Began, IInv, TypeOK
<1>2. CASE AtEnd /\ stream' = AtMessageEnd(stream) /\ expect' = "end"
           /\ UNCHANGED <<arguments, levels, complete, outcome>>
  BY <1>1, <1>2, ReadingKeeps
<1>3. CASE ~AtEnd /\ stream' = Advance(stream) /\ Fail
  BY <1>1, <1>3, ReadingKeeps DEF Fail
<1>4. CASE /\ ~AtEnd /\ stream' = Advance(stream)
           /\ expect' = CASE Next1.tag = "2" -> "length"
                          [] Next1.tag \in {"0", "stop"} -> "end"
                          [] OTHER -> "value"
           /\ levels' = IF Next1.tag = "1" THEN [levels EXCEPT ![Len(levels)].has = TRUE] ELSE levels
           /\ UNCHANGED <<arguments, complete, outcome>>
  <2>1. /\ levels' \in Seq(Level)
        /\ Len(levels') = Len(levels) /\ DOMAIN levels' = DOMAIN levels
        /\ \A i \in DOMAIN levels : levels'[i].limit = levels[i].limit
    BY <1>4, TagKeepsLimits
  <2>2. expect' \in {"value", "length", "end"}
    BY <1>4
  <2> QED BY <1>1, <1>4, <2>1, <2>2, ReadingKeeps
<1> QED BY <1>2, <1>3, <1>4 DEF ReadTag

LEMMA ReadValueKeeps ==
  ASSUME IInv, ReadValue
  PROVE  IInv'
<1>1. Began /\ levels \in Seq(Level) /\ complete \in BOOLEAN
      /\ outcome = "none"
  BY StreamFacts DEF ReadValue, Began, IInv, TypeOK
<1>2. CASE ~AtEnd /\ stream' = Advance(stream) /\ expect' = "tag"
           /\ UNCHANGED <<arguments, levels, complete, outcome>>
  BY <1>1, <1>2, ReadingKeeps
<1>3. CASE AtEnd /\ UNCHANGED stream /\ Fail
  BY <1>1, <1>3, ReadingKeeps DEF Fail
<1> QED BY <1>2, <1>3 DEF ReadValue

LEMMA EndParseKeeps ==
  ASSUME IInv, EndParse
  PROVE  IInv'
<1> USE StreamFacts
<1>1. Began /\ levels \in Seq(Level) /\ Complete \in BOOLEAN
  <2>1. complete \in BOOLEAN /\ required \in BOOLEAN
    BY DEF IInv, TypeOK
  <2>2. Last(levels).has \in BOOLEAN
    BY LastOfStack DEF Level
  <2> QED BY <2>1, <2>2 DEF Complete, EndParse, Began
<1>2. outcome' \in {"object", "throw"} /\ complete' \in BOOLEAN /\ expect' = "done"
      /\ UNCHANGED <<arguments, stream, levels>>
  BY <1>1 DEF EndParse
<1> QED BY <1>1, <1>2, ReadingKeeps

\* A nested message: its limit is the nearest of those in force.
LEMMA ReadLengthKeeps ==
  ASSUME IInv, ReadLength
  PROVE  IInv'
<1> USE StreamFacts, MaxIntIsHalf
<1>1. Began /\ complete \in BOOLEAN /\ outcome = "none"
  BY DEF ReadLength, Began, IInv, TypeOK
<1>2. CASE (AtEnd \/ stream.budget = 0) /\ UNCHANGED stream /\ Fail
  BY <1>1, <1>2, ReadingKeeps DEF Fail
<1>3. CASE /\ ~AtEnd /\ stream.budget > 0
           /\ stream' = PushLimit(Advance(stream), Next1.value) /\ expect' = "tag"
           /\ levels' = Append(levels, [limit |-> stream.current, has |-> FALSE])
           /\ UNCHANGED <<arguments, complete, outcome>>
  <2> DEFINE p == stream.pos + 1
             n == Next1.value
             c == IF n <= MaxInt - p /\ p + n < stream.current THEN p + n ELSE stream.current
             top == [limit |-> stream.current, has |-> FALSE]
  <2>1. /\ Advance(stream) = [stream EXCEPT !.pos = p] /\ p \in 0..Len(bytes)
        /\ p <= stream.total /\ p <= stream.current /\ \A i \in DOMAIN levels : p <= levels[i].limit
    BY <1>3, Advances
  <2>2. n \in Nat
    <3>1. stream.pos < Len(bytes)
      BY <1>3 DEF AtEnd
    <3>2. bytes \in Seq(Byte) /\ p \in DOMAIN bytes
      BY <2>1, BufferAssumption DEF IInv, TypeOK
    <3>3. bytes[p] \in Byte
      BY <3>2
    <3> QED BY <3>3 DEF Byte, Next1
  <2>3. c \in 0..MaxInt /\ c <= stream.current /\ p <= c
    <3>1. p \in Nat /\ n \in Nat /\ stream.current \in 0..MaxInt /\ p <= stream.current
      BY <2>1, <2>2
    <3> HIDE DEF p, n
    <3> QED BY <3>1
  <2>4. stream' = [stream EXCEPT !.pos = p, !.current = c, !.budget = stream.budget - 1]
    BY <1>3, <2>1 DEF PushLimit, IInv, TypeOK
  <2>5. top \in Level /\ top.limit = stream.current
    BY DEF Level
  <2>6. /\ levels' \in Seq(Level) /\ Len(levels') = Len(levels) + 1
        /\ DOMAIN levels' = 1..Len(levels) + 1
        /\ levels'[Len(levels) + 1] = top /\ \A k \in 1..Len(levels) : levels'[k] = levels[k]
    <3> HIDE DEF top
    <3>1. levels' = Append(levels, top)
      BY <1>3 DEF top
    <3> QED BY <2>5, <3>1, Push
  <2> HIDE DEF p, n, c, top
  <2>7. /\ stream' \in [pos : 0..Len(bytes), current : 0..MaxInt, total : 0..MaxInt,
                        threshold : -1..MaxInt, legitimate : BOOLEAN, budget : 0..DefaultRecursion]
        /\ stream'.pos = p /\ stream'.current = c /\ stream'.total = stream.total
        /\ stream'.budget = stream.budget - 1
    <3>1. stream.budget - 1 \in 0..DefaultRecursion
      BY <1>3
    <3> QED BY <2>1, <2>3, <2>4, <3>1 DEF IInv, TypeOK
  <2>8. TypeOK'
    <3>1. Len(levels') + stream'.budget = 1 + DefaultRecursion
      <4>1. Len(levels') = Len(levels) + 1 /\ stream'.budget = stream.budget - 1
        BY <2>6, <2>7
      <4>2. /\ Len(levels) \in Nat /\ stream.budget \in Int /\ DefaultRecursion \in Nat
            /\ Len(levels) + stream.budget = 1 + DefaultRecursion
        OBVIOUS
      <4> QED BY ONLY <4>1, <4>2
    <3>2. expect' = "tag" /\ UNCHANGED <<bytes, limit, warn, required, complete, outcome>>
      BY <1>3 DEF arguments
    <3> QED BY <1>1, <2>6, <2>7, <3>1, <3>2 DEF IInv, TypeOK, Level
  <2>9. (TotalAsAsked /\ Untouched /\ BeforeLimits)'
    BY <1>1, <1>3, <2>1, <2>3, <2>7 DEF IInv, TotalAsAsked, Untouched, BeforeLimits, Began, arguments
  <2>10. LimitsNest'
    <3>1. ASSUME NEW i \in DOMAIN levels'
          PROVE  /\ stream'.pos <= levels'[i].limit /\ stream'.current <= levels'[i].limit
                 /\ \A j \in 1..i : levels'[i].limit <= levels'[j].limit
      <4>1. CASE i = Len(levels) + 1
        <5>1. levels'[i].limit = stream.current
          BY <2>5, <2>6, <4>1
        <5>2. \A j \in 1..i : stream.current <= levels'[j].limit
          <6>1. \A j \in 1..Len(levels) : stream.current <= levels[j].limit
            BY DEF IInv, LimitsNest
          <6> QED BY <2>6, <4>1, <5>1, <6>1, SMTT(30)
        <5> QED BY <2>1, <2>3, <2>7, <5>1, <5>2
      <4>2. CASE i \in DOMAIN levels
        <5>1. levels'[i] = levels[i] /\ \A j \in 1..i : levels'[j] = levels[j]
          BY <2>6, <4>2
        <5>2. stream.current <= levels[i].limit /\ \A j \in 1..i : levels[i].limit <= levels[j].limit
          BY <4>2 DEF IInv, LimitsNest
        <5>3. levels[i].limit \in 0..MaxInt /\ p <= levels[i].limit
          BY <2>1, <4>2
        <5>4. c <= levels[i].limit
          BY <2>3, <5>2, <5>3
        <5> QED BY <2>7, <5>1, <5>2, <5>3, <5>4
      <4> QED BY <2>6, <4>1, <4>2
    <3> QED BY <3>1 DEF LimitsNest
  <2> QED BY <2>8, <2>9, <2>10 DEF IInv
<1> QED BY <1>2, <1>3 DEF ReadLength

\* The end of a nested message: the limit around it is in force again.
LEMMA EndNestedKeeps ==
  ASSUME IInv, EndNested
  PROVE  IInv'
<1> USE StreamFacts, MaxIntIsHalf
<1>1. Began /\ complete \in BOOLEAN /\ outcome = "none" /\ required \in BOOLEAN
  BY DEF EndNested, Began, IInv, TypeOK
<1>2. CASE ~stream.legitimate /\ UNCHANGED stream /\ Fail
  BY <1>1, <1>2, ReadingKeeps DEF Fail
<1>3. CASE /\ stream' = PopLimit(stream, Last(levels).limit) /\ expect' = "tag"
           /\ levels' = Front(levels) /\ complete' = Complete
           /\ UNCHANGED <<arguments, outcome>>
  <2> DEFINE k == Len(levels)
             c == levels[k].limit
  <2>1. k \in DOMAIN levels /\ c \in 0..MaxInt /\ Last(levels) = levels[k] /\ k - 1 \in Nat \ {0}
    BY LastOfStack DEF EndNested
  <2>2. Complete \in BOOLEAN
    <3>1. levels[k].has \in BOOLEAN
      BY <2>1 DEF Level
    <3> QED BY <1>1, <2>1, <3>1 DEF Complete
  <2>3. /\ levels' \in Seq(Level) /\ Len(levels') = k - 1 /\ DOMAIN levels' = 1..k - 1
        /\ \A i \in 1..k - 1 : levels'[i] = levels[i]
    BY <1>3, FrontOfStack
  <2>4. /\ stream.pos <= c
        /\ \A i \in DOMAIN levels : stream.pos <= levels[i].limit /\ c <= levels[i].limit
    BY <2>1 DEF IInv, LimitsNest
  <2>5. stream.budget + 1 \in 0..DefaultRecursion
    BY <2>1
  <2>6. stream' = [stream EXCEPT !.current = c, !.legitimate = FALSE, !.budget = stream.budget + 1]
    BY <1>3, <2>1 DEF PopLimit
  <2> HIDE DEF c
  <2>7. /\ stream' \in [pos : 0..Len(bytes), current : 0..MaxInt, total : 0..MaxInt,
                        threshold : -1..MaxInt, legitimate : BOOLEAN, budget : 0..DefaultRecursion]
        /\ stream'.pos = stream.pos /\ stream'.current = c /\ stream'.total = stream.total
        /\ stream'.budget = stream.budget + 1
    BY <2>1, <2>5, <2>6 DEF IInv, TypeOK
  <2>8. TypeOK'
    BY <1>1, <1>3, <2>2, <2>3, <2>7, SMTT(30) DEF IInv, TypeOK, arguments, Level
  <2>9. (TotalAsAsked /\ Untouched /\ BeforeLimits)'
    BY <1>1, <1>3, <2>4, <2>7 DEF IInv, TotalAsAsked, Untouched, BeforeLimits, Began, arguments
  <2>10. LimitsNest'
    <3>1. ASSUME NEW i \in DOMAIN levels'
          PROVE  /\ stream'.pos <= levels'[i].limit /\ stream'.current <= levels'[i].limit
                 /\ \A j \in 1..i : levels'[i].limit <= levels'[j].limit
      <4>1. i \in DOMAIN levels /\ levels'[i] = levels[i] /\ \A j \in 1..i : levels'[j] = levels[j]
        BY <2>1, <2>3, SMTT(30)
      <4>2. \A j \in 1..i : levels[i].limit <= levels[j].limit
        BY <4>1 DEF IInv, LimitsNest
      <4> QED BY <2>4, <2>7, <4>1, <4>2
    <3> QED BY <3>1 DEF LimitsNest
  <2> QED BY <2>8, <2>9, <2>10 DEF IInv
<1> QED BY <1>2, <1>3 DEF EndNested

LEMMA StepKeeps == IInv /\ [Next]_vars => IInv'
<1> SUFFICES ASSUME IInv, [Next]_vars PROVE IInv'
  OBVIOUS
<1>1. CASE UNCHANGED vars
  BY <1>1 DEF vars, arguments, IInv, TypeOK, TotalAsAsked, Untouched, BeforeLimits, LimitsNest, Began
<1> QED
  BY <1>1, SetLimitsKeeps, ReadTagKeeps, ReadValueKeeps, ReadLengthKeeps, EndNestedKeeps,
     EndParseKeeps DEF Next

----------------------------------------------------------------------------
(* Theorems.                                                               *)

LEMMA AlwaysIInv == Spec => []IInv
<1> QED BY InitIInv, StepKeeps, PTL DEF Spec

\* The variables keep their types: the stream stays inside its buffer, and the
\* levels of nesting and the recursion budget add up (native.cpp:127 to 135).
THEOREM TypeCorrect == Spec => []TypeOK
<1>1. IInv => TypeOK
  BY DEF IInv
<1> QED BY <1>1, AlwaysIInv, PTL

\* However the lengths inside a message lie, the limits of the messages around
\* one hold inside it, too.
THEOREM LimitsAlwaysNest == Spec => []LimitsNest
<1>1. IInv => LimitsNest
  BY DEF IInv
<1> QED BY <1>1, AlwaysIInv, PTL

\* A limit given to parse() that fits an int is never passed, and one that does
\* not, or is negative, lets nothing be read (native.cpp:130).
THEOREM LimitHolds == Spec => []NeverPastLimit
<1>1. IInv => NeverPastLimit
  <2> SUFFICES ASSUME IInv, Began PROVE NeverPastLimit
    BY DEF NeverPastLimit
  <2>1. limit \in 1..MaxInt => stream.pos <= limit
    BY DEF IInv, TotalAsAsked, BeforeLimits
  <2>2. limit \in Unheld => stream.pos = 0
    BY StreamFacts DEF IInv, TotalAsAsked, BeforeLimits
  <2> QED BY <2>1, <2>2 DEF NeverPastLimit
<1> QED BY <1>1, AlwaysIInv, PTL

----------------------------------------------------------------------------
(* Where messages end.                                                     *)

\* A message whose end was found legitimate ends at its limit or at the end of
\* the buffer, and the outermost one where MessagesEndProperly says; the limit
\* that is in force around the outermost message is none at all.
Ended ==
  \/ stream.pos \in {stream.total, Len(bytes)}
  \/ stream.pos > 0 /\ bytes[stream.pos].tag \in {"0", "stop"}
EndsWell ==
  /\ stream.legitimate => expect \in {"end", "done"} /\ stream.pos \in {stream.current, Len(bytes)}
  /\ expect = "end" /\ Len(levels) = 1 => Ended
Outermost == IF Len(levels) = 1 THEN stream.current = MaxInt ELSE levels[2].limit = MaxInt

EndInv == EndsWell /\ Outermost

LEMMA InitEndInv == Init => EndInv
BY MaxIntIsHalf DEF Init, NewStream, EndInv, EndsWell, Outermost

\* A step that leaves the levels and the limits in force as they are.
LEMMA LevelsStay ==
  ASSUME IInv, EndInv, levels' \in Seq(Level), Len(levels') = Len(levels),
         \A i \in DOMAIN levels : levels'[i].limit = levels[i].limit,
         stream'.current = stream.current
  PROVE  Outermost'
<1>1. CASE Len(levels) = 1
  BY <1>1 DEF EndInv, Outermost
<1>2. CASE Len(levels) # 1
  <2>1. 2 \in DOMAIN levels
    BY <1>2, StreamFacts
  <2> QED BY <1>2, <2>1 DEF EndInv, Outermost
<1> QED BY <1>1, <1>2

LEMMA SetLimitsEnds ==
  ASSUME IInv, EndInv, SetLimits
  PROVE  EndInv'
<1> DEFINE w == ToInt(IF WarnBytes # 0 THEN WarnBytes ELSE MaxBytes)
           t == ToInt(MaxBytes)
<1>1. /\ stream' = IF MaxBytes = 0 THEN stream ELSE SetTotalBytesLimit(stream, t, w)
      /\ expect = "limits" /\ expect' = "tag" /\ levels' = levels
  BY DEF SetLimits
<1> HIDE DEF t, w
<1>2. stream'.current = stream.current /\ stream'.legitimate = stream.legitimate
  BY <1>1 DEF SetTotalBytesLimit, IInv, TypeOK
<1>3. EndsWell'
  BY <1>1, <1>2 DEF EndInv, EndsWell
<1>4. Outermost'
  BY <1>1, <1>2, StreamFacts, LevelsStay
<1> QED BY <1>3, <1>4 DEF EndInv

LEMMA ReadTagEnds ==
  ASSUME IInv, EndInv, ReadTag
  PROVE  EndInv'
<1> USE StreamFacts, MaxIntIsHalf
<1>1. expect = "tag" /\ ~stream.legitimate
  BY DEF ReadTag, EndInv, EndsWell
<1>2. CASE AtEnd /\ stream' = AtMessageEnd(stream) /\ expect' = "end"
           /\ UNCHANGED <<arguments, levels, complete, outcome>>
  <2>1. /\ stream'.pos = stream.pos /\ stream'.current = stream.current
        /\ stream'.total = stream.total
        /\ stream'.legitimate => stream.pos < stream.total \/ stream.current = stream.total
    BY <1>2 DEF AtMessageEnd, IInv, TypeOK
  <2>2. stream.pos \in {stream.current, stream.total, Len(bytes)}
    BY <1>2 DEF AtEnd, IInv, BeforeLimits
  <2>3. stream'.legitimate => stream.pos \in {stream.current, Len(bytes)}
    BY <2>1, <2>2
  <2>4. Len(levels) = 1 => stream.pos \in {stream.total, Len(bytes)}
    BY <2>2 DEF EndInv, Outermost, IInv, BeforeLimits
  <2>5. EndsWell'
    BY <1>2, <2>1, <2>3, <2>4 DEF EndsWell, Ended, arguments
  <2> QED BY <1>2, <2>1, <2>5, LevelsStay DEF EndInv
<1>3. CASE ~AtEnd /\ stream' = Advance(stream) /\ Fail
  <2>1. stream'.current = stream.current /\ ~stream'.legitimate
    BY <1>1, <1>3 DEF Advance, IInv, TypeOK
  <2> QED BY <1>3, <2>1, LevelsStay DEF EndInv, EndsWell, Fail
<1>4. CASE /\ ~AtEnd /\ stream' = Advance(stream)
           /\ expect' = CASE Next1.tag = "2" -> "length"
                          [] Next1.tag \in {"0", "stop"} -> "end"
                          [] OTHER -> "value"
           /\ levels' = IF Next1.tag = "1" THEN [levels EXCEPT ![Len(levels)].has = TRUE] ELSE levels
           /\ UNCHANGED <<arguments, complete, outcome>>
  <2>1. stream'.current = stream.current /\ ~stream'.legitimate /\ stream'.pos = stream.pos + 1
    BY <1>1, <1>4 DEF Advance, IInv, TypeOK
  <2>2. expect' = "end" => Next1.tag \in {"0", "stop"}
    BY <1>4
  <2>3. EndsWell'
    BY <1>4, <2>1, <2>2 DEF EndsWell, Ended, Next1, arguments
  <2>4. levels' \in Seq(Level) /\ Len(levels') = Len(levels)
        /\ \A i \in DOMAIN levels : levels'[i].limit = levels[i].limit
    BY <1>4, TagKeepsLimits
  <2> QED BY <2>1, <2>3, <2>4, LevelsStay DEF EndInv
<1> QED BY <1>2, <1>3, <1>4 DEF ReadTag

LEMMA ReadValueEnds ==
  ASSUME IInv, EndInv, ReadValue
  PROVE  EndInv'
<1>1. expect = "value" /\ ~stream.legitimate /\ levels' = levels
  BY DEF ReadValue, EndInv, EndsWell, Fail
<1>2. stream'.current = stream.current /\ ~stream'.legitimate /\ expect' \in {"tag", "done"}
  BY <1>1 DEF ReadValue, Fail, Advance, IInv, TypeOK
<1> QED BY <1>1, <1>2, StreamFacts, LevelsStay DEF EndInv, EndsWell

LEMMA ReadLengthEnds ==
  ASSUME IInv, EndInv, ReadLength
  PROVE  EndInv'
<1> USE StreamFacts
<1>1. expect = "length" /\ ~stream.legitimate
  BY DEF ReadLength, EndInv, EndsWell
<1>2. CASE UNCHANGED stream /\ Fail
  BY <1>1, <1>2, LevelsStay DEF EndInv, EndsWell, Fail
<1>3. CASE /\ stream' = PushLimit(Advance(stream), Next1.value) /\ expect' = "tag"
           /\ levels' = Append(levels, [limit |-> stream.current, has |-> FALSE])
  <2>1. ~stream'.legitimate
    BY <1>1, <1>3 DEF PushLimit, Advance, IInv, TypeOK
  <2>2. /\ Len(levels') = Len(levels) + 1
        /\ levels'[Len(levels) + 1].limit = stream.current
        /\ \A i \in 1..Len(levels) : levels'[i] = levels[i]
    BY <1>3
  <2>3. levels'[2].limit = MaxInt
    BY <2>2, SMTT(30) DEF EndInv, Outermost
  <2> QED BY <1>3, <2>1, <2>2, <2>3 DEF EndInv, EndsWell, Outermost
<1> QED BY <1>2, <1>3 DEF ReadLength

LEMMA EndNestedEnds ==
  ASSUME IInv, EndInv, EndNested
  PROVE  EndInv'
<1> USE StreamFacts
<1>1. CASE UNCHANGED stream /\ Fail
  <2>1. UNCHANGED <<bytes, stream, levels>> /\ expect = "end" /\ expect' = "done"
    BY <1>1 DEF Fail, arguments, EndNested
  <2> QED BY <2>1, LevelsStay DEF EndInv, EndsWell
<1>2. CASE /\ stream' = PopLimit(stream, Last(levels).limit) /\ expect' = "tag"
           /\ levels' = Front(levels)
  <2>1. Len(levels) > 1 /\ Last(levels) = levels[Len(levels)]
    BY LastOfStack DEF EndNested
  <2>2. ~stream'.legitimate /\ stream'.current = levels[Len(levels)].limit
    BY <1>2, <2>1 DEF PopLimit, IInv, TypeOK
  <2>3. Len(levels') = Len(levels) - 1 /\ \A i \in 1..Len(levels) - 1 : levels'[i] = levels[i]
    BY <1>2, <2>1, FrontOfStack
  <2>4. levels[2].limit = MaxInt
    BY <2>1 DEF EndInv, Outermost
  <2>5. Outermost'
    <3>1. CASE Len(levels) = 2
      BY <2>2, <2>3, <2>4, <3>1 DEF Outermost
    <3>2. CASE Len(levels) > 2
      BY <2>3, <2>4, <3>2, SMTT(30) DEF Outermost
    <3> QED BY <2>1, <3>1, <3>2
  <2> QED BY <1>2, <2>2, <2>5 DEF EndInv, EndsWell
<1> QED BY <1>1, <1>2 DEF EndNested

LEMMA EndParseEnds ==
  ASSUME IInv, EndInv, EndParse
  PROVE  EndInv'
<1>1. UNCHANGED <<arguments, stream, levels>> /\ expect = "end" /\ expect' = "done"
  BY DEF EndParse
<1> QED BY <1>1, StreamFacts, LevelsStay DEF EndInv, EndsWell, arguments

LEMMA AlwaysEndInv == Spec => [](IInv /\ EndInv)
<1>1. IInv /\ EndInv /\ [Next]_vars => EndInv'
  <2> SUFFICES ASSUME IInv, EndInv, [Next]_vars PROVE EndInv'
    OBVIOUS
  <2>1. CASE UNCHANGED vars
    BY <2>1 DEF vars, arguments, EndInv, EndsWell, Ended, Outermost
  <2> QED
    BY <2>1, SetLimitsEnds, ReadTagEnds, ReadValueEnds, ReadLengthEnds, EndNestedEnds,
       EndParseEnds DEF Next
<1> QED BY <1>1, InitEndInv, AlwaysIInv, PTL DEF Spec

\* Whatever a buffer says of its lengths and wherever it stops, a message that is
\* accepted ends at its own end or at that of the data (native.cpp:135).
THEOREM NothingCutShort == Spec => MessagesEndProperly
<1> DEFINE Body ==
      /\ Len(levels') < Len(levels) => stream.pos \in {stream.current, Len(bytes)}
      /\ outcome' = "object" /\ outcome = "none" =>
           \/ stream.pos \in {stream.total, Len(bytes)}
           \/ stream.pos > 0 /\ bytes[stream.pos].tag \in {"0", "stop"}
<1>1. IInv /\ EndInv /\ [Next]_vars => [Body]_vars
  <2> SUFFICES ASSUME IInv, EndInv, Next PROVE Body
    OBVIOUS
  <2> USE StreamFacts
  <2>1. CASE SetLimits
    BY <2>1 DEF SetLimits
  <2>2. CASE ReadTag
    <3>1. CASE UNCHANGED <<levels, outcome>>
      BY <3>1
    <3>2. CASE Fail
      BY <3>2 DEF Fail
    <3>3. CASE /\ levels' = IF Next1.tag = "1" THEN [levels EXCEPT ![Len(levels)].has = TRUE] ELSE levels
               /\ UNCHANGED outcome
      BY <3>3, TagKeepsLimits
    <3> QED BY <2>2, <3>1, <3>2, <3>3 DEF ReadTag
  <2>3. CASE ReadValue
    BY <2>3 DEF ReadValue, Fail
  <2>4. CASE ReadLength
    <3>1. CASE Fail
      BY <3>1 DEF Fail
    <3>2. CASE levels' = Append(levels, [limit |-> stream.current, has |-> FALSE]) /\ UNCHANGED outcome
      BY <3>2
    <3> QED BY <2>4, <3>1, <3>2 DEF ReadLength
  <2>5. CASE EndNested
    <3>1. CASE Fail
      BY <3>1 DEF Fail
    <3>2. CASE stream.legitimate /\ UNCHANGED outcome
      BY <3>2 DEF EndInv, EndsWell
    <3> QED BY <2>5, <3>1, <3>2 DEF EndNested
  <2>6. CASE EndParse
    BY <2>6 DEF EndParse, EndInv, EndsWell, Ended
  <2> QED BY <2>1, <2>2, <2>3, <2>4, <2>5, <2>6 DEF Next
<1>2. [](IInv /\ EndInv) /\ [][Next]_vars => [][Body]_vars
  BY <1>1, PTL
<1> QED BY <1>2, AlwaysEndInv, PTL DEF Spec, MessagesEndProperly
==============================================================================
