---------------------------- MODULE StackLemmas ----------------------------
(* Sequences used as stacks, innermost element last.                       *)
EXTENDS Integers, SequencesExt, SequenceTheorems, TLAPS

\* The top of a stack is one of its elements.
LEMMA LastOfStack ==
  ASSUME NEW S, NEW s \in Seq(S), s # <<>>
  PROVE  Len(s) \in Nat \ {0} /\ Len(s) \in DOMAIN s /\ Last(s) = s[Len(s)] /\ Last(s) \in S
BY DEF Last

\* Popping keeps every other element in its place.
LEMMA FrontOfStack ==
  ASSUME NEW S, NEW s \in Seq(S), s # <<>>
  PROVE  /\ Front(s) \in Seq(S) /\ Len(Front(s)) = Len(s) - 1
         /\ DOMAIN Front(s) = 1..Len(s) - 1
         /\ \A k \in 1..Len(s) - 1 : Front(s)[k] = s[k]
<1> DEFINE n == Len(s) - 1
<1>1. n \in Nat /\ n + 1 = Len(s) /\ Front(s) = SubSeq(s, 1, n)
  BY DEF Front
<1>2. \A k \in 1..n : s[k] \in S
  BY <1>1
<1> HIDE DEF n
<1>3. SubSeq(s, 1, n) \in Seq(S)
  BY <1>1, <1>2, SubSeqProperties
<1>4. Len(SubSeq(s, 1, n)) = n
  <2>1. Len(SubSeq(s, 1, n)) = IF 1 <= n THEN n - 1 + 1 ELSE 0
    BY <1>1, <1>2, SubSeqProperties
  <2> QED BY <1>1, <2>1
<1>5. ASSUME NEW k \in 1..n  PROVE SubSeq(s, 1, n)[k] = s[k]
  <2>1. \A i \in 1..n - 1 + 1 : SubSeq(s, 1, n)[i] = s[1 + i - 1]
    BY <1>1, <1>2, SubSeqProperties
  <2> QED BY <1>1, <2>1
<1>6. n = Len(s) - 1
  BY DEF n
<1> QED BY <1>1, <1>3, <1>4, <1>5, <1>6

\* Replacing the top keeps every other element in its place.
LEMMA ReplaceTop ==
  ASSUME NEW S, NEW s \in Seq(S), s # <<>>, NEW x \in S
  PROVE  LET t == [s EXCEPT ![Len(s)] = x]
         IN /\ t \in Seq(S) /\ Len(t) = Len(s) /\ DOMAIN t = DOMAIN s
            /\ t[Len(s)] = x /\ \A k \in 1..Len(s) - 1 : t[k] = s[k]
OBVIOUS

\* Pushing keeps every element in its place.
LEMMA Push ==
  ASSUME NEW S, NEW s \in Seq(S), NEW x \in S
  PROVE  LET t == Append(s, x)
         IN /\ t \in Seq(S) /\ Len(s) \in Nat /\ Len(t) = Len(s) + 1
            /\ DOMAIN t = 1..Len(s) + 1
            /\ t[Len(s) + 1] = x /\ \A k \in 1..Len(s) : t[k] = s[k]
OBVIOUS

\* Pushing, whatever is pushed.
LEMMA PushAny ==
  ASSUME NEW S, NEW s \in Seq(S), NEW x
  PROVE  LET t == Append(s, x)
         IN /\ Len(s) \in Nat /\ Len(t) = Len(s) + 1 /\ DOMAIN t = 1..Len(s) + 1
            /\ t[Len(s) + 1] = x /\ \A k \in 1..Len(s) : t[k] = s[k]
<1> DEFINE T == S \cup {x}
<1>1. s \in Seq(T) /\ x \in T
  OBVIOUS
<1> HIDE DEF T
<1> QED BY <1>1, Push

\* The oldest entry of a queue, and what is behind it.
LEMMA HeadTail ==
  ASSUME NEW S, NEW s \in Seq(S), s # <<>>
  PROVE  /\ Len(s) \in Nat \ {0} /\ Head(s) = s[1] /\ Head(s) \in S
         /\ Tail(s) \in Seq(S) /\ Len(Tail(s)) = Len(s) - 1
         /\ \A k \in 1..Len(s) - 1 : Tail(s)[k] = s[k + 1]
OBVIOUS
=============================================================================
