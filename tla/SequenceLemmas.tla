--------------------------- MODULE SequenceLemmas ---------------------------
(***************************************************************************)
(* Facts about the sequences that stand for queues of handlers: what       *)
(* appending to the end and taking the head does to the elements.          *)
(***************************************************************************)
EXTENDS Integers, Sequences, Functions, SequenceTheorems, TLAPS

(* A non-empty sequence is its head followed by its tail.                  *)
LEMMA HeadThenTail ==
  ASSUME NEW S, NEW s \in Seq(S), s # << >>
  PROVE  /\ s = <<Head(s)>> \o Tail(s)
         /\ Range(s) = {Head(s)} \cup Range(Tail(s))
<1>1. Head(s) \in S /\ Tail(s) \in Seq(S) /\ <<Head(s)>> \in Seq(S)
  BY HeadTailProperties
<1>2. s = <<Head(s)>> \o Tail(s)
  <2>1. Len(<<Head(s)>> \o Tail(s)) = Len(s)
    BY <1>1, ConcatProperties, HeadTailProperties
  <2>2. \A i \in 1 .. Len(s) : (<<Head(s)>> \o Tail(s))[i] = s[i]
    BY <1>1, ConcatProperties, HeadTailProperties
  <2>3. <<Head(s)>> \o Tail(s) \in Seq(S)
    BY <1>1, ConcatProperties
  <2> QED
    BY <2>1, <2>2, <2>3, SeqEqual
<1>3. Range(<<Head(s)>>) = {Head(s)}
  BY DEF Range
<1>4. Range(<<Head(s)>> \o Tail(s)) = Range(<<Head(s)>>) \cup Range(Tail(s))
  BY <1>1, RangeConcatenation
<1> QED
  BY <1>2, <1>3, <1>4

(* The head of a queue is moved to the end of the sequence before it.      *)
LEMMA MoveHead ==
  ASSUME NEW S, NEW s \in Seq(S), NEW t \in Seq(S), t # << >>
  PROVE  Append(s, Head(t)) \o Tail(t) = s \o t
<1>1. Head(t) \in S /\ Tail(t) \in Seq(S) /\ <<Head(t)>> \in Seq(S)
  BY HeadTailProperties
<1>2. Append(s, Head(t)) = s \o <<Head(t)>>
  BY <1>1, AppendIsConcat
<1>3. (s \o <<Head(t)>>) \o Tail(t) = s \o (<<Head(t)>> \o Tail(t))
  BY <1>1, ConcatAssociative
<1> QED
  BY <1>2, <1>3, HeadThenTail

(* An element appended to the second of two sequences.                     *)
LEMMA AppendToSecond ==
  ASSUME NEW S, NEW s \in Seq(S), NEW t \in Seq(S), NEW e \in S
  PROVE  s \o Append(t, e) = Append(s \o t, e)
<1>1. Append(t, e) = t \o <<e>> /\ <<e>> \in Seq(S)
  BY AppendIsConcat
<1>2. s \o t \in Seq(S)
  BY ConcatProperties
<1>3. Append(s \o t, e) = (s \o t) \o <<e>>
  BY <1>2, AppendIsConcat
<1>4. (s \o t) \o <<e>> = s \o (t \o <<e>>)
  BY <1>1, ConcatAssociative
<1> QED
  BY <1>1, <1>3, <1>4

(* The range of a sequence with an element appended.                       *)
LEMMA RangeAppend ==
  ASSUME NEW S, NEW s \in Seq(S), NEW e \in S
  PROVE  Range(Append(s, e)) = Range(s) \cup {e}
<1>1. Append(s, e) = s \o <<e>> /\ <<e>> \in Seq(S)
  BY AppendIsConcat
<1>2. Range(<<e>>) = {e}
  BY DEF Range
<1>3. Range(s \o <<e>>) = Range(s) \cup Range(<<e>>)
  BY <1>1, RangeConcatenation
<1> QED
  BY <1>1, <1>2, <1>3

(* Concatenation, three sequences at a time.                               *)
LEMMA Associative ==
  ASSUME NEW S, NEW s \in Seq(S), NEW t \in Seq(S), NEW u \in Seq(S)
  PROVE  s \o (t \o u) = (s \o t) \o u
BY ConcatAssociative

(* Where an element of the third of four sequences occurs.                 *)
LEMMA ElementOnce ==
  ASSUME NEW S, NEW p \in Seq(S), NEW q \in Seq(S), NEW e \in S,
         \A i, j \in 1 .. Len((p \o <<e>>) \o q) :
           ((p \o <<e>>) \o q)[i] = ((p \o <<e>>) \o q)[j] => i = j
  PROVE  e \notin Range(p) /\ e \in Range((p \o <<e>>) \o q)
<1> DEFINE all == (p \o <<e>>) \o q
<1>1. /\ \A i \in 1 .. Len(p) : all[i] = p[i]
      /\ all[Len(p) + 1] = e
      /\ Len(all) = Len(p) + 1 + Len(q)
  OBVIOUS
<1>2. all \in Seq(S)
  <2>1. <<e>> \in Seq(S)
    OBVIOUS
  <2>2. p \o <<e>> \in Seq(S)
    BY <2>1, ConcatProperties
  <2> QED
    BY <2>2, ConcatProperties
<1>3. \A i, j \in 1 .. Len(all) : all[i] = all[j] => i = j
  OBVIOUS
<1>4. Len(p) \in Nat /\ Len(q) \in Nat
  BY LenProperties
<1> HIDE DEF all
<1>5. e \in Range(all)
  <2>1. Len(p) + 1 \in DOMAIN all
    BY <1>1, <1>2, <1>4, LenProperties
  <2> QED
    BY <1>1, <2>1 DEF Range
<1>6. e \notin Range(p)
  <2>1. \A i \in 1 .. Len(p) : p[i] # e
    BY <1>1, <1>3, <1>4
  <2> QED
    BY <2>1, RangeEquality
<1> QED
  BY <1>5, <1>6 DEF all

(* The range of three sequences put together.                              *)
LEMMA RangeOfThree ==
  ASSUME NEW S, NEW s \in Seq(S), NEW t \in Seq(S), NEW u \in Seq(S)
  PROVE  /\ (s \o t) \o u \in Seq(S)
         /\ Range((s \o t) \o u) = Range(s) \cup Range(t) \cup Range(u)
<1>1. s \o t \in Seq(S)
  BY ConcatProperties
<1>2. (s \o t) \o u \in Seq(S)
  BY <1>1, ConcatProperties
<1>3. Range(s \o t) = Range(s) \cup Range(t)
  BY RangeConcatenation
<1>4. Range((s \o t) \o u) = Range(s \o t) \cup Range(u)
  BY <1>1, RangeConcatenation
<1> QED
  BY <1>2, <1>3, <1>4

(* An element that is new may be appended to a queue in which none occurs  *)
(* twice.                                                                  *)
LEMMA InjectiveAppend ==
  ASSUME NEW S, NEW s \in Seq(S), NEW e \in S, e \notin Range(s), IsInjective(s)
  PROVE  IsInjective(Append(s, e))
<1> DEFINE longer == Append(s, e)
<1>1. /\ Len(longer) = Len(s) + 1
      /\ Len(s) \in Nat
      /\ \A i \in 1 .. Len(s) : longer[i] = s[i]
      /\ longer[Len(s) + 1] = e
  BY AppendProperties
<1>2. DOMAIN longer = 1 .. Len(longer)
  BY AppendProperties, LenProperties
<1>3. DOMAIN s = 1 .. Len(s)
  BY LenProperties
<1>4. \A i \in 1 .. Len(s) : s[i] # e
  BY <1>3 DEF Range
<1> HIDE DEF longer
<1>5. IsInjective(longer)
  BY <1>1, <1>2, <1>3, <1>4 DEF IsInjective
<1> QED
  BY <1>5 DEF longer

(* The head of such a queue is not in its tail.                            *)
LEMMA InjectiveTail ==
  ASSUME NEW S, NEW s \in Seq(S), s # << >>, IsInjective(s)
  PROVE  /\ IsInjective(Tail(s))
         /\ Head(s) \notin Range(Tail(s))
<1> DEFINE rest == Tail(s)
<1>1. /\ Len(rest) = Len(s) - 1
      /\ \A i \in 1 .. Len(rest) : rest[i] = s[i + 1]
      /\ rest \in Seq(S)
  BY HeadTailProperties
<1>2. DOMAIN s = 1 .. Len(s) /\ Len(s) \in Nat /\ Len(s) # 0 /\ Head(s) = s[1]
  BY LenProperties, EmptySeq
<1> HIDE DEF rest
<1>3. DOMAIN rest = 1 .. Len(rest)
  BY <1>1, LenProperties
<1>4. IsInjective(rest)
  BY <1>1, <1>2, <1>3 DEF IsInjective
<1>5. \A i \in 1 .. Len(rest) : rest[i] # Head(s)
  BY <1>1, <1>2 DEF IsInjective
<1>6. Head(s) \notin Range(rest)
  BY <1>3, <1>5 DEF Range
<1> QED
  BY <1>4, <1>6 DEF rest
=============================================================================
