----------------------------- MODULE SequenceLemmas -----------------------------
(****************************************************************************)
(* What the operators on sequences do that the modules about vectors use,   *)
(* and two facts about numbers for loops over them. Induction is over a set *)
(* of numbers, which the provers can be given as a value.                   *)
(****************************************************************************)
EXTENDS Integers, Sequences, SequencesExt, SequenceTheorems, WellFoundedInduction, TLAPS

(* A set of natural numbers that is not empty has a least one.              *)
LEMMA LeastNumber ==
  ASSUME NEW T, T \subseteq Nat, T # {}
  PROVE  \E n \in T : \A m \in T : n <= m
<1>1. PICK n \in T : \A m \in T : <<m, n>> \notin OpToRel(<, Nat)
  BY NatLessThanWellFounded, WFMin, Zenon
<1>2. ASSUME NEW m \in T PROVE n <= m
  <2>1. ~(m < n)
    BY <1>1, Zenon DEF OpToRel
  <2> QED
    BY <2>1
<1> QED
  BY <1>2

(* What holds before the first turn of a loop of N turns, and after a turn  *)
(* if it did before it, holds after each.                                   *)
LEMMA LoopInduction ==
  ASSUME NEW N \in Nat, NEW T, 0 \in T,
         \A n \in 0..(N - 1) : n \in T => n + 1 \in T
  PROVE  \A n \in 0..N : n \in T
<1> DEFINE F == {n \in 0..N : n \notin T}
<1> SUFFICES ASSUME F # {} PROVE FALSE
  OBVIOUS
<1>1. PICK n \in F : \A m \in F : n <= m
  <2>1. F \subseteq Nat
    OBVIOUS
  <2> HIDE DEF F
  <2> QED
    BY <2>1, LeastNumber
<1>2. n \in Nat /\ n # 0
  OBVIOUS
<1>3. n - 1 \in 0..(N - 1) /\ n - 1 \notin F
  BY <1>1, <1>2
<1>4. n - 1 \in T
  BY <1>3
<1> QED
  BY <1>2, <1>3, <1>4

(* A loop that starts with a and whose turn n is the function step[n] has   *)
(* a value after each turn, so that a recursive function over its turns is  *)
(* what its definition says.                                                *)
LoopOf(g, N, S, a, step) ==
  /\ g \in [0..N -> S] /\ g[0] = a
  /\ \A n \in 1..N : g[n] = step[n][g[n - 1]]

LEMMA LoopRuns ==
  ASSUME NEW N \in Nat, NEW S, NEW a \in S, NEW step,
         \A n \in 1..N : \A b \in S : step[n][b] \in S
  PROVE  \E g : LoopOf(g, N, S, a, step)
<1> DEFINE Turns(g, n) == \A m \in 0..n : g[m] = IF m = 0 THEN a ELSE step[m][g[m - 1]]
           T == {n \in 0..N : \E g \in [0..n -> S] : Turns(g, n)}
<1>1. 0 \in T
  <2> DEFINE h == [m \in 0..0 |-> a]
  <2>1. h \in [0..0 -> S] /\ Turns(h, 0)
    OBVIOUS
  <2> HIDE DEF h, Turns
  <2> QED
    BY <2>1
<1>2. ASSUME NEW n \in 0..(N - 1), n \in T PROVE n + 1 \in T
  <2>1. PICK g \in [0..n -> S] : Turns(g, n)
    BY <1>2
  <2> DEFINE h == [m \in 0..(n + 1) |-> IF m = n + 1 THEN step[n + 1][g[n]] ELSE g[m]]
  <2>2. n \in Nat /\ n + 1 \in 1..N /\ n \in 0..n
    OBVIOUS
  <2>3. h \in [0..(n + 1) -> S]
    <3>1. g[n] \in S
      BY <2>2
    <3>2. step[n + 1][g[n]] \in S
      BY <2>2, <3>1
    <3>3. \A m \in 0..(n + 1) : m # n + 1 => m \in 0..n
      BY <2>2
    <3> QED
      BY <3>2, <3>3
  <2>4. ASSUME NEW m \in 0..(n + 1)
        PROVE  h[m] = IF m = 0 THEN a ELSE step[m][h[m - 1]]
    <3>1. CASE m = n + 1
      <4>1. m # 0 /\ m - 1 = n /\ n \in 0..(n + 1) /\ n # n + 1
        BY <2>2, <3>1
      <4>2. h[m - 1] = g[n] /\ h[m] = step[n + 1][g[n]]
        BY <3>1, <4>1
      <4> QED
        BY <3>1, <4>1, <4>2
    <3>2. CASE m # n + 1
      <4>1. m \in 0..n /\ h[m] = g[m]
        BY <3>2
      <4>2. m # 0 => m - 1 \in 0..(n + 1) /\ m - 1 # n + 1
        BY <4>1
      <4>3. m # 0 => h[m - 1] = g[m - 1]
        BY <4>2
      <4>4. g[m] = IF m = 0 THEN a ELSE step[m][g[m - 1]]
        BY <2>1, <4>1
      <4> QED
        BY <4>1, <4>3, <4>4
    <3> QED
      BY <3>1, <3>2
  <2> HIDE DEF h
  <2>5. Turns(h, n + 1)
    BY <2>4
  <2> HIDE DEF Turns
  <2> QED
    BY <2>2, <2>3, <2>5
<1> HIDE DEF Turns
<1>3. N \in T
  <2> HIDE DEF T
  <2>1. \A n \in 0..N : n \in T
    BY <1>1, <1>2, LoopInduction
  <2> QED
    BY <2>1
<1>4. PICK g \in [0..N -> S] : Turns(g, N)
  BY <1>3
<1>5. g[0] = a /\ \A n \in 1..N : g[n] = step[n][g[n - 1]]
  BY <1>4 DEF Turns
<1> QED
  BY <1>4, <1>5 DEF LoopOf

(* RemoveAt shifts what follows the place one down.                         *)
LEMMA RemoveAtShifts ==
  ASSUME NEW S, NEW s \in Seq(S), NEW i \in 1..Len(s)
  PROVE  /\ RemoveAt(s, i) \in Seq(S)
         /\ Len(RemoveAt(s, i)) = Len(s) - 1
         /\ \A j \in 1..(Len(s) - 1) : RemoveAt(s, i)[j] = IF j < i THEN s[j] ELSE s[j + 1]
<1> DEFINE l == SubSeq(s, 1, i - 1)
           r == SubSeq(s, i + 1, Len(s))
<1>1. l \in Seq(S) /\ Len(l) = i - 1 /\ \A j \in 1..(i - 1) : l[j] = s[j]
  OBVIOUS
<1>2. r \in Seq(S) /\ Len(r) = Len(s) - i /\ \A j \in 1..(Len(s) - i) : r[j] = s[i + j]
  OBVIOUS
<1> HIDE DEF l, r
<1>3. /\ l \o r \in Seq(S)
      /\ Len(l \o r) = Len(l) + Len(r)
      /\ \A j \in 1..(Len(l) + Len(r)) :
           (l \o r)[j] = IF j <= Len(l) THEN l[j] ELSE r[j - Len(l)]
  BY <1>1, <1>2, ConcatProperties
<1>4. ASSUME NEW j \in 1..(Len(s) - 1)
      PROVE  (l \o r)[j] = IF j < i THEN s[j] ELSE s[j + 1]
  <2>1. j \in 1..(Len(l) + Len(r)) /\ (j <= Len(l) <=> j < i)
    BY <1>1, <1>2
  <2>2. CASE j < i
    BY <1>1, <1>3, <2>1, <2>2
  <2>3. CASE j >= i
    <3>1. PICK k \in 1..(Len(s) - i) : k = j - Len(l) /\ i + k = j + 1
      BY <1>1, <2>3
    <3>2. (l \o r)[j] = r[k]
      BY <1>3, <2>1, <2>3, <3>1
    <3>3. r[k] = s[j + 1]
      BY <1>2, <3>1
    <3>4. ~(j < i)
      BY <2>3
    <3> QED
      BY <3>2, <3>3, <3>4, Zenon
  <2>4. j < i \/ j >= i
    BY LenProperties
  <2> QED
    BY <2>2, <2>3, <2>4, Zenon
<1>5. RemoveAt(s, i) = l \o r
  BY DEF RemoveAt, l, r
<1>6. Len(l \o r) = Len(s) - 1
  BY <1>1, <1>2, <1>3
<1> QED
  BY <1>3, <1>4, <1>5, <1>6

(* What a sequence holds after Append, and a nonempty one after Tail.       *)
LEMMA RangeAppend ==
  ASSUME NEW S, NEW s \in Seq(S), NEW x
  PROVE  Range(Append(s, x)) = Range(s) \cup {x}
<1>1. /\ DOMAIN Append(s, x) = 1..(Len(s) + 1) /\ Append(s, x)[Len(s) + 1] = x
      /\ \A i \in 1..Len(s) : Append(s, x)[i] = s[i]
  OBVIOUS
<1>2. DOMAIN s = 1..Len(s) /\ Len(s) \in Nat
  OBVIOUS
<1>3. Range(Append(s, x)) \subseteq Range(s) \cup {x}
  BY <1>1, <1>2 DEF Range
<1>4. Range(s) \subseteq Range(Append(s, x)) /\ x \in Range(Append(s, x))
  BY <1>1, <1>2 DEF Range
<1> QED
  BY <1>3, <1>4

LEMMA RangeTail ==
  ASSUME NEW S, NEW s \in Seq(S), s # << >>
  PROVE  Range(s) = {Head(s)} \cup Range(Tail(s))
<1>1. /\ Head(s) = s[1] /\ 1 \in DOMAIN s /\ DOMAIN s = 1..Len(s) /\ Len(s) \in Nat
      /\ DOMAIN Tail(s) = 1..(Len(s) - 1)
      /\ \A j \in 1..(Len(s) - 1) : Tail(s)[j] = s[j + 1] /\ j + 1 \in DOMAIN s
  BY HeadTailProperties
<1>2. {Head(s)} \cup Range(Tail(s)) \subseteq Range(s)
  BY <1>1 DEF Range
<1>3. ASSUME NEW j \in DOMAIN s PROVE s[j] \in {Head(s)} \cup Range(Tail(s))
  <2>1. CASE j = 1
    BY <1>1, <2>1
  <2>2. CASE j # 1
    <3>1. j - 1 \in 1..(Len(s) - 1) /\ (j - 1) + 1 = j
      BY <1>1, <2>2
    <3>2. Tail(s)[j - 1] = s[(j - 1) + 1]
      BY <1>1, <3>1
    <3> QED
      BY <1>1, <3>1, <3>2 DEF Range
  <2> QED
    BY <2>1, <2>2
<1> QED
  BY <1>2, <1>3 DEF Range

(* Appending to the second of two sequences appends to both together.       *)
LEMMA AppendRight ==
  ASSUME NEW S, NEW s \in Seq(S), NEW t \in Seq(S), NEW e \in S
  PROVE  s \o Append(t, e) = Append(s \o t, e)
  OBVIOUS

(* The head of the first is the head of both, and the tail goes along.      *)
LEMMA HeadLeft ==
  ASSUME NEW S, NEW s \in Seq(S), NEW t \in Seq(S), s # << >>
  PROVE  /\ s \o t # << >> /\ Head(s \o t) = Head(s)
         /\ Tail(s \o t) = Tail(s) \o t
  OBVIOUS

(* What remains when the first of two sequences is dropped.                 *)
LEMMA DropLeft ==
  ASSUME NEW S, NEW s \in Seq(S), NEW t \in Seq(S)
  PROVE  /\ Len(s) + 1 \in 1..Len(s \o t) + 1
         /\ t = SubSeq(s \o t, Len(s) + 1, Len(s \o t))
  OBVIOUS

(* Moving the head of the second sequence to the end of the first.          *)
LEMMA HeadMoves ==
  ASSUME NEW S, NEW s \in Seq(S), NEW t \in Seq(S), t # << >>
  PROVE  Append(s, Head(t)) \o Tail(t) = s \o t
<1> DEFINE l == Append(s, Head(t)) \o Tail(t)
           r == s \o t
<1>1. /\ Append(s, Head(t)) \in Seq(S) /\ Tail(t) \in Seq(S) /\ Len(t) \in Nat /\ Len(t) > 0
      /\ Len(Append(s, Head(t))) = Len(s) + 1 /\ Len(Tail(t)) = Len(t) - 1 /\ Len(s) \in Nat
  OBVIOUS
<1>2. l \in Seq(S) /\ r \in Seq(S) /\ Len(l) = Len(s) + Len(t) /\ Len(r) = Len(s) + Len(t)
  BY <1>1
<1>3. ASSUME NEW i \in 1..(Len(s) + Len(t)) PROVE l[i] = r[i]
  <2>1. CASE i <= Len(s)
    BY <1>1, <2>1
  <2>2. CASE i = Len(s) + 1
    BY <1>1, <2>2
  <2>3. CASE i > Len(s) + 1
    BY <1>1, <2>3
  <2> QED
    BY <1>1, <2>1, <2>2, <2>3
<1> HIDE DEF l, r
<1>4. l = r
  BY <1>2, <1>3, SeqEqual
<1> QED
  BY <1>4 DEF l, r
=================================================================================
