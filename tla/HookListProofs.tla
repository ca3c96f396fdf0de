----------------------------- MODULE HookListProofs -----------------------------
(****************************************************************************)
(* For every set of detours, and whatever hooks fail to attach again, the   *)
(* chain of detours implements HookList for the calls of the game thread.   *)
(* The list is the vector with what DisableHook has still to set again; a   *)
(* call in a detour has still to run what is below it in the list.          *)
(****************************************************************************)
EXTENDS HookChainProofs

USE NamesAssumption DEF Addresses, Threads, vars, call

Distinct(s) == \A i, j \in DOMAIN s : s[i] = s[j] => i = j

(* Of a sequence without repetition, what is below an element.              *)
LEMMA BelowAt ==
  ASSUME NEW S, NEW s \in Seq(S), Distinct(s), NEW k \in 1..Len(s)
  PROVE  Contains(s, s[k]) /\ Below(s, s[k]) = SubSeq(s, 1, k - 1)
<1>1. Contains(s, s[k])
  BY DEF Contains
<1>2. DOMAIN s = 1..Len(s)
  OBVIOUS
<1>3. (CHOOSE i \in DOMAIN s : s[i] = s[k]) = k
  BY <1>2 DEF Distinct
<1> QED
  BY <1>1, <1>3 DEF Below

(* What is put at the end is below nothing else.                            *)
LEMMA BelowAppend ==
  ASSUME NEW S, NEW s \in Seq(S), NEW d \in S, NEW b, Distinct(s), ~Contains(s, d), b # d
  PROVE  Below(Append(s, d), b) = Below(s, b)
<1> DEFINE t == Append(s, d)
<1>1. /\ t \in Seq(S) /\ Len(t) = Len(s) + 1 /\ t[Len(s) + 1] = d /\ Len(s) \in Nat
      /\ \A i \in 1..Len(s) : t[i] = s[i]
  OBVIOUS
<1> HIDE DEF t
<1>2. CASE Contains(s, b)
  <2>1. PICK k \in 1..Len(s) : s[k] = b
    BY <1>2 DEF Contains
  <2>2. Distinct(t)
    <3>1. \A i \in DOMAIN t : i \in 1..Len(s) \/ i = Len(s) + 1
      BY <1>1
    <3>2. \A i \in 1..Len(s) : s[i] # d /\ i \in DOMAIN s
      BY DEF Contains
    <3> QED
      BY <1>1, <3>1, <3>2 DEF Distinct
  <2>3. k \in 1..Len(t) /\ t[k] = b
    BY <1>1, <2>1
  <2>4. Below(t, b) = SubSeq(t, 1, k - 1) /\ Below(s, b) = SubSeq(s, 1, k - 1)
    BY <1>1, <2>1, <2>2, <2>3, BelowAt
  <2>5. SubSeq(t, 1, k - 1) = SubSeq(s, 1, k - 1)
    BY <1>1, <2>1
  <2> QED
    BY <2>4, <2>5 DEF t
<1>3. CASE ~Contains(s, b)
  <2>1. ~Contains(t, b)
    <3>1. \A i \in 1..Len(t) : i \in 1..Len(s) \/ i = Len(s) + 1
      BY <1>1
    <3> QED
      BY <1>1, <1>3, <3>1 DEF Contains
  <2> QED
    BY <1>3, <2>1 DEF Below, t
<1> QED
  BY <1>2, <1>3

(* Taking d out of a sequence that has it once.                             *)
LEMMA WithoutAt ==
  ASSUME NEW S, NEW s \in Seq(S), Distinct(s), NEW p \in 1..Len(s)
  PROVE  List!Without(s, s[p]) = RemoveAt(s, p)
<1>1. Contains(s, s[p]) /\ DOMAIN s = 1..Len(s)
  BY DEF Contains
<1>2. (CHOOSE i \in DOMAIN s : s[i] = s[p]) = p
  BY <1>1 DEF Distinct
<1>3. Contains(s, s[p]) <=> List!Contains(s, s[p])
  BY DEF Contains, List!Contains
<1>4. List!RemoveAt(s, p) = RemoveAt(s, p)
  BY DEF RemoveAt, List!RemoveAt
<1> QED
  BY <1>1, <1>2, <1>3, <1>4 DEF List!Without

(* Taking out what is not there.                                            *)
LEMMA WithoutOther ==
  ASSUME NEW s, NEW d, ~Contains(s, d)
  PROVE  List!Without(s, d) = s
BY DEF List!Without, List!Contains, Contains

(* What is below b when d is taken out is what was below b, without d.      *)
LEMMA BelowWithout ==
  ASSUME NEW S, NEW s \in Seq(S), Distinct(s), NEW p \in 1..Len(s), NEW b, b # s[p]
  PROVE  Below(RemoveAt(s, p), b) = List!Without(Below(s, b), s[p])
<1> DEFINE w == RemoveAt(s, p)
           n == Len(s)
<1>1. /\ w \in Seq(S) /\ Len(w) = n - 1 /\ n \in Nat
      /\ \A j \in 1..(n - 1) : w[j] = IF j < p THEN s[j] ELSE s[j + 1]
  BY RemoveAtShifts
<1> HIDE DEF w
<1>2. DOMAIN w = 1..(n - 1) /\ DOMAIN s = 1..n
  BY <1>1
<1>3. Distinct(w)
  <2> DEFINE old(i) == IF i < p THEN i ELSE i + 1
  <2>1. \A i \in DOMAIN w : w[i] = s[old(i)] /\ old(i) \in DOMAIN s
    BY <1>1, <1>2
  <2>2. \A i, k \in DOMAIN w : old(i) = old(k) => i = k
    BY <1>2
  <2> HIDE DEF old
  <2> QED
    BY <2>1, <2>2 DEF Distinct
<1>4. CASE ~Contains(s, b)
  <2>1. ~Contains(w, b)
    <3> SUFFICES ASSUME NEW j \in 1..Len(w), w[j] = b PROVE FALSE
      BY DEF Contains
    <3>1. PICK i \in 1..n : w[j] = s[i]
      BY <1>1
    <3> QED
      BY <1>4, <3>1 DEF Contains
  <2>2. Below(w, b) = << >> /\ Below(s, b) = << >>
    BY <1>4, <2>1 DEF Below
  <2>3. ~Contains(<< >>, s[p])
    BY DEF Contains
  <2> QED
    BY <2>2, <2>3, WithoutOther DEF w
<1>5. CASE Contains(s, b)
  <2>1. PICK k \in 1..n : s[k] = b
    BY <1>5 DEF Contains
  <2> DEFINE t == SubSeq(s, 1, k - 1)
  <2>2. Below(s, b) = t
    BY <2>1, BelowAt
  <2>3. /\ t \in Seq(S) /\ Len(t) = k - 1 /\ DOMAIN t = 1..(k - 1)
        /\ \A i \in 1..(k - 1) : t[i] = s[i]
    BY <1>1
  <2> HIDE DEF t
  <2>4. Distinct(t)
    <3>1. \A i \in DOMAIN t : i \in DOMAIN s /\ t[i] = s[i]
      BY <1>2, <2>3
    <3> QED
      BY <3>1 DEF Distinct
  <2>5. CASE k < p
    <3>1. k \in 1..Len(w) /\ w[k] = b
      BY <1>1, <2>1, <2>5
    <3>2. Below(w, b) = SubSeq(w, 1, k - 1)
      BY <1>1, <1>3, <3>1, BelowAt
    <3>3. \A i \in 1..(k - 1) : w[i] = s[i]
      BY <1>1, <2>1, <2>5
    <3>4. SubSeq(w, 1, k - 1) = t
      BY <1>1, <2>1, <2>5, <3>3 DEF t
    <3>5. ~Contains(t, s[p])
      <4>1. \A i \in 1..(k - 1) : i \in DOMAIN s /\ p \in DOMAIN s /\ i # p
        BY <1>2, <2>5
      <4> QED
        BY <2>3, <4>1 DEF Contains, Distinct
    <3> QED
      BY <2>2, <3>2, <3>4, <3>5, WithoutOther DEF w
  <2>6. CASE k > p
    <3>1. k - 1 \in 1..Len(w) /\ w[k - 1] = b
      <4>1. k - 1 \in 1..(n - 1) /\ ~(k - 1 < p) /\ (k - 1) + 1 = k
        BY <1>1, <2>1, <2>6
      <4>2. w[k - 1] = s[(k - 1) + 1]
        BY <1>1, <4>1
      <4> QED
        BY <1>1, <2>1, <4>1, <4>2
    <3>2. Below(w, b) = SubSeq(w, 1, k - 2)
      <4>1. (k - 1) - 1 = k - 2
        BY <2>1
      <4> QED
        BY <1>1, <1>3, <3>1, <4>1, BelowAt
    <3>3. p \in 1..Len(t) /\ t[p] = s[p]
      BY <2>1, <2>3, <2>6
    <3>4. List!Without(t, s[p]) = RemoveAt(t, p)
      BY <2>3, <2>4, <3>3, WithoutAt
    <3>5. /\ RemoveAt(t, p) \in Seq(S) /\ Len(RemoveAt(t, p)) = k - 2
          /\ \A j \in 1..(k - 2) : RemoveAt(t, p)[j] = IF j < p THEN t[j] ELSE t[j + 1]
      <4>1. Len(t) - 1 = k - 2
        BY <2>1, <2>3
      <4> QED
        BY <2>3, <3>3, <4>1, RemoveAtShifts
    <3>6. /\ SubSeq(w, 1, k - 2) \in Seq(S) /\ Len(SubSeq(w, 1, k - 2)) = k - 2
          /\ \A j \in 1..(k - 2) : SubSeq(w, 1, k - 2)[j] = w[j]
      BY <1>1, <2>1, <2>6
    <3>7. \A j \in 1..(k - 2) : /\ j \in 1..(n - 1) /\ j \in 1..(k - 1) /\ j + 1 \in 1..(k - 1)
      BY <1>1, <2>1
    <3>8. \A j \in 1..(k - 2) : w[j] = RemoveAt(t, p)[j]
      BY <1>1, <2>3, <3>5, <3>7
    <3>9. SubSeq(w, 1, k - 2) = RemoveAt(t, p)
      BY <3>5, <3>6, <3>8, SeqEqual
    <3> QED
      BY <2>2, <3>2, <3>4, <3>9 DEF w
  <2>7. k # p
    BY <2>1
  <2> QED
    BY <2>1, <2>5, <2>6, <2>7
<1> QED
  BY <1>4, <1>5

(* A call that enters the function is in no body yet.                       *)
Entering == entry[Game] # None => body[Game] = None

ListInv == IInv /\ GameInv /\ Entering

(* The list holds each detour once: those that are not lost.                *)
LEMMA AllHooksTyped ==
  ASSUME IInv
  PROVE  /\ AllHooks \in Seq(Detours) /\ Distinct(AllHooks)
         /\ \A d : Contains(AllHooks, d) <=> d \in hooked \ lost
         /\ redo = << >> => AllHooks = hooks
<1>1. TypeOK /\ Once /\ Accounted
  BY DEF IInv
<1> DEFINE n == Len(hooks)
           m == Len(redo)
<1>2. /\ hooks \in Seq(Detours) /\ redo \in Seq(Detours) /\ n \in Nat /\ m \in Nat
      /\ DOMAIN hooks = 1..n /\ DOMAIN redo = 1..m
  BY <1>1 DEF TypeOK
<1>3. /\ AllHooks \in Seq(Detours) /\ Len(AllHooks) = n + m /\ DOMAIN AllHooks = 1..(n + m)
      /\ \A i \in 1..(n + m) : AllHooks[i] = IF i <= n THEN hooks[i] ELSE redo[i - n]
  BY <1>2, ConcatProperties DEF AllHooks
<1>4. Distinct(AllHooks)
  <2> SUFFICES ASSUME NEW i \in 1..(n + m), NEW k \in 1..(n + m), AllHooks[i] = AllHooks[k]
               PROVE  i = k
    BY <1>3 DEF Distinct
  <2>1. CASE i <= n /\ k <= n
    BY <1>1, <1>2, <1>3, <2>1 DEF Once
  <2>2. CASE i > n /\ k > n
    <3>1. i - n \in 1..m /\ k - n \in 1..m
      BY <1>2, <2>2
    <3>2. redo[i - n] = redo[k - n]
      BY <1>2, <1>3, <2>2
    <3>3. i - n = k - n
      BY <1>1, <1>2, <3>1, <3>2 DEF Once
    <3> QED
      BY <1>2, <3>3
  <2>3. CASE i <= n /\ k > n
    <3>1. k - n \in 1..m /\ i \in 1..n /\ hooks[i] = redo[k - n]
      BY <1>2, <1>3, <2>3
    <3> QED
      BY <1>1, <1>2, <3>1 DEF Once
  <2>4. CASE i > n /\ k <= n
    <3>1. i - n \in 1..m /\ k \in 1..n /\ hooks[k] = redo[i - n]
      BY <1>2, <1>3, <2>4
    <3> QED
      BY <1>1, <1>2, <3>1 DEF Once
  <2> QED
    BY <1>2, <2>1, <2>2, <2>3, <2>4
<1>5. ASSUME NEW d PROVE Contains(AllHooks, d) <=> d \in hooked \ lost
  <2>1. Contains(AllHooks, d) => d \in Range(hooks) \cup Range(redo)
    <3> SUFFICES ASSUME NEW i \in 1..(n + m), AllHooks[i] = d PROVE d \in Range(hooks) \cup Range(redo)
      BY <1>3 DEF Contains
    <3>1. CASE i <= n
      BY <1>2, <1>3, <3>1 DEF Range
    <3>2. CASE i > n
      <4>1. i - n \in 1..m /\ redo[i - n] = d
        BY <1>2, <1>3, <3>2
      <4> QED
        BY <1>2, <4>1 DEF Range
    <3> QED
      BY <1>2, <3>1, <3>2
  <2>2. d \in Range(hooks) => Contains(AllHooks, d)
    <3> SUFFICES ASSUME NEW i \in 1..n, hooks[i] = d PROVE Contains(AllHooks, d)
      BY <1>2 DEF Range
    <3>1. i \in 1..(n + m) /\ AllHooks[i] = d
      BY <1>2, <1>3
    <3> QED
      BY <1>3, <3>1 DEF Contains
  <2>3. d \in Range(redo) => Contains(AllHooks, d)
    <3> SUFFICES ASSUME NEW i \in 1..m, redo[i] = d PROVE Contains(AllHooks, d)
      BY <1>2 DEF Range
    <3>1. n + i \in 1..(n + m) /\ ~(n + i <= n) /\ (n + i) - n = i
      BY <1>2
    <3>2. AllHooks[n + i] = d
      BY <1>3, <3>1
    <3> QED
      BY <1>3, <3>1, <3>2 DEF Contains
  <2> QED
    BY <1>1, <2>1, <2>2, <2>3 DEF Accounted
<1>6. redo = << >> => AllHooks = hooks
  BY <1>2, ConcatEmptySeq DEF AllHooks
<1> QED
  BY <1>3, <1>4, <1>5, <1>6

(* Setting and disabling hooks changes the list as HookList says.           *)
LEMMA ListChanges ==
  ASSUME ListInv,
         \/ \E d \in Detours : SetHook(d) \/ DisableHook(d) \/ DisableLost(d)
         \/ Enable
  PROVE  [List!Next]_(List!hvars)
<1> DEFINE b == body[Game]
<1>1. /\ TypeOK /\ Once /\ Accounted /\ GameInv /\ AllHooks \in Seq(Detours) /\ Distinct(AllHooks)
      /\ \A d : Contains(AllHooks, d) <=> d \in hooked \ lost
      /\ redo = << >> => AllHooks = hooks
  BY AllHooksTyped DEF ListInv, IInv
<1>2. hooks \in Seq(Detours) /\ redo \in Seq(Detours)
  BY <1>1 DEF TypeOK
<1>3. ASSUME NEW d \in Detours, SetHook(d) PROVE List!Hook(d)
  <2>1. /\ redo = << >> /\ redo' = << >> /\ d \notin hooked /\ hooks' = Append(hooks, d)
        /\ body' = body /\ b # d
    BY <1>1, <1>3 DEF SetHook, GameThread, Attach, GameInv
  <2>2. AllHooks' = Append(AllHooks, d)
    <3>1. Append(hooks, d) \in Seq(Detours)
      BY <1>2
    <3>2. AllHooks' = Append(hooks, d) \o << >>
      BY <2>1 DEF AllHooks
    <3> QED
      BY <1>1, <2>1, <3>1, <3>2, ConcatEmptySeq
  <2>3. ~Contains(AllHooks, d)
    BY <1>1, <2>1
  <2>4. Below(AllHooks, b)' = Below(AllHooks, b)
    BY <1>1, <2>1, <2>2, <2>3, BelowAppend
  <2> QED
    BY <2>1, <2>2, <2>3, <2>4 DEF List!Hook, List!Contains, Contains
<1>4. ASSUME NEW d \in Detours, DisableHook(d) PROVE List!Unhook(d)
  <2>1. /\ redo = << >> /\ d \in Range(hooks) /\ d # b /\ body' = body
        /\ hooks' = << >> /\ redo' = RemoveAt(hooks, PlaceOf(d))
    BY <1>4 DEF DisableHook, GameThread, MovedFrom, Remaining
  <2> DEFINE p == PlaceOf(d)
  <2>2. p \in 1..Len(AllHooks) /\ AllHooks[p] = d
    BY <1>1, <1>2, <2>1 DEF PlaceOf, Range
  <2> HIDE DEF p
  <2>3. AllHooks' = RemoveAt(AllHooks, p)
    <3>1. RemoveAt(AllHooks, p) \in Seq(Detours)
      BY <1>1, <2>2, RemoveAtShifts
    <3>2. AllHooks' = << >> \o RemoveAt(AllHooks, p)
      BY <1>1, <2>1 DEF AllHooks, p
    <3> QED
      BY <3>1, <3>2, ConcatEmptySeq
  <2>4. AllHooks' = List!Without(AllHooks, d)
    BY <1>1, <2>2, <2>3, WithoutAt
  <2>5. Below(AllHooks, b)' = List!Without(Below(AllHooks, b), d)
    BY <1>1, <2>1, <2>2, <2>3, BelowWithout
  <2>6. List!Contains(AllHooks, d)
    BY <2>2 DEF List!Contains
  <2> QED
    BY <2>1, <2>4, <2>5, <2>6 DEF List!Unhook
<1>5. ASSUME NEW d \in Detours, DisableLost(d) PROVE UNCHANGED List!hvars
  BY <1>5 DEF DisableLost, List!hvars, AllHooks
<1>6. CASE Enable
  <2> DEFINE d == Head(redo)
             p == Len(hooks) + 1
  <2>1. redo # << >> /\ redo' = Tail(redo) /\ body' = body /\ d \in Detours
    BY <1>2, <1>6 DEF Enable
  <2>2. CASE Attach(d)
    <3>1. AllHooks' = Append(hooks, d) \o Tail(redo)
      BY <2>1, <2>2 DEF AllHooks, Attach
    <3>2. AllHooks' = AllHooks
      BY <1>2, <2>1, <3>1, HeadMoves DEF AllHooks
    <3> QED
      BY <2>1, <3>2 DEF List!hvars
  <2>3. CASE UNCHANGED hooks
    <3>1. p \in 1..Len(AllHooks) /\ AllHooks[p] = d
      BY <1>2, <2>1 DEF AllHooks
    <3>2. AllHooks' = hooks \o Tail(redo)
      BY <2>1, <2>3 DEF AllHooks
    <3>3. hooks \o Tail(redo) = RemoveAt(AllHooks, p)
      <4>1. SubSeq(AllHooks, 1, p - 1) = hooks /\ SubSeq(AllHooks, p + 1, Len(AllHooks)) = Tail(redo)
        BY <1>2, <2>1 DEF AllHooks
      <4> QED
        BY <4>1 DEF RemoveAt
    <3> HIDE DEF p, d
    <3>4. AllHooks' = List!Without(AllHooks, d)
      BY <1>1, <3>1, <3>2, <3>3, WithoutAt
    <3>5. List!Contains(AllHooks, d)
      BY <3>1 DEF List!Contains
    <3>6. CASE d = b
      <4>1. \A j \in 1..Len(RemoveAt(AllHooks, p)) : RemoveAt(AllHooks, p)[j] # d
        <5>1. /\ Len(RemoveAt(AllHooks, p)) = Len(AllHooks) - 1
              /\ \A j \in 1..(Len(AllHooks) - 1) :
                   RemoveAt(AllHooks, p)[j] = IF j < p THEN AllHooks[j] ELSE AllHooks[j + 1]
          BY <1>1, <3>1, RemoveAtShifts
        <5>2. DOMAIN AllHooks = 1..Len(AllHooks) /\ Len(AllHooks) \in Nat
          BY <1>1
        <5>3. ASSUME NEW j \in 1..(Len(AllHooks) - 1)
              PROVE  \E i \in DOMAIN AllHooks : i # p /\ RemoveAt(AllHooks, p)[j] = AllHooks[i]
          <6>1. CASE j < p
            BY <5>1, <5>2, <6>1
          <6>2. CASE ~(j < p)
            <7>1. j + 1 \in DOMAIN AllHooks /\ j + 1 # p
              BY <3>1, <5>2, <6>2
            <7> QED
              BY <5>1, <6>2, <7>1
          <6> QED
            BY <6>1, <6>2
        <5> QED
          BY <1>1, <3>1, <5>1, <5>2, <5>3 DEF Distinct
      <4>2. ~Contains(RemoveAt(AllHooks, p), b)
        BY <3>6, <4>1 DEF Contains
      <4>3. Below(AllHooks, b)' = << >>
        BY <2>1, <3>2, <3>3, <4>2 DEF Below
      <4> QED
        BY <2>1, <3>4, <3>5, <3>6, <4>3 DEF List!Next, List!Lose
    <3>7. CASE d # b
      <4>1. Below(AllHooks, b)' = List!Without(Below(AllHooks, b), d)
        BY <1>1, <2>1, <3>1, <3>2, <3>3, <3>7, BelowWithout
      <4> QED
        BY <2>1, <3>4, <3>5, <3>7, <4>1 DEF List!Next, List!Lose
    <3> QED
      BY <3>6, <3>7
  <2> QED
    BY <1>6, <2>2, <2>3 DEF Enable
<1> QED
  BY <1>3, <1>4, <1>5, <1>6 DEF List!Next

(* Entering the body of a detour or of the function runs what is last in    *)
(* the sequence of which the call has still to run all.                     *)
LEMMA RunsLast ==
  ASSUME IInv, NEW k \in 0..Len(hooks), redo = << >>, UNCHANGED <<hooks, redo>>,
         body'[Game] = Before(k + 1)
  PROVE  List!Run(SubSeq(hooks, 1, k))
<1>1. /\ hooks \in Seq(Detours) /\ AllHooks = hooks /\ Distinct(hooks) /\ AllHooks' = hooks
      /\ Len(hooks) \in Nat
  BY AllHooksTyped DEF IInv, TypeOK, AllHooks
<1>2. CASE k = 0
  <2>1. SubSeq(hooks, 1, k) = << >> /\ body'[Game] = Function
    BY <1>2 DEF Before
  <2>2. ~Contains(hooks, Function)
    BY <1>1 DEF Contains
  <2>3. Below(AllHooks, body[Game])' = << >>
    BY <1>1, <2>1, <2>2 DEF Below
  <2> QED
    BY <2>1, <2>3 DEF List!Run
<1>3. CASE k # 0
  <2>1. k \in 1..Len(hooks) /\ body'[Game] = hooks[k]
    BY <1>1, <1>3 DEF Before
  <2>2. Below(AllHooks, body[Game])' = SubSeq(hooks, 1, k - 1)
    BY <1>1, <2>1, BelowAt
  <2> DEFINE t == SubSeq(hooks, 1, k)
  <2>3. t # << >> /\ Len(t) = k /\ t[k] = hooks[k]
    BY <1>1, <2>1
  <2>4. SubSeq(t, 1, k - 1) = SubSeq(hooks, 1, k - 1)
    BY <1>1, <2>1
  <2>5. List!Last(t) = hooks[k] /\ List!Front(t) = SubSeq(hooks, 1, k - 1)
    BY <2>3, <2>4 DEF List!Last, List!Front
  <2> HIDE DEF t
  <2>6. List!Run(t)
    BY <2>1, <2>2, <2>3, <2>5 DEF List!Run
  <2> QED
    BY <2>6 DEF t
<1> QED
  BY <1>2, <1>3

(* The entry that jumps nowhere belongs to the newest detour, or to the     *)
(* function if none is set.                                                 *)
LEMMA NewestEntry ==
  ASSUME IInv, NEW e \in {Function} \cup Range(hooks), jump[e] = None
  PROVE  e = Before(Len(hooks) + 1)
<1>1. hooks \in Seq(Detours) /\ DOMAIN hooks = 1..Len(hooks) /\ Len(hooks) \in Nat
      /\ \A i \in 1..Len(hooks) : hooks[i] \in Detours /\ jump[Before(i)] = hooks[i]
  BY DEF IInv, TypeOK, Chain, Linked
<1>2. PICK i \in 1..(Len(hooks) + 1) : e = Before(i)
  <2>1. CASE e = Function
    BY <1>1, <2>1 DEF Before
  <2>2. CASE e \in Range(hooks)
    <3>1. PICK k \in 1..Len(hooks) : e = hooks[k]
      BY <1>1, <2>2 DEF Range
    <3>2. k + 1 \in 1..(Len(hooks) + 1) /\ k + 1 # 1 /\ (k + 1) - 1 = k
      BY <1>1
    <3>3. e = Before(k + 1)
      BY <3>1, <3>2 DEF Before
    <3> QED
      BY <3>2, <3>3
  <2> QED
    BY <2>1, <2>2
<1>3. i \notin 1..Len(hooks)
  BY <1>1, <1>2
<1> QED
  BY <1>1, <1>2, <1>3

(* The steps of calls: another thread's change nothing in the game thread's *)
(* call, and the game thread runs what HookList says.                       *)
LEMMA ListCalls ==
  ASSUME ListInv, NEW t \in Threads,
         CallFunction(t) \/ Follow(t) \/ CallOriginal(t) \/ Return(t)
  PROVE  [List!Next]_(List!hvars)
<1> DEFINE b == body[Game]
           e == entry[Game]
<1>1. /\ IInv /\ TypeOK /\ Accounted /\ Freed /\ GameInv /\ Entering
      /\ AllHooks \in Seq(Detours) /\ Distinct(AllHooks)
      /\ \A d : Contains(AllHooks, d) <=> d \in hooked \ lost
      /\ redo = << >> => AllHooks = hooks
  BY AllHooksTyped DEF ListInv, IInv
<1>2. UNCHANGED <<hooks, redo>> /\ AllHooks' = AllHooks
  BY DEF CallFunction, Follow, CallOriginal, Return, AllHooks
<1>3. CASE body'[Game] = b
  BY <1>2, <1>3 DEF List!hvars
<1>4. CASE t # Game \/ CallFunction(t)
  BY <1>1, <1>3, <1>4 DEF CallFunction, Follow, CallOriginal, Return, TypeOK
<1>5. CASE t = Game /\ Follow(t) /\ body'[Game] # b
  <2>1. /\ redo = << >> /\ e # None /\ jump[e] = None /\ body'[Game] = e /\ b = None
        /\ e \in {Function} \cup Range(hooks)
    BY <1>1, <1>5 DEF Follow, Runs, GameInv, Entering, TypeOK
  <2>2. body'[Game] = Before(Len(hooks) + 1)
    BY <1>1, <2>1, NewestEntry
  <2>3. Len(hooks) \in 0..Len(hooks) /\ SubSeq(hooks, 1, Len(hooks)) = hooks
    BY <1>1, <2>1
  <2>4. List!Run(hooks)
    BY <1>1, <1>2, <2>1, <2>2, <2>3, RunsLast
  <2>5. List!Call
    BY <1>1, <1>2, <2>1, <2>4 DEF List!Call
  <2> QED
    BY <2>5 DEF List!Next
<1>6. CASE t = Game /\ CallOriginal(t) /\ body'[Game] # b
  <2>1. redo = << >> /\ b \in hooked /\ original[b] \in Addresses /\ body'[Game] = original[b]
    BY <1>1, <1>6 DEF CallOriginal, Runs, GameInv, TypeOK
  <2>2. b \notin lost
    BY <1>1, <2>1 DEF Freed
  <2>3. Contains(AllHooks, b) /\ AllHooks = hooks
    BY <1>1, <2>1, <2>2
  <2>4. PICK k \in 1..Len(hooks) : hooks[k] = b
    BY <2>3 DEF Contains
  <2>5. hooks \in Seq(Detours) /\ DOMAIN hooks = 1..Len(hooks) /\ Len(hooks) \in Nat
    BY <1>1, <2>3
  <2>6. body'[Game] = Before(k)
    BY <1>1, <2>1, <2>4, <2>5 DEF IInv, Chain, Linked
  <2>7. k - 1 \in 0..Len(hooks) /\ (k - 1) + 1 = k
    BY <2>5
  <2>8. List!Run(SubSeq(hooks, 1, k - 1))
    BY <1>1, <1>2, <2>1, <2>6, <2>7, RunsLast
  <2>9. Below(AllHooks, b) = SubSeq(hooks, 1, k - 1)
    BY <1>1, <2>3, <2>4, <2>5, BelowAt
  <2>10. List!Contains(AllHooks, b)
    BY <2>3 DEF Contains, List!Contains
  <2>11. List!CallOn
    BY <1>2, <2>8, <2>9, <2>10 DEF List!CallOn
  <2> QED
    BY <2>11 DEF List!Next
<1>7. CASE t = Game /\ Return(t)
  <2>1. b # None /\ body'[Game] = None
    BY <1>1, <1>7 DEF Return, TypeOK
  <2>2. ~Contains(AllHooks, None)
    BY <1>1 DEF Contains
  <2>3. Below(AllHooks, b)' = << >>
    BY <1>2, <2>1, <2>2 DEF Below
  <2>4. List!Return
    BY <1>2, <2>1, <2>3 DEF List!Return
  <2> QED
    BY <2>4 DEF List!Next
<1> QED
  BY <1>3, <1>4, <1>5, <1>6, <1>7

(* ListInv always holds.                                                    *)
LEMMA ListInductive == Spec => []ListInv
<1>1. Init => ListInv
  BY InitChain DEF Init, ListInv, GameInv, Entering
<1>2. ListInv /\ [Next]_vars => ListInv'
  <2> SUFFICES ASSUME ListInv, [Next]_vars PROVE Entering'
    BY ChainStep, GameStep DEF ListInv
  <2>1. TypeOK /\ Entering
    BY DEF ListInv, IInv
  <2>2. CASE Enable \/ UNCHANGED vars
    BY <2>1, <2>2 DEF Enable, Entering
  <2>3. ASSUME NEW d \in Detours, SetHook(d) \/ DisableHook(d) \/ DisableLost(d) PROVE Entering'
    BY <2>1, <2>3 DEF SetHook, DisableHook, DisableLost, Entering
  <2>4. ASSUME NEW t \in Threads, CallFunction(t) \/ Follow(t) \/ CallOriginal(t) \/ Return(t)
        PROVE  Entering'
    BY <2>1, <2>4 DEF CallFunction, Follow, CallOriginal, Return, Entering, TypeOK
  <2> QED
    BY <2>2, <2>3, <2>4 DEF Next
<1> QED
  BY <1>1, <1>2, PTL DEF Spec

(* For any detours set and disabled in any order, inside calls too, and     *)
(* whichever Detours refuses to set again, a call of the game thread runs   *)
(* the detours that are set, the last set first, and then the function.     *)
THEOREM ChainImplementsList == Spec => KeepsList
<1>1. Init => List!Init
  <2> SUFFICES ASSUME Init PROVE List!Init
    OBVIOUS
  <2>1. AllHooks = << >> /\ body[Game] = None
    BY DEF Init, AllHooks
  <2>2. ~Contains(<< >>, None)
    BY DEF Contains
  <2> QED
    BY <2>1, <2>2 DEF List!Init, Below
<1>2. ListInv /\ [Next]_vars => [List!Next]_(List!hvars)
  <2> SUFFICES ASSUME ListInv, [Next]_vars PROVE [List!Next]_(List!hvars)
    OBVIOUS
  <2>1. CASE UNCHANGED vars
    BY <2>1 DEF List!hvars, AllHooks
  <2> QED
    BY <2>1, ListChanges, ListCalls DEF Next
<1> QED
  BY <1>1, <1>2, ListInductive, PTL DEF Spec, KeepsList, List!Spec
==================================================================================
