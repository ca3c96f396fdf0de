------------------------------- MODULE TimerProofs -------------------------------
(****************************************************************************)
(* For every set of functions: Timer keeps its types, runs no function more *)
(* often than was asked for and drops none that is not spent, except where  *)
(* the vector moved. TimerIInv is inductive: it relates the place of the    *)
(* loop to what has run in this Update.                                     *)
(****************************************************************************)
EXTENDS Timer, FiniteSetTheorems, Functions, SequenceTheorems, TLAPS

(* No function has two entries, and what was never given has never run.     *)
OneEntry ==
  /\ \A i, k \in DOMAIN timer_funcs : timer_funcs[i].job = timer_funcs[k].job => i = k
  /\ \A i \in DOMAIN timer_funcs : timer_funcs[i].job \in given
  /\ \A j \in Jobs \ given : ran[j] = 0

(* Update is at an entry of the vector as it was when its loop began.       *)
InLoop == step # "rest" => at >= 1 /\ (step = "run" => at <= end)

(* A recurring function has run as often as its count went down.            *)
CountsLeft ==
  \A i \in DOMAIN timer_funcs : LET e == timer_funcs[i] IN
    ~Once(e) => IF Limited(e.job) THEN e.count \in Nat /\ ran[e.job] + e.count = Kind[e.job].count
                ELSE e.count = Forever

(* A delayed function has run only in this Update, which has passed it and  *)
(* is going to remove it.                                                   *)
RanOnce ==
  \A i \in DOMAIN timer_funcs : LET e == timer_funcs[i] IN
    Once(e) /\ e.job \notin cut =>
      \/ ran[e.job] = 0
      \/ /\ ran[e.job] = 1 /\ step # "rest" /\ remove /\ Due(e)
         /\ i <= at /\ (step = "loop" => i < at)

(* What Update has passed in the buffer and is due has run; what was added  *)
(* behind its end is not due.                                               *)
Passed ==
  step # "rest" /\ ~moved =>
    \A i \in DOMAIN timer_funcs : LET e == timer_funcs[i] IN
      Once(e) /\ Due(e) /\ Kind[e.job].wait # 0 =>
        i <= end /\ (i < at \/ (i = at /\ step = "run") => ran[e.job] >= 1)

TimerIInv ==
  TimerTypeOK /\ OneEntry /\ InLoop /\ CountsLeft /\ RanOnce /\ Passed /\ NeverTooOften

USE JobsAssumption DEF Forever, Once, Due, Limited

(* What is kept in its order is a shorter sequence of the same entries,     *)
(* each once.                                                               *)
LEMMA KeptInOrder ==
  ASSUME NEW n \in Nat, NEW S \in SUBSET (1..n), NEW f \in InOrder(S)
  PROVE  /\ Cardinality(S) \in 0..n
         /\ f \in [1..Cardinality(S) -> S]
         /\ \A i, k \in 1..Cardinality(S) : f[i] = f[k] => i = k
         /\ \A x \in S : \E i \in 1..Cardinality(S) : f[i] = x
<1> DEFINE m == Cardinality(S)
<1>1. IsFiniteSet(1..n) /\ Cardinality(1..n) = n
  BY FS_Interval
<1>2. IsFiniteSet(S) /\ m <= n
  BY <1>1, FS_Subset
<1>3. m \in Nat
  BY <1>2, FS_CardinalityType
<1>4. IsFiniteSet(1..m) /\ Cardinality(1..m) = m
  BY <1>3, FS_Interval
<1>5. f \in [1..m -> S] /\ \A i, k \in 1..m : i < k => f[i] < f[k]
  BY DEF InOrder
<1>6. \A i \in 1..m : f[i] \in Int
  <2>1. S \subseteq Int
    OBVIOUS
  <2> QED
    BY <1>5, <2>1
<1>7. \A i, k \in 1..m : f[i] = f[k] => i = k
  <2> SUFFICES ASSUME NEW i \in 1..m, NEW k \in 1..m, f[i] = f[k] PROVE i = k
    OBVIOUS
  <2>1. ~(i < k) /\ ~(k < i)
    BY <1>5, <1>6
  <2> QED
    BY <1>3, <2>1
<1>8. f \in Injection(1..m, S)
  BY <1>5, <1>7 DEF Injection, IsInjective
<1>9. f \in Surjection(1..m, S)
  BY <1>2, <1>4, <1>8, FS_Injection
<1> QED
  BY <1>2, <1>3, <1>5, <1>7, <1>9 DEF Surjection

(* Initially there is nothing to run.                                       *)
LEMMA TimerStarts == TimerInit => TimerIInv
<1> SUFFICES ASSUME TimerInit PROVE TimerIInv
  OBVIOUS
<1>1. timer_funcs = << >> /\ << >> \in Seq(Entries) /\ Len(<< >>) = 0
  BY DEF TimerInit
<1>2. TimerTypeOK
  <2>1. /\ capacity \in Nat /\ Len(timer_funcs) <= capacity
        /\ at \in 0..end + 1 /\ end \in 0..Len(timer_funcs)
    BY <1>1 DEF TimerInit
  <2> QED
    BY <1>1, <2>1 DEF TimerInit, TimerTypeOK
<1>3. OneEntry /\ InLoop /\ CountsLeft /\ RanOnce /\ Passed
  BY <1>1 DEF TimerInit, OneEntry, InLoop, CountsLeft, RanOnce, Passed
<1>4. NeverTooOften
  BY DEF TimerInit, NeverTooOften
<1> QED
  BY <1>2, <1>3, <1>4 DEF TimerIInv

(* A function that was given anew is at the end of the vector, and not due  *)
(* in the Update that is on.                                                *)
LEMMA GiveStep == ASSUME NEW j \in Jobs, TimerIInv, Give(j) PROVE TimerIInv'
<1> USE DEF TimerIInv
<1>1. PICK w \in Waits(j) :
        timer_funcs' = Append(timer_funcs, [job |-> j, left |-> w, count |-> Kind[j].count])
  BY DEF Give
<1> DEFINE n == Len(timer_funcs)
           e == [job |-> j, left |-> w, count |-> Kind[j].count]
<1>2. w \in Nat /\ (step # "rest" /\ Kind[j].once /\ Kind[j].wait # 0 => w # 0)
  BY DEF Waits
<1>3. timer_funcs \in Seq(Entries) /\ n \in Nat /\ e \in Entries
  BY <1>2 DEF TimerTypeOK, Entries
<1>4. /\ timer_funcs' \in Seq(Entries) /\ Len(timer_funcs') = n + 1
      /\ \A i \in 1..n : timer_funcs'[i] = timer_funcs[i]
      /\ timer_funcs'[n + 1] = e
  BY <1>1, <1>3
<1>5. /\ j \notin given /\ given' = given \cup {j} /\ capacity' = Grown
      /\ (~moved' => ~moved)
      /\ UNCHANGED <<step, at, end, remove, running, ran, cut, wild>>
  BY DEF Give
<1>6. \A i \in DOMAIN timer_funcs' : i \in 1..n \/ i = n + 1
  BY <1>3, <1>4
<1> HIDE DEF e
<1>7. TimerTypeOK'
  <2>1. Grown \in Nat /\ n + 1 <= Grown
    BY <1>3 DEF Grown, TimerTypeOK
  <2>2. moved' \in BOOLEAN
    BY DEF Give, TimerTypeOK
  <2> QED
    BY <1>3, <1>4, <1>5, <2>1, <2>2 DEF TimerTypeOK
<1>8. e.job = j /\ e.left = w /\ e.count = Kind[j].count /\ ran[j] = 0 /\ j \notin cut
  BY <1>5 DEF e, OneEntry, TimerTypeOK
<1>9. OneEntry'
  BY <1>3, <1>4, <1>5, <1>6, <1>8 DEF OneEntry
<1>10. InLoop' /\ NeverTooOften'
  BY <1>5 DEF InLoop, NeverTooOften
<1>11. CountsLeft'
  BY <1>3, <1>4, <1>5, <1>6, <1>8 DEF CountsLeft
<1>12. RanOnce'
  BY <1>3, <1>4, <1>5, <1>6, <1>8 DEF RanOnce
<1>13. Passed'
  BY <1>2, <1>3, <1>4, <1>5, <1>6, <1>8 DEF Passed, TimerTypeOK
<1> QED
  BY <1>7, <1>9, <1>10, <1>11, <1>12, <1>13

(* Time changes only how long an entry has to wait, between two Updates.    *)
LEMMA ElapseStep == ASSUME TimerIInv, Elapse PROVE TimerIInv'
<1> USE DEF TimerIInv
<1>1. /\ step = "rest"
      /\ UNCHANGED <<capacity, step, at, end, moved, remove, running, given, ran, cut, wild>>
  BY DEF Elapse
<1>2. timer_funcs \in Seq(Entries)
  BY DEF TimerTypeOK
<1>3. /\ timer_funcs' \in Seq(Entries) /\ Len(timer_funcs') = Len(timer_funcs)
      /\ DOMAIN timer_funcs' = DOMAIN timer_funcs
      /\ \A i \in DOMAIN timer_funcs : /\ timer_funcs'[i].job = timer_funcs[i].job
                                      /\ timer_funcs'[i].count = timer_funcs[i].count
  <2>1. timer_funcs' = [i \in 1..Len(timer_funcs) |->
                          [timer_funcs[i] EXCEPT !.left = IF @ = 0 THEN 0 ELSE @ - 1]]
    BY <1>2 DEF Elapse
  <2>2. \A i \in 1..Len(timer_funcs) : timer_funcs[i] \in Entries
    BY <1>2, ElementOfSeq
  <2>3. \A i \in 1..Len(timer_funcs) :
          [timer_funcs[i] EXCEPT !.left = IF @ = 0 THEN 0 ELSE @ - 1] \in Entries
    BY <2>2 DEF Entries
  <2> QED
    BY <1>2, <2>1, <2>2, <2>3 DEF Entries
<1>4. TimerTypeOK'
  BY <1>1, <1>3 DEF TimerTypeOK
<1>5. OneEntry' /\ CountsLeft' /\ NeverTooOften' /\ InLoop' /\ Passed'
  BY <1>1, <1>3 DEF OneEntry, CountsLeft, NeverTooOften, InLoop, Passed
<1>6. RanOnce'
  BY <1>1, <1>3 DEF RanOnce
<1> QED
  BY <1>4, <1>5, <1>6

(* The loop begins before the first entry; what it then leaves behind       *)
(* without touching an entry it has passed.                                 *)
LEMMA WalkStep ==
  ASSUME TimerIInv, BeginUpdate \/ VisitFreed \/ FunctionReturns PROVE TimerIInv'
<1> USE DEF TimerIInv
<1>1. UNCHANGED <<timer_funcs, capacity, given, ran, cut>>
  BY DEF BeginUpdate, VisitFreed, FunctionReturns
<1>2. timer_funcs \in Seq(Entries) /\ Len(timer_funcs) \in Nat /\ DOMAIN timer_funcs = 1..Len(timer_funcs)
  BY DEF TimerTypeOK
<1>3. TimerTypeOK'
  <2>1. CASE BeginUpdate
    <3>1. at' \in 0..end' + 1 /\ end' \in 0..Len(timer_funcs)
      BY <1>2, <2>1 DEF BeginUpdate, TimerTypeOK
    <3> QED
      BY <1>1, <2>1, <3>1 DEF BeginUpdate, TimerTypeOK
  <2>2. CASE VisitFreed
    <3>1. end \in 0..Len(timer_funcs) /\ at \in 0..end + 1 /\ wild \in BOOLEAN
      BY DEF TimerTypeOK
    <3>2. at' \in 0..end + 1 /\ end' = end
      BY <1>2, <2>2, <3>1 DEF VisitFreed
    <3>3. wild' \in BOOLEAN
      BY <2>2, <3>1 DEF VisitFreed
    <3> QED
      BY <1>1, <2>2, <3>1, <3>2, <3>3 DEF VisitFreed, TimerTypeOK
  <2>3. CASE FunctionReturns
    BY <1>1, <2>3 DEF FunctionReturns, InLoop, TimerTypeOK
  <2> QED
    BY <2>1, <2>2, <2>3
<1>4. OneEntry' /\ CountsLeft' /\ NeverTooOften'
  BY <1>1 DEF OneEntry, CountsLeft, NeverTooOften
<1>5. InLoop'
  BY <1>2 DEF InLoop, BeginUpdate, VisitFreed, FunctionReturns, Looping, TimerTypeOK
<1>6. RanOnce'
  <2>1. CASE BeginUpdate
    BY <1>1, <2>1 DEF BeginUpdate, RanOnce
  <2>2. CASE VisitFreed
    BY <1>1, <1>2, <2>2 DEF VisitFreed, Looping, RanOnce, TimerTypeOK
  <2>3. CASE FunctionReturns
    BY <1>1, <1>2, <2>3 DEF FunctionReturns, RanOnce, TimerTypeOK
  <2> QED
    BY <2>1, <2>2, <2>3
<1>7. Passed'
  <2>1. CASE BeginUpdate
    BY <1>1, <1>2, <2>1 DEF BeginUpdate, Passed
  <2>2. CASE VisitFreed
    BY <2>2 DEF VisitFreed, Passed
  <2>3. CASE FunctionReturns
    BY <1>1, <1>2, <2>3 DEF FunctionReturns, Passed, TimerTypeOK
  <2> QED
    BY <2>1, <2>2, <2>3
<1> QED
  BY <1>3, <1>4, <1>5, <1>6, <1>7

(* Update passes an entry that is not due or is spent, and runs one that is *)
(* due: counted down, or to be removed when the loop ends.                  *)
LEMMA VisitStep == ASSUME TimerIInv, Visit PROVE TimerIInv'
<1> USE DEF TimerIInv
<1> DEFINE e == timer_funcs[at]
<1>1. /\ timer_funcs \in Seq(Entries) /\ at \in 1..Len(timer_funcs) /\ at <= end /\ end \in Nat
      /\ e \in Entries /\ step = "loop" /\ ~moved
      /\ UNCHANGED <<capacity, end, moved, given, cut, wild>>
  BY ElementOfSeq DEF Visit, Looping, InLoop, TimerTypeOK
<1>2. e.job \in Jobs /\ e.left \in Nat /\ e.count \in Nat \cup {Forever}
  BY <1>1 DEF Entries
<1>3. CASE Pass /\ (~Due(e) \/ ~Once(e)) /\ (remove => remove') /\ remove' \in BOOLEAN
  <2>1. UNCHANGED <<timer_funcs, step, running, ran>> /\ at' = at + 1
    BY <1>3 DEF Pass
  <2>2. TimerTypeOK'
    BY <1>1, <1>3, <2>1 DEF TimerTypeOK
  <2>3. OneEntry' /\ InLoop' /\ CountsLeft' /\ NeverTooOften'
    BY <1>1, <2>1 DEF OneEntry, InLoop, CountsLeft, NeverTooOften
  <2>4. RanOnce'
    BY <1>1, <1>3, <2>1 DEF RanOnce
  <2>5. Passed'
    BY <1>1, <1>3, <2>1 DEF Passed
  <2> QED
    BY <2>2, <2>3, <2>4, <2>5
<1>4. ASSUME NEW f \in Entries, Run(f), f.job = e.job,
             \/ Once(e) /\ f = e /\ Due(e) /\ remove' = TRUE
             \/ /\ ~Once(e) /\ remove' = remove
                /\ \/ e.count > 0 /\ f.count = e.count - 1
                   \/ e.count = Forever /\ f.count = Forever
      PROVE  TimerIInv'
  <2> DEFINE j == e.job
  <2>1. /\ timer_funcs' \in Seq(Entries) /\ Len(timer_funcs') = Len(timer_funcs)
        /\ DOMAIN timer_funcs' = DOMAIN timer_funcs /\ DOMAIN timer_funcs = 1..Len(timer_funcs)
        /\ timer_funcs'[at] = f
        /\ \A i \in DOMAIN timer_funcs : i # at => timer_funcs'[i] = timer_funcs[i]
    BY <1>1, <1>4, ExceptSeq DEF Run
  <2>2. /\ ran' \in [Jobs -> Nat] /\ ran \in [Jobs -> Nat]
        /\ Kind[j].once => ran'[j] >= 1
        /\ \A k \in Jobs : k # j => ran'[k] = ran[k]
        /\ ran[j] <= Kind[j].count => ran'[j] = ran[j] + 1
    <3>1. ran \in [Jobs -> Nat] /\ ran[j] \in Nat
      BY <1>2 DEF TimerTypeOK
    <3>2. Kind[j].count \in Int /\ (Kind[j].once => Kind[j].count = 1)
      BY <1>2
    <3>3. ran' = [ran EXCEPT ![j] = IF ran[j] > Kind[j].count THEN ran[j] ELSE ran[j] + 1]
      BY <1>4 DEF Run
    <3>4. ran' \in [Jobs -> Nat] /\ \A k \in Jobs : k # j => ran'[k] = ran[k]
      BY <1>2, <3>1, <3>3
    <3>5. ran'[j] = IF ran[j] > Kind[j].count THEN ran[j] ELSE ran[j] + 1
      BY <1>2, <3>1, <3>3
    <3> QED
      BY <3>1, <3>2, <3>4, <3>5
  <2>3. step' = "run" /\ running' = j /\ at' = at
    BY <1>4 DEF Run
  <2>4. \A i \in DOMAIN timer_funcs : timer_funcs[i].job = j => i = at
    BY <1>1, <2>1 DEF OneEntry
  <2>5. \A i \in DOMAIN timer_funcs : timer_funcs[i].job \in Jobs /\ timer_funcs'[i].job = timer_funcs[i].job
    <3> SUFFICES ASSUME NEW i \in DOMAIN timer_funcs
                 PROVE  timer_funcs[i].job \in Jobs /\ timer_funcs'[i].job = timer_funcs[i].job
      OBVIOUS
    <3>1. timer_funcs[i] \in Entries
      BY <1>1, <2>1, ElementOfSeq
    <3> QED
      BY <1>4, <2>1, <3>1 DEF Entries
  <2>6. TimerTypeOK'
    BY <1>1, <1>2, <1>4, <2>1, <2>2, <2>3 DEF TimerTypeOK
  <2>7. OneEntry'
    <3>1. j \in given
      BY <1>1, <2>1 DEF OneEntry
    <3>2. \A k \in Jobs \ given : ran'[k] = 0
      BY <2>2, <3>1 DEF OneEntry
    <3> QED
      BY <1>1, <2>1, <2>5, <3>2 DEF OneEntry
  <2>8. InLoop'
    BY <1>1, <2>3 DEF InLoop
  <2>9. CountsLeft'
    <3>1. ASSUME ~Once(e), Limited(j) PROVE f.count \in Nat /\ ran'[j] + f.count = Kind[j].count
      <4>1. e.count \in Nat /\ e.count > 0 /\ f.count = e.count - 1 /\ ran[j] + e.count = Kind[j].count
        BY <1>1, <1>4, <2>1, <3>1 DEF CountsLeft
      <4> QED
        BY <1>2, <2>2, <4>1
    <3>2. ASSUME ~Once(e), ~Limited(j) PROVE f.count = Forever
      BY <1>1, <1>4, <2>1, <3>2 DEF CountsLeft
    <3> SUFFICES ASSUME NEW i \in DOMAIN timer_funcs, ~Once(timer_funcs'[i])
                 PROVE  LET g == timer_funcs'[i] IN
                          IF Limited(g.job)
                          THEN g.count \in Nat /\ ran'[g.job] + g.count = Kind[g.job].count
                          ELSE g.count = Forever
      BY <2>1 DEF CountsLeft
    <3>3. CASE i = at
      BY <1>4, <2>1, <3>1, <3>2, <3>3
    <3>4. CASE i # at
      BY <2>1, <2>2, <2>4, <2>5, <3>4 DEF CountsLeft
    <3> QED
      BY <3>3, <3>4
  <2>10. RanOnce'
    <3>1. Once(e) /\ j \notin cut => ran[j] = 0
      BY <1>1, <2>1 DEF RanOnce
    <3>2. Once(f) /\ j \notin cut => ran'[j] = 1 /\ remove' /\ Due(f)
      BY <1>2, <1>4, <2>2, <3>1
    <3>3. remove => remove'
      BY <1>4
    <3> QED
      BY <1>1, <1>4, <2>1, <2>2, <2>3, <2>4, <2>5, <3>2, <3>3 DEF RanOnce
  <2>11. Passed'
    <3>1. \A i \in DOMAIN timer_funcs : i # at /\ i <= at => i < at
      BY <1>1, <2>1
    <3>2. Kind[f.job].once /\ f.left = 0 => Kind[e.job].once /\ e.left = 0
      BY <1>4
    <3> QED
      BY <1>1, <1>4, <2>1, <2>2, <2>3, <2>4, <2>5, <3>1, <3>2 DEF Passed
  <2>12. NeverTooOften'
    <3>1. ASSUME Limited(j), j \notin cut PROVE ran'[j] <= Kind[j].count
      <4>1. CASE Once(e)
        <5>1. ran[j] = 0 /\ Kind[j].count = 1
          BY <1>1, <1>2, <2>1, <3>1, <4>1 DEF RanOnce
        <5> QED
          BY <2>2, <5>1
      <4>2. CASE ~Once(e)
        <5>1. e.count \in Nat /\ e.count > 0 /\ ran[j] + e.count = Kind[j].count
          BY <1>1, <1>4, <2>1, <3>1, <4>2 DEF CountsLeft
        <5> QED
          BY <1>2, <2>2, <5>1
      <4> QED
        BY <4>1, <4>2
    <3> QED
      BY <1>1, <2>2, <3>1 DEF NeverTooOften
  <2> QED
    BY <2>6, <2>7, <2>8, <2>9, <2>10, <2>11, <2>12
<1>5. ASSUME NEW c \in Nat \cup {Forever}
      PROVE  /\ Again(e, c) \in Entries
             /\ Again(e, c).job = e.job /\ Again(e, c).count = c
  BY <1>1, <1>2 DEF Again, Entries
<1>6. e.count > 0 => e.count - 1 \in Nat
  BY <1>2
<1>7. remove \in BOOLEAN
  BY DEF TimerTypeOK
<1> HIDE DEF e
<1>8. \/ ~Due(e) /\ Pass /\ UNCHANGED remove
      \/ Due(e) /\ Once(e) /\ Run(e) /\ remove' = TRUE
      \/ Due(e) /\ ~Once(e) /\ e.count > 0 /\ Run(Again(e, e.count - 1)) /\ UNCHANGED remove
      \/ Due(e) /\ ~Once(e) /\ e.count = Forever /\ Run(Again(e, Forever)) /\ UNCHANGED remove
      \/ Due(e) /\ ~Once(e) /\ e.count = 0 /\ Pass /\ remove' = TRUE
  BY DEF Visit, e
<1> QED
  BY <1>1, <1>3, <1>4, <1>5, <1>6, <1>7, <1>8

(* An exception leaves the vector as it is; what ran and is still in it is  *)
(* among cut.                                                               *)
LEMMA FunctionThrowsStep == ASSUME TimerIInv, FunctionThrows PROVE TimerIInv'
<1> USE DEF TimerIInv
<1>1. /\ UNCHANGED <<timer_funcs, capacity, given, ran, wild>> /\ step = "run"
      /\ step' = "rest" /\ at' = 0 /\ end' = 0 /\ moved' = FALSE /\ remove' = FALSE
      /\ running' = NoJob /\ cut \subseteq cut'
  BY DEF FunctionThrows, Leave
<1>2. /\ timer_funcs \in Seq(Entries) /\ Len(timer_funcs) \in Nat
      /\ DOMAIN timer_funcs = 1..Len(timer_funcs) /\ at \in 1..Len(timer_funcs)
  BY <1>1 DEF TimerTypeOK, InLoop
<1>3. \A i \in 1..at : Once(timer_funcs[i]) /\ Due(timer_funcs[i]) => timer_funcs[i].job \in cut'
  BY DEF FunctionThrows
<1>4. cut' \subseteq given
  <2>1. \A i \in 1..at : timer_funcs[i].job \in given
    BY <1>2 DEF OneEntry
  <2> QED
    BY <2>1 DEF FunctionThrows, TimerTypeOK
<1>5. TimerTypeOK'
  <2>1. at' \in 0..end' + 1 /\ end' \in 0..Len(timer_funcs')
    BY <1>1, <1>2
  <2> QED
    BY <1>1, <1>2, <1>4, <2>1 DEF TimerTypeOK
<1>6. OneEntry' /\ InLoop' /\ CountsLeft' /\ Passed'
  BY <1>1 DEF OneEntry, InLoop, CountsLeft, Passed
<1>7. NeverTooOften'
  BY <1>1 DEF NeverTooOften
<1>8. RanOnce'
  BY <1>1, <1>2, <1>3 DEF RanOnce
<1> QED
  BY <1>5, <1>6, <1>7, <1>8

(* What the end of Update keeps are entries that were there, in their       *)
(* order, and every one that is not done.                                   *)
LEMMA EndUpdateKeeps ==
  ASSUME TimerIInv, EndUpdate, remove
  PROVE  /\ timer_funcs' \in Seq(Entries) /\ Len(timer_funcs') <= Len(timer_funcs)
         /\ \E f \in [DOMAIN timer_funcs' -> Kept] :
              /\ \A i \in DOMAIN timer_funcs' : timer_funcs'[i] = timer_funcs[f[i]]
              /\ \A i, k \in DOMAIN timer_funcs' : f[i] = f[k] => i = k
              /\ \A x \in Kept : \E i \in DOMAIN timer_funcs' : f[i] = x
<1> DEFINE n == Len(timer_funcs)
           m == Cardinality(Kept)
<1>1. timer_funcs \in Seq(Entries) /\ n \in Nat /\ DOMAIN timer_funcs = 1..n
  BY DEF TimerIInv, TimerTypeOK
<1>2. Kept \in SUBSET (1..n)
  BY <1>1 DEF Kept
<1>3. PICK f \in InOrder(Kept) : timer_funcs' = [i \in DOMAIN f |-> timer_funcs[f[i]]]
  BY DEF EndUpdate
<1>4. /\ m \in 0..n /\ f \in [1..m -> Kept]
      /\ \A i, k \in 1..m : f[i] = f[k] => i = k
      /\ \A x \in Kept : \E i \in 1..m : f[i] = x
  BY <1>1, <1>2, KeptInOrder
<1>5. \A i \in 1..m : timer_funcs[f[i]] \in Entries
  <2>1. \A x \in 1..n : timer_funcs[x] \in Entries
    BY <1>1, ElementOfSeq
  <2> QED
    BY <1>2, <1>4, <2>1
<1> HIDE DEF m, n
<1>6. timer_funcs' = [i \in 1..m |-> timer_funcs[f[i]]]
  BY <1>3, <1>4
<1>7. timer_funcs' \in Seq(Entries) /\ Len(timer_funcs') = m /\ DOMAIN timer_funcs' = 1..m
  BY <1>1, <1>4, <1>5, <1>6
<1>8. f \in [DOMAIN timer_funcs' -> Kept]
  BY <1>4, <1>7
<1>9. \A i \in DOMAIN timer_funcs' : timer_funcs'[i] = timer_funcs[f[i]]
  BY <1>6, <1>7
<1>10. m <= n
  BY <1>1, <1>4
<1> QED
  BY <1>4, <1>7, <1>8, <1>9, <1>10 DEF n

(* After Update no function is in the vector that has run as often as was   *)
(* asked for, except one with an entry kept by an exception.                *)
LEMMA EndUpdateStep == ASSUME TimerIInv, EndUpdate PROVE TimerIInv'
<1> USE DEF TimerIInv
<1>1. /\ UNCHANGED <<capacity, running, given, ran, cut, wild>> /\ step = "loop"
      /\ step' = "rest" /\ at' = 0 /\ end' = 0 /\ moved' = FALSE /\ remove' = FALSE
  BY DEF EndUpdate, Leave
<1>2. /\ timer_funcs \in Seq(Entries) /\ Len(timer_funcs) \in Nat /\ capacity \in Nat
      /\ Len(timer_funcs) <= capacity /\ remove \in BOOLEAN
  BY DEF TimerTypeOK
<1>3. NeverTooOften' /\ InLoop' /\ Passed'
  BY <1>1 DEF NeverTooOften, InLoop, Passed
<1>4. CASE ~remove
  <2>1. timer_funcs' = timer_funcs
    BY <1>4 DEF EndUpdate
  <2>2. TimerTypeOK'
    <3>1. at' \in 0..end' + 1 /\ end' \in 0..Len(timer_funcs')
      BY <1>1, <1>2, <2>1
    <3> QED
      BY <1>1, <1>2, <2>1, <3>1 DEF TimerTypeOK
  <2>3. OneEntry' /\ CountsLeft'
    BY <1>1, <2>1 DEF OneEntry, CountsLeft
  <2>4. RanOnce'
    BY <1>1, <1>4, <2>1 DEF RanOnce
  <2> QED
    BY <1>3, <2>2, <2>3, <2>4
<1>5. CASE remove
  <2>1. timer_funcs' \in Seq(Entries) /\ Len(timer_funcs') <= Len(timer_funcs)
    BY <1>5, EndUpdateKeeps
  <2>2. PICK f \in [DOMAIN timer_funcs' -> Kept] :
          /\ \A i \in DOMAIN timer_funcs' : timer_funcs'[i] = timer_funcs[f[i]]
          /\ \A i, k \in DOMAIN timer_funcs' : f[i] = f[k] => i = k
    BY <1>5, EndUpdateKeeps
  <2>3. \A i \in DOMAIN timer_funcs' : f[i] \in DOMAIN timer_funcs /\ ~Done(timer_funcs[f[i]])
    BY <2>2 DEF Kept
  <2>4. TimerTypeOK'
    <3>1. /\ Len(timer_funcs') \in Nat /\ Len(timer_funcs') <= capacity
          /\ at' \in 0..end' + 1 /\ end' \in 0..Len(timer_funcs')
      BY <1>1, <1>2, <2>1
    <3> QED
      BY <1>1, <1>2, <2>1, <3>1 DEF TimerTypeOK
  <2>5. OneEntry' /\ CountsLeft'
    BY <1>1, <2>2, <2>3 DEF OneEntry, CountsLeft
  <2>6. RanOnce'
    BY <1>1, <2>2, <2>3 DEF RanOnce, Done
  <2> QED
    BY <1>3, <2>4, <2>5, <2>6
<1> QED
  BY <1>2, <1>4, <1>5

(* TimerIInv always holds.                                                  *)
LEMMA TimerInductive == TimerSpec => []TimerIInv
<1>1. TimerIInv /\ [TimerNext]_timerVars => TimerIInv'
  <2> SUFFICES ASSUME TimerIInv, [TimerNext]_timerVars PROVE TimerIInv'
    OBVIOUS
  <2>1. CASE UNCHANGED timerVars
    BY <2>1 DEF timerVars, TimerIInv, TimerTypeOK, OneEntry, InLoop, CountsLeft, RanOnce, Passed,
       NeverTooOften
  <2> QED
    BY <2>1, GiveStep, ElapseStep, WalkStep, VisitStep, FunctionThrowsStep, EndUpdateStep
       DEF TimerNext, TimerStep
<1> QED
  BY TimerStarts, <1>1, PTL DEF TimerSpec

(* Timer keeps its types, whatever its functions add or throw.              *)
THEOREM TimerTyped == TimerSpec => []TimerTypeOK
BY TimerInductive, PTL DEF TimerIInv

(* For every set of functions, none runs more often than was asked for,     *)
(* unless an exception kept Update from removing it.                        *)
THEOREM NeverTooOftenAlways == TimerSpec => []NeverTooOften
BY TimerInductive, PTL DEF TimerIInv

(* For every set of functions, one leaves the vector unspent only when the  *)
(* vector moved in that Update, or after a delay of nothing.                *)
THEOREM DropsAreRight == TimerSpec => DroppedOnlyByMove
<1>1. TimerIInv /\ [TimerNext]_timerVars => [DropsOnlyRightly]_timerVars
  <2> SUFFICES ASSUME TimerIInv, TimerNext, NEW j \in Jobs, Pending(j), ~Pending(j)'
               PROVE  LeavesRightly(j)
    BY DEF DropsOnlyRightly
  <2> USE DEF TimerIInv
  <2>1. PICK i \in DOMAIN timer_funcs : timer_funcs[i].job = j
    BY DEF Pending
  <2>2. \A k \in DOMAIN timer_funcs' : timer_funcs'[k].job # j
    BY DEF Pending
  <2>3. /\ timer_funcs \in Seq(Entries) /\ Len(timer_funcs) \in Nat
        /\ DOMAIN timer_funcs = 1..Len(timer_funcs)
    BY DEF TimerTypeOK
  <2>4. ~(\E k \in Jobs : Give(k))
    <3> SUFFICES ASSUME NEW k \in Jobs, Give(k) PROVE FALSE
      OBVIOUS
    <3>1. PICK w : timer_funcs' = Append(timer_funcs, [job |-> k, left |-> w, count |-> Kind[k].count])
      BY DEF Give
    <3>2. i \in DOMAIN timer_funcs' /\ timer_funcs'[i] = timer_funcs[i]
      BY <2>3, <3>1
    <3> QED
      BY <2>1, <2>2, <3>2
  <2>5. ~Elapse
    <3> SUFFICES ASSUME Elapse PROVE FALSE
      OBVIOUS
    <3>1. timer_funcs[i] \in Entries
      BY <2>3, ElementOfSeq
    <3>2. i \in DOMAIN timer_funcs' /\ timer_funcs'[i].job = timer_funcs[i].job
      BY <3>1 DEF Elapse, Entries
    <3> QED
      BY <2>1, <2>2, <3>2
  <2>6. ~BeginUpdate /\ ~VisitFreed /\ ~FunctionReturns /\ ~FunctionThrows
    BY <2>1, <2>2 DEF BeginUpdate, VisitFreed, FunctionReturns, FunctionThrows
  <2>7. ~Visit
    <3> SUFFICES ASSUME Visit PROVE FALSE
      OBVIOUS
    <3>1. CASE Pass
      BY <2>1, <2>2, <3>1 DEF Pass
    <3>2. ASSUME NEW f, f.job = timer_funcs[at].job, Run(f) PROVE FALSE
      <4>1. timer_funcs' = [timer_funcs EXCEPT ![at] = f]
        BY <3>2 DEF Run
      <4>2. i \in DOMAIN timer_funcs' /\ timer_funcs'[i].job = timer_funcs[i].job
        BY <2>3, <3>2, <4>1
      <4> QED
        BY <2>1, <2>2, <4>2
    <3>3. timer_funcs[at] \in Entries
      BY <2>3, ElementOfSeq DEF Visit, Looping, InLoop, TimerTypeOK
    <3>4. \A c : Again(timer_funcs[at], c).job = timer_funcs[at].job
      BY <3>3 DEF Again, Entries
    <3> QED
      BY <3>1, <3>2, <3>4 DEF Visit
  <2>8. EndUpdate /\ remove
    BY <2>1, <2>2, <2>4, <2>5, <2>6, <2>7 DEF TimerNext, TimerStep, EndUpdate
  <2>9. Done(timer_funcs[i])
    <3>1. i \notin Kept
      BY <2>1, <2>2, <2>8, EndUpdateKeeps
    <3> QED
      BY <3>1 DEF Kept
  <2>10. CASE ~Kind[j].once
    BY <2>1, <2>9, <2>10 DEF Done, CountsLeft, LeavesRightly, TimerTypeOK
  <2>11. CASE Kind[j].once
    <3>1. step = "loop" /\ at > end /\ Due(timer_funcs[i]) /\ Once(timer_funcs[i])
      BY <2>1, <2>8, <2>9, <2>11 DEF EndUpdate, Done
    <3>2. CASE ~moved /\ Kind[j].wait # 0
      <4>1. i <= end /\ (i < at => ran[j] >= 1)
        BY <2>1, <3>1, <3>2 DEF Passed
      <4>2. ran[j] >= 1 /\ Kind[j].count = 1
        BY <2>3, <2>11, <3>1, <4>1 DEF TimerTypeOK
      <4> QED
        BY <4>2 DEF LeavesRightly
    <3> QED
      BY <2>11, <3>2 DEF LeavesRightly
  <2> QED
    BY <2>10, <2>11
<1> QED
  BY TimerInductive, <1>1, PTL DEF TimerSpec, DroppedOnlyByMove
==================================================================================
