---------------------------------- MODULE Timer ----------------------------------
(****************************************************************************)
(* Delayed and recurring functions (Timer.cpp). All of it runs on the game  *)
(* thread. The functions are in a vector of pointers that Update walks, and *)
(* a function that runs may add others to it. Only the order of a time and  *)
(* "now" matters, so an entry keeps how long it has still to wait, zero     *)
(* when it is due; no time passes within one Update.                        *)
(****************************************************************************)
EXTENDS Integers, Sequences, FiniteSets

CONSTANTS Jobs,      \* functions, each given to the timer at most once
          Kind,      \* Kind[j]: [once, wait, count]; count -1 is for ever
          NoJob      \* no function

Forever == -1

ASSUME JobsAssumption ==
  /\ NoJob \notin Jobs
  /\ \A j \in Jobs : /\ Kind[j].once \in BOOLEAN /\ Kind[j].wait \in Nat
                     /\ Kind[j].count \in Nat \cup {Forever}
                     /\ Kind[j].once => Kind[j].count = 1

VARIABLES timer_funcs,   \* entries [job, left, count]
          capacity,      \* of that vector
          step,          \* Update: outside, in its loop, or in a function it called
          at, end,       \* the loop's place, and its end when it began
          moved,         \* the vector was moved to a larger buffer during the loop
          remove,        \* Update: something is to be removed
          running,       \* the function running, or NoJob
          given,         \* history: functions given to the timer
          ran,           \* history: how often each ran, up to one time too many
          cut,           \* history: delayed functions of an Update left by an exception
          wild           \* the loop read freed memory that was no longer null

timerVars == <<timer_funcs, capacity, step, at, end, moved, remove, running, given, ran, cut, wild>>

TimerInit ==
  /\ timer_funcs = << >> /\ capacity = 0
  /\ step = "rest" /\ at = 0 /\ end = 0 /\ moved = FALSE /\ remove = FALSE /\ running = NoJob
  /\ given = {} /\ ran = [j \in Jobs |-> 0] /\ cut = {} /\ wild = FALSE

Once(e) == Kind[e.job].once
Due(e)  == e.left = 0

(****************************************************************************)
(* DelayExecuteInternal and RecurringExecuteInternal, not async. A vector   *)
(* that is full grows by half. A recurring function is due at once; a delay *)
(* of no seconds, given during Update, ends then or a moment later.         *)
(****************************************************************************)
MutNotGrown == capacity   \* mutant

Grown == IF Len(timer_funcs) < capacity THEN capacity
         ELSE IF capacity < 2 THEN capacity + 1 ELSE capacity + capacity \div 2

Waits(j) == IF ~Kind[j].once THEN {0}
            ELSE IF Kind[j].wait = 0 /\ step # "rest" THEN {0, 1} ELSE {Kind[j].wait}

Give(j) ==
  /\ j \notin given /\ given' = given \cup {j}
  /\ \E w \in Waits(j) :
       timer_funcs' = Append(timer_funcs, [job |-> j, left |-> w, count |-> Kind[j].count])
  /\ capacity' = Grown
  /\ moved' = (moved \/ (step # "rest" /\ Grown # capacity))
  /\ UNCHANGED <<step, at, end, remove, running, ran, cut, wild>>

(* Time passes until some entry comes closer. *)
Elapse ==
  /\ step = "rest" /\ \E i \in DOMAIN timer_funcs : ~Due(timer_funcs[i])
  /\ timer_funcs' = [i \in DOMAIN timer_funcs |->
                       [timer_funcs[i] EXCEPT !.left = IF @ = 0 THEN 0 ELSE @ - 1]]
  /\ UNCHANGED <<capacity, step, at, end, moved, remove, running, given, ran, cut, wild>>

(****************************************************************************)
(* Update.                                                                  *)
(****************************************************************************)
BeginUpdate ==
  /\ step = "rest"
  /\ IF timer_funcs = << >> THEN UNCHANGED <<step, at, end, moved, remove>>
     ELSE /\ step' = "loop" /\ at' = 1 /\ end' = Len(timer_funcs)
          /\ moved' = FALSE /\ remove' = FALSE
  /\ UNCHANGED <<timer_funcs, capacity, running, given, ran, cut, wild>>

Looping == step = "loop" /\ at <= end

(* The loop is still in the buffer that was freed. It finds the pointers    *)
(* that were moved out of it, which are null and passed over, or whatever   *)
(* the memory is used for now.                                              *)
VisitFreed ==
  /\ Looping /\ moved
  /\ \/ at' = end + 1 /\ UNCHANGED wild
     \/ wild' = TRUE /\ UNCHANGED at
  /\ UNCHANGED <<timer_funcs, capacity, step, end, moved, remove, running, given, ran, cut>>

Pass == at' = at + 1 /\ UNCHANGED <<timer_funcs, step, running, ran>>

Run(e) ==
  /\ step' = "run" /\ running' = e.job
  /\ timer_funcs' = [timer_funcs EXCEPT ![at] = e]
  /\ ran' = [ran EXCEPT ![e.job] =
               IF @ > Kind[e.job].count THEN @ ELSE @ + 1]
  /\ UNCHANGED at

Again(e, count) == [e EXCEPT !.count = count, !.left = Kind[e.job].wait]

Visit ==
  /\ Looping /\ ~moved
  /\ LET e == timer_funcs[at] IN
     \/ ~Due(e) /\ Pass /\ UNCHANGED remove
     \/ Due(e) /\ Once(e) /\ Run(e) /\ remove' = TRUE
     \/ Due(e) /\ ~Once(e) /\ e.count > 0 /\ Run(Again(e, e.count - 1)) /\ UNCHANGED remove
     \/ Due(e) /\ ~Once(e) /\ e.count = Forever /\ Run(Again(e, Forever)) /\ UNCHANGED remove
     \/ Due(e) /\ ~Once(e) /\ e.count = 0 /\ Pass /\ remove' = TRUE
  /\ UNCHANGED <<capacity, end, moved, given, cut, wild>>

FunctionReturns ==
  /\ step = "run" /\ step' = "loop" /\ at' = at + 1 /\ running' = NoJob
  /\ UNCHANGED <<timer_funcs, capacity, end, moved, remove, given, ran, cut, wild>>

Leave == step' = "rest" /\ at' = 0 /\ end' = 0 /\ moved' = FALSE /\ remove' = FALSE

(* The exception leaves Update before anything is removed. *)
FunctionThrows ==
  /\ step = "run" /\ Leave /\ running' = NoJob
  /\ cut' = cut \cup {timer_funcs[i].job : i \in {k \in 1..at : Once(timer_funcs[k]) /\ Due(timer_funcs[k])}}
  /\ UNCHANGED <<timer_funcs, capacity, given, ran, wild>>

(* Mutants: remove_if forgets exec_once, takes what is due for delayed, or  *)
(* a count for spent that means for ever.                                   *)
MutDoneRecurring(e) == ~Once(e) /\ e.count = 0
MutDoneDue(e)       == Due(e) \/ e.count = 0
MutDoneForever(e)   == (Once(e) /\ Due(e)) \/ (~Once(e) /\ e.count <= 0)

Done(e) == (Once(e) /\ Due(e)) \/ (~Once(e) /\ e.count = 0)

(* What remove_if leaves, in its order. *)
Kept       == {i \in DOMAIN timer_funcs : ~Done(timer_funcs[i])}
InOrder(S) == {f \in [1..Cardinality(S) -> S] : \A i, j \in DOMAIN f : i < j => f[i] < f[j]}

EndUpdate ==
  /\ step = "loop" /\ at > end /\ Leave
  /\ \/ ~remove /\ UNCHANGED timer_funcs
     \/ remove /\ \E f \in InOrder(Kept) : timer_funcs' = [i \in DOMAIN f |-> timer_funcs[f[i]]]
  /\ UNCHANGED <<capacity, running, given, ran, cut, wild>>

TimerStep == VisitFreed \/ Visit \/ FunctionReturns \/ FunctionThrows \/ EndUpdate

TimerNext == (\E j \in Jobs : Give(j)) \/ Elapse \/ BeginUpdate \/ TimerStep

TimerSpec == TimerInit /\ [][TimerNext]_timerVars
(****************************************************************************)
(* Properties.                                                              *)
(****************************************************************************)
Limited(j) == Kind[j].count # Forever
Pending(j) == \E i \in DOMAIN timer_funcs : timer_funcs[i].job = j

Entries == [job : Jobs, left : Nat, count : Nat \cup {Forever}]

(* Every variable keeps its type. *)
TimerTypeOK ==
  /\ timer_funcs \in Seq(Entries)
  /\ capacity \in Nat /\ Len(timer_funcs) <= capacity
  /\ step \in {"rest", "loop", "run"}
  /\ at \in 0..end + 1 /\ end \in 0..Len(timer_funcs)
  /\ moved \in BOOLEAN /\ remove \in BOOLEAN /\ wild \in BOOLEAN
  /\ running \in Jobs \cup {NoJob}
  /\ given \subseteq Jobs /\ cut \subseteq given /\ ran \in [Jobs -> Nat]

(* However functions add others while they run, none runs more often than   *)
(* was asked for, unless an exception kept Update from removing it.         *)
NeverTooOften == \A j \in Jobs : Limited(j) /\ j \notin cut => ran[j] <= Kind[j].count

(* A function leaves the vector before it has run as often as was asked for *)
(* only when another one made the vector move in the same Update, or when   *)
(* its delay of nothing ended in the Update that it was given in.           *)
LeavesRightly(j) ==
  \/ Limited(j) /\ ran[j] >= Kind[j].count
  \/ Kind[j].once /\ (moved \/ Kind[j].wait = 0)
DropsOnlyRightly == \A j \in Jobs : Pending(j) /\ ~Pending(j)' => LeavesRightly(j)
DroppedOnlyByMove == [][DropsOnlyRightly]_timerVars
==================================================================================
