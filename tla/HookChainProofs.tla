----------------------------- MODULE HookChainProofs ----------------------------
(****************************************************************************)
(* For every set of detours and threads, and whatever hooks fail to attach  *)
(* again: the patched code is always one chain. IInv is inductive: that a   *)
(* newly attached detour extends the chain rests on it being nowhere in it, *)
(* which Once, Accounted and the type of hooked give.                       *)
(****************************************************************************)
EXTENDS HookChain, SequenceLemmas

(* The originals of hooks not attached at present lead to freed memory.     *)
Freed == \A d \in lost \cup Range(redo) : original[d] = Dangling

IInv == TypeOK /\ Chain /\ Once /\ Accounted /\ Freed

USE NamesAssumption DEF Addresses, Threads, vars, call

(* Removing a detour leaves the others, each once.                          *)
LEMMA RemainingProperties ==
  ASSUME TypeOK, Once, NEW d \in Range(hooks)
  PROVE  /\ Remaining(d) \in Seq(hooked \ {d})
         /\ \A i, j \in DOMAIN Remaining(d) : Remaining(d)[i] = Remaining(d)[j] => i = j
<1> DEFINE p == PlaceOf(d)
           rest == RemoveAt(hooks, p)
<1>1. p \in 1..Len(hooks) /\ hooks[p] = d
  BY DEF Range, PlaceOf, TypeOK
<1>2. hooks \in Seq(hooked)
  BY DEF TypeOK
<1> HIDE DEF p
<1>3. /\ rest \in Seq(hooked) /\ Len(rest) = Len(hooks) - 1
      /\ \A j \in 1..(Len(hooks) - 1) : rest[j] = IF j < p THEN hooks[j] ELSE hooks[j + 1]
  BY <1>1, <1>2, RemoveAtShifts
<1> HIDE DEF rest
<1>4. \A i, j \in 1..Len(hooks) : hooks[i] = hooks[j] => i = j
  BY <1>2 DEF Once
<1>5. ASSUME NEW j \in 1..Len(rest) PROVE rest[j] \in hooked \ {d}
  <2>1. CASE j < p
    BY <1>1, <1>2, <1>3, <1>4, <1>5, <2>1
  <2>2. CASE j >= p
    BY <1>1, <1>2, <1>3, <1>4, <1>5, <2>2
  <2> QED
    BY <1>1, <2>1, <2>2, <1>3
<1>6. ASSUME NEW i \in 1..Len(rest), NEW j \in 1..Len(rest), rest[i] = rest[j] PROVE i = j
  <2> DEFINE up(k) == IF k < p THEN k ELSE k + 1
  <2>1. up(i) \in 1..Len(hooks) /\ up(j) \in 1..Len(hooks)
    BY <1>1, <1>2, <1>3
  <2>2. hooks[up(i)] = rest[i] /\ hooks[up(j)] = rest[j]
    BY <1>3
  <2>3. up(i) = up(j)
    BY <1>4, <1>6, <2>1, <2>2
  <2> QED
    BY <1>1, <2>3
<1>7. Remaining(d) = rest
  BY DEF Remaining, rest, p
<1>8. rest \in Seq(hooked \ {d})
  BY <1>3, <1>5
<1> QED
  BY <1>3, <1>6, <1>7, <1>8

LEMMA RemainingWithin ==
  ASSUME TypeOK, Once, NEW d \in Range(hooks)
  PROVE  Range(Remaining(d)) \subseteq Range(hooks) \ {d}
<1> DEFINE p == PlaceOf(d)
<1>1. p \in 1..Len(hooks) /\ hooks[p] = d
  BY DEF Range, PlaceOf, TypeOK
<1>2. hooks \in Seq(hooked)
  BY DEF TypeOK
<1> HIDE DEF p
<1>3. /\ Len(RemoveAt(hooks, p)) = Len(hooks) - 1 /\ RemoveAt(hooks, p) \in Seq(hooked)
      /\ \A j \in 1..(Len(hooks) - 1) :
           RemoveAt(hooks, p)[j] = IF j < p THEN hooks[j] ELSE hooks[j + 1]
  BY <1>1, <1>2, RemoveAtShifts
<1>4. ASSUME NEW j \in 1..(Len(hooks) - 1) PROVE RemoveAt(hooks, p)[j] \in Range(hooks)
  <2>1. j \in DOMAIN hooks /\ j + 1 \in DOMAIN hooks
    BY <1>2
  <2> QED
    BY <1>3, <2>1 DEF Range
<1>5. Remaining(d) = RemoveAt(hooks, p)
  BY DEF Remaining, p
<1>6. Range(Remaining(d)) \subseteq Range(hooks)
  BY <1>3, <1>4, <1>5 DEF Range
<1>7. Remaining(d) \in Seq(hooked \ {d})
  BY RemainingProperties
<1>8. d \notin Range(Remaining(d))
  BY <1>7 DEF Range
<1> QED
  BY <1>6, <1>8

(* Removing d from the vector keeps every other detour.                     *)
LEMMA RemainingKeeps ==
  ASSUME TypeOK, Once, NEW d \in Range(hooks), NEW e \in Range(hooks), e # d
  PROVE  e \in Range(Remaining(d))
<1> DEFINE p == PlaceOf(d)
<1>1. p \in 1..Len(hooks) /\ hooks[p] = d
  BY DEF Range, PlaceOf, TypeOK
<1>2. hooks \in Seq(hooked)
  BY DEF TypeOK
<1> HIDE DEF p
<1>3. /\ Len(RemoveAt(hooks, p)) = Len(hooks) - 1 /\ RemoveAt(hooks, p) \in Seq(hooked)
      /\ \A j \in 1..(Len(hooks) - 1) :
           RemoveAt(hooks, p)[j] = IF j < p THEN hooks[j] ELSE hooks[j + 1]
  BY <1>1, <1>2, RemoveAtShifts
<1>4. PICK k \in 1..Len(hooks) : hooks[k] = e
  BY <1>2 DEF Range
<1>5. k # p
  BY <1>1, <1>4
<1>6. CASE k < p
  <2>1. k \in 1..(Len(hooks) - 1) /\ RemoveAt(hooks, p)[k] = e
    BY <1>1, <1>3, <1>4, <1>6
  <2> QED
    BY <1>3, <2>1 DEF Range, Remaining, p
<1>7. CASE k > p
  <2>1. k - 1 \in 1..(Len(hooks) - 1) /\ ~(k - 1 < p) /\ (k - 1) + 1 = k
    BY <1>1, <1>4, <1>7
  <2>2. RemoveAt(hooks, p)[k - 1] = hooks[(k - 1) + 1]
    BY <1>3, <2>1
  <2>3. RemoveAt(hooks, p)[k - 1] = e
    BY <1>4, <2>1, <2>2
  <2> QED
    BY <1>3, <2>1, <2>3 DEF Range, Remaining, p
<1> QED
  BY <1>1, <1>4, <1>5, <1>6, <1>7

(* No hook is set when the framework starts.                                *)
LEMMA InitChain == Init => IInv
<1> SUFFICES ASSUME Init PROVE IInv
  OBVIOUS
<1>1. TypeOK
  BY EmptySeq DEF Init, TypeOK
<1>2. Chain
  BY DEF Init, Chain, Linked, Ended
<1>3. Once
  BY DEF Init, Once
<1>4. Accounted /\ Freed
  BY DEF Init, Accounted, Freed, Range
<1> QED
  BY <1>1, <1>2, <1>3, <1>4 DEF IInv

(* Attaching a detour that is nowhere in the chain makes it the last.       *)
LEMMA AttachExtends ==
  ASSUME TypeOK, Chain, Once, NEW d \in Detours, Attach(d),
         \A i \in DOMAIN hooks : hooks[i] # d
  PROVE  /\ Chain'
         /\ jump' \in [Addresses -> Detours \cup {None}]
         /\ original' \in [Detours -> Addresses \cup {None, Dangling}]
<1> DEFINE n == Len(hooks)
<1>1. n \in Nat /\ hooks \in Seq(Detours) /\ DOMAIN hooks = 1..n
  BY DEF TypeOK
<1>2. /\ hooks' \in Seq(Detours) /\ Len(hooks') = n + 1 /\ DOMAIN hooks' = 1..(n + 1)
      /\ hooks'[n + 1] = d /\ \A i \in 1..n : hooks'[i] = hooks[i]
  BY <1>1, AppendProperties DEF Attach
<1>3. NewTarget = Before(n + 1) /\ NewTarget \in Addresses
  BY <1>1 DEF NewTarget, Before
<1>4. \A i \in 1..(n + 1) : Before(i)' = Before(i)
  BY <1>1, <1>2 DEF Before
<1>5. \A i \in 1..n : Before(i) # NewTarget
  BY <1>1, <1>3 DEF Before, Once
<1>6. jump[d] = None
  <2> SUFFICES ASSUME jump[d] # None PROVE FALSE
    OBVIOUS
  <2>1. PICK i \in 1..n : d = Before(i)
    BY <1>1 DEF Chain, Ended
  <2> QED
    BY <1>1, <2>1 DEF Before
<1>7. /\ jump' \in [Addresses -> Detours \cup {None}]
      /\ original' \in [Detours -> Addresses \cup {None, Dangling}]
  BY <1>3 DEF TypeOK, Attach
<1>8. jump'[NewTarget] = d /\ \A a \in Addresses \ {NewTarget} : jump'[a] = jump[a]
  BY <1>3 DEF TypeOK, Attach
<1>9. original'[d] = NewTarget /\ \A e \in Detours \ {d} : original'[e] = original[e]
  BY DEF TypeOK, Attach
<1>10. Linked'
  <2> SUFFICES ASSUME NEW i \in 1..(n + 1)
               PROVE  jump'[Before(i)'] = hooks'[i] /\ original'[hooks'[i]] = Before(i)'
    BY <1>2 DEF Linked
  <2>1. CASE i = n + 1
    BY <1>2, <1>3, <1>4, <1>8, <1>9, <2>1
  <2>2. CASE i \in 1..n
    <3>1. hooks'[i] = hooks[i] /\ hooks[i] \in Detours \ {d} /\ Before(i)' = Before(i)
      BY <1>1, <1>2, <1>4, <2>2
    <3>2. Before(i) \in Addresses \ {NewTarget}
      BY <1>1, <1>5, <2>2 DEF Before
    <3>3. jump[Before(i)] = hooks[i] /\ original[hooks[i]] = Before(i)
      BY <1>1, <2>2 DEF Chain, Linked
    <3> QED
      BY <1>8, <1>9, <3>1, <3>2, <3>3
  <2> QED
    BY <1>1, <2>1, <2>2
<1>11. Ended'
  <2> SUFFICES ASSUME NEW a \in Addresses, jump'[a] # None
               PROVE  \E i \in 1..(n + 1) : a = Before(i)'
    BY <1>2 DEF Ended
  <2>1. CASE a = NewTarget
    BY <1>1, <1>3, <1>4, <2>1
  <2>2. CASE a # NewTarget
    <3>1. PICK i \in 1..n : a = Before(i)
      BY <1>1, <1>8, <2>2 DEF Chain, Ended
    <3> QED
      BY <1>1, <1>4, <3>1
  <2> QED
    BY <2>1, <2>2
<1> QED
  BY <1>7, <1>10, <1>11 DEF Chain

(* Every step of the game thread and of the callers keeps the invariant.    *)
LEMMA ChainStep == IInv /\ [Next]_vars => IInv'
<1> SUFFICES ASSUME IInv, [Next]_vars PROVE IInv'
  OBVIOUS
<1>1. TypeOK /\ Chain /\ Once /\ Accounted /\ Freed
  BY DEF IInv
<1>2. ASSUME NEW d \in Detours, SetHook(d) PROVE IInv'
  <2>1. \A i \in DOMAIN hooks : hooks[i] # d
    BY <1>1, <1>2 DEF SetHook, TypeOK
  <2>2. /\ Attach(d) /\ redo = << >> /\ redo' = redo
        /\ hooked' = hooked \cup {d} /\ lost' = lost /\ d \notin hooked
    BY <1>2 DEF SetHook, GameThread
  <2>3. /\ Chain' /\ jump' \in [Addresses -> Detours \cup {None}]
        /\ original' \in [Detours -> Addresses \cup {None, Dangling}]
    BY <1>1, <2>1, <2>2, AttachExtends
  <2>4. hooks \in Seq(hooked') /\ d \in hooked' /\ hooks \in Seq(hooked)
    BY <1>1, <2>2 DEF TypeOK
  <2>5. /\ hooks' \in Seq(hooked') /\ DOMAIN hooks' = 1..(Len(hooks) + 1)
        /\ hooks'[Len(hooks) + 1] = d /\ \A i \in 1..Len(hooks) : hooks'[i] = hooks[i]
    BY <2>2, <2>4, AppendProperties DEF Attach
  <2>6. TypeOK'
    BY <1>1, <1>2, <2>2, <2>3, <2>5, EmptySeq DEF TypeOK, SetHook
  <2>7. Once'
    BY <1>1, <2>1, <2>2, <2>4, <2>5 DEF Once
  <2>8. Accounted'
    <3>1. Range(hooks') = Range(hooks) \cup {d}
      BY <2>2, <2>4, RangeAppend DEF Attach
    <3>2. hooked' \ lost' = (hooked \ lost) \cup {d}
      BY <1>1, <2>2 DEF TypeOK
    <3> QED
      BY <1>1, <2>2, <3>1, <3>2 DEF Accounted
  <2>9. Freed'
    <3>1. Range(redo) = {} /\ lost \subseteq hooked
      BY <1>1, <2>2 DEF TypeOK, Range
    <3> QED
      BY <1>1, <2>2, <3>1 DEF Freed, Attach, TypeOK
  <2> QED
    BY <2>3, <2>6, <2>7, <2>8, <2>9 DEF IInv
<1>3. ASSUME NEW d \in Detours, DisableHook(d) PROVE IInv'
  <2>1. /\ Remaining(d) \in Seq(hooked \ {d})
        /\ \A i, j \in DOMAIN Remaining(d) : Remaining(d)[i] = Remaining(d)[j] => i = j
    BY <1>1, <1>3, RemainingProperties DEF DisableHook
  <2>2. /\ hooks' = << >> /\ redo' = Remaining(d) /\ hooked' = hooked \ {d}
        /\ jump' = [a \in Addresses |-> None] /\ lost' = lost /\ redo = << >>
        /\ original' = [e \in Detours |-> IF e \in Range(hooks) THEN Dangling ELSE original[e]]
    BY <1>3 DEF DisableHook, MovedFrom, GameThread
  <2>6. hooked \ lost = Range(hooks) /\ d \in Range(hooks)
    BY <1>1, <1>3, <2>2 DEF Accounted, DisableHook, Range
  <2>7. Range(Remaining(d)) = Range(hooks) \ {d}
    <3>1. Range(hooks) \ {d} \subseteq Range(Remaining(d))
      BY <1>1, <2>6, RemainingKeeps
    <3>2. Range(Remaining(d)) \subseteq Range(hooks) \ {d}
      BY <1>1, <2>6, RemainingWithin
    <3> QED
      BY <3>1, <3>2
  <2>3. TypeOK'
    BY <1>1, <1>3, <2>1, <2>2, <2>6, EmptySeq DEF TypeOK, DisableHook
  <2>4. Chain'
    BY <2>2 DEF Chain, Linked, Ended
  <2>5. Once'
    BY <2>1, <2>2 DEF Once
  <2>8. Accounted'
    <3>1. Range(hooks') = {}
      BY <2>2 DEF Range
    <3> QED
      BY <2>2, <2>6, <2>7, <3>1 DEF Accounted
  <2>9. Freed'
    <3>1. lost \cup Range(hooks) \subseteq Detours
      BY <1>1, <2>6 DEF TypeOK
    <3>2. ASSUME NEW e \in lost \cup Range(Remaining(d)) PROVE original'[e] = Dangling
      <4>1. CASE e \in Range(hooks)
        BY <2>2, <3>1, <4>1
      <4>2. CASE e \notin Range(hooks)
        BY <1>1, <2>2, <2>7, <3>1, <3>2, <4>2 DEF Freed
      <4> QED
        BY <4>1, <4>2
    <3> QED
      BY <2>2, <3>2 DEF Freed
  <2> QED
    BY <2>3, <2>4, <2>5, <2>8, <2>9 DEF IInv
<1>4. ASSUME NEW d \in Detours, DisableLost(d) PROVE IInv'
  <2>1. /\ hooks' = hooks /\ jump' = jump /\ original' = original /\ redo' = redo
        /\ hooked' = hooked \ {d} /\ redo = << >> /\ d \notin Range(hooks)
        /\ lost' = lost \ {d}
    BY <1>4 DEF DisableLost, GameThread
  <2>2. \A i \in DOMAIN hooks : hooks[i] \in hooked'
    BY <1>1, <2>1 DEF TypeOK, Range
  <2>3. hooks \in Seq(hooked')
    BY <1>1, <2>2 DEF TypeOK
  <2>4. TypeOK'
    BY <1>1, <1>4, <2>1, <2>3, EmptySeq DEF TypeOK, DisableLost
  <2>5. Chain' /\ Once'
    BY <1>1, <2>1 DEF Chain, Linked, Ended, Before, Once
  <2>6. Accounted' /\ Freed'
    BY <1>1, <2>1 DEF Accounted, Freed, Range
  <2> QED
    BY <2>4, <2>5, <2>6 DEF IInv
<1>5. CASE Enable
  <2> DEFINE d == Head(redo)
  <2>1. redo \in Seq(hooked) /\ redo # << >> /\ redo' = Tail(redo) /\ hooked' = hooked
    BY <1>1, <1>5 DEF Enable, TypeOK
  <2>2. /\ d = redo[1] /\ d \in hooked /\ d \in Detours /\ 1 \in DOMAIN redo
        /\ redo' \in Seq(hooked) /\ DOMAIN redo' = 1..(Len(redo) - 1)
        /\ \A j \in 1..(Len(redo) - 1) : redo'[j] = redo[j + 1] /\ j + 1 \in DOMAIN redo
    BY <1>1, <2>1, HeadTailProperties DEF TypeOK
  <2>3. UNCHANGED call /\ UNCHANGED crashed
    BY <1>5 DEF Enable
  <2>6. /\ Range(redo) = {d} \cup Range(redo') /\ d \notin Range(redo')
        /\ d \notin Range(hooks) /\ d \notin lost
    <3>1. Range(redo) = {d} \cup Range(redo')
      BY <2>1, RangeTail
    <3>2. d \notin Range(redo') /\ d \notin Range(hooks)
      BY <1>1, <2>1, <2>2 DEF Once, Range
    <3> QED
      BY <1>1, <3>1, <3>2 DEF Accounted
  <2> HIDE DEF d
  <2>4. CASE Attach(d) /\ UNCHANGED lost
    <3>1. \A i \in DOMAIN hooks : hooks[i] # d
      BY <1>1, <2>2 DEF Once
    <3>2. /\ Chain' /\ jump' \in [Addresses -> Detours \cup {None}]
          /\ original' \in [Detours -> Addresses \cup {None, Dangling}]
      BY <1>1, <2>2, <2>4, <3>1, AttachExtends
    <3>3. /\ hooks' \in Seq(hooked) /\ DOMAIN hooks' = 1..(Len(hooks) + 1)
          /\ hooks'[Len(hooks) + 1] = d /\ \A i \in 1..Len(hooks) : hooks'[i] = hooks[i]
      BY <1>1, <2>2, <2>4, AppendProperties DEF Attach, TypeOK
    <3>4. TypeOK'
      BY <1>1, <2>1, <2>2, <2>3, <2>4, <3>2, <3>3 DEF TypeOK
    <3>5. \A i, j \in DOMAIN hooks' : hooks'[i] = hooks'[j] => i = j
      BY <1>1, <3>1, <3>3 DEF Once, TypeOK
    <3>6. \A i, j \in DOMAIN redo' : redo'[i] = redo'[j] => i = j
      BY <1>1, <2>2 DEF Once
    <3>7. \A i \in DOMAIN hooks', j \in DOMAIN redo' : hooks'[i] # redo'[j]
      <4> SUFFICES ASSUME NEW i \in DOMAIN hooks', NEW j \in DOMAIN redo'
                   PROVE  hooks'[i] # redo'[j]
        OBVIOUS
      <4>1. redo'[j] = redo[j + 1] /\ j + 1 \in DOMAIN redo /\ j + 1 # 1
        BY <2>1, <2>2
      <4>2. CASE i \in 1..Len(hooks)
        BY <1>1, <3>3, <4>1, <4>2 DEF Once, TypeOK
      <4>3. CASE i = Len(hooks) + 1
        BY <1>1, <2>2, <3>3, <4>1, <4>3 DEF Once
      <4> QED
        BY <1>1, <3>3, <4>2, <4>3 DEF TypeOK
    <3>8. Accounted'
      <4>1. Range(hooks') = Range(hooks) \cup {d}
        BY <1>1, <2>4, RangeAppend DEF Attach, TypeOK
      <4> QED
        BY <1>1, <2>1, <2>4, <2>6, <4>1 DEF Accounted
    <3>9. Freed'
      BY <1>1, <2>2, <2>4, <2>6 DEF Freed, Attach, TypeOK
    <3> QED
      BY <3>2, <3>4, <3>5, <3>6, <3>7, <3>8, <3>9 DEF IInv, Once
  <2>5. CASE lost' = lost \cup {d} /\ UNCHANGED <<hooks, jump, original>>
    <3>1. TypeOK'
      BY <1>1, <2>1, <2>2, <2>3, <2>5 DEF TypeOK
    <3>2. Chain'
      BY <1>1, <2>5 DEF Chain, Linked, Ended, Before
    <3>3. Once'
      BY <1>1, <2>2, <2>5 DEF Once
    <3>4. Accounted' /\ Freed'
      BY <1>1, <2>1, <2>5, <2>6 DEF Accounted, Freed
    <3> QED
      BY <3>1, <3>2, <3>3, <3>4 DEF IInv
  <2> QED
    BY <1>5, <2>4, <2>5 DEF Enable, d
<1>6. ASSUME UNCHANGED <<hooks, jump, original, redo, hooked, lost>>,
             entry' \in [Threads -> Addresses \cup {None}],
             body' \in [Threads -> Addresses \cup {None}],
             crashed' \in BOOLEAN
      PROVE  IInv'
  <2>1. TypeOK'
    BY <1>1, <1>6 DEF TypeOK
  <2>2. Chain' /\ Once' /\ Accounted' /\ Freed'
    BY <1>1, <1>6 DEF Chain, Linked, Ended, Before, Once, Accounted, Freed
  <2> QED
    BY <2>1, <2>2 DEF IInv
<1>7. ASSUME NEW t \in Threads, CallFunction(t) PROVE IInv'
  BY <1>1, <1>6, <1>7 DEF CallFunction, TypeOK
<1>8. ASSUME NEW t \in Threads, Follow(t) PROVE IInv'
  BY <1>1, <1>6, <1>8 DEF Follow, TypeOK
<1>9. ASSUME NEW t \in Threads, CallOriginal(t) PROVE IInv'
  BY <1>1, <1>6, <1>9 DEF CallOriginal, TypeOK
<1>10. ASSUME NEW t \in Threads, Return(t) PROVE IInv'
  BY <1>1, <1>6, <1>10 DEF Return, TypeOK
<1>11. CASE UNCHANGED vars
  BY <1>1, <1>6, <1>11 DEF TypeOK
<1> QED
  BY <1>2, <1>3, <1>4, <1>5, <1>7, <1>8, <1>9, <1>10, <1>11 DEF Next

(* However plugins set and disable hooks, and whatever Detours refuses, the *)
(* patched code and the trampolines form one chain in the order of setting. *)
THEOREM ChainAlways == Spec => []Chain
<1>1. IInv => Chain
  BY DEF IInv
<1> QED
  BY <1>1, InitChain, ChainStep, PTL DEF Spec

(* No detour is ever attached, or waiting to be attached again, twice.      *)
THEOREM OnceAlways == Spec => []Once
<1>1. IInv => Once
  BY DEF IInv
<1> QED
  BY <1>1, InitChain, ChainStep, PTL DEF Spec

(* Disabling one hook forgets no other: what an owner has set is attached,  *)
(* about to be attached again, or was refused.                              *)
THEOREM AccountedAlways == Spec => []Accounted
<1>1. IInv => Accounted
  BY DEF IInv
<1> QED
  BY <1>1, InitChain, ChainStep, PTL DEF Spec

(* The hook vector holds only detours whose owners have them hooked.        *)
THEOREM HooksTyped == Spec => []TypeOK
<1>1. IInv => TypeOK
  BY DEF IInv
<1> QED
  BY <1>1, InitChain, ChainStep, PTL DEF Spec

(****************************************************************************)
(* A detour on the game thread's stack is still hooked: nothing disables    *)
(* one while it runs.                                                       *)
(****************************************************************************)
GameInv ==
  /\ body[Game] \in Detours => body[Game] \in hooked
  /\ entry[Game] # None => redo = << >> /\ entry[Game] \in {Function} \cup Range(hooks)

LEMMA GameStep == IInv /\ GameInv /\ [Next]_vars => GameInv'
<1> SUFFICES ASSUME IInv, GameInv, [Next]_vars PROVE GameInv'
  OBVIOUS
<1>1. TypeOK /\ Chain /\ Accounted /\ Freed /\ Range(hooks) \subseteq hooked
  BY DEF IInv, Accounted
<1> DEFINE b == body[Game]
           e == entry[Game]
<1>2. ASSUME NEW d \in Detours, SetHook(d) PROVE GameInv'
  BY <1>2 DEF SetHook, GameThread, GameInv
<1>3. ASSUME NEW d \in Detours, DisableHook(d) PROVE GameInv'
  BY <1>3 DEF DisableHook, GameThread, GameInv
<1>4. ASSUME NEW d \in Detours, DisableLost(d) PROVE GameInv'
  BY <1>4 DEF DisableLost, GameThread, GameInv
<1>5. CASE Enable
  BY <1>5 DEF Enable, GameInv
<1>6. ASSUME NEW t \in Threads, CallFunction(t) PROVE GameInv'
  BY <1>1, <1>6 DEF CallFunction, GameInv, Runs, TypeOK
<1>7. ASSUME NEW t \in Threads, Follow(t) PROVE GameInv'
  <2>1. CASE t # Game
    BY <1>1, <1>7, <2>1 DEF Follow, GameInv, TypeOK
  <2>2. CASE t = Game
    <3>1. /\ redo = << >> /\ e # None /\ UNCHANGED <<hooks, redo, hooked>>
          /\ e \in {Function} \cup Range(hooks)
      BY <1>7, <2>2 DEF Follow, Runs, GameInv
    <3>2. CASE jump[e] # None
      <4>1. e \in Addresses
        BY <1>1, <3>1 DEF TypeOK
      <4>2. PICK i \in DOMAIN hooks : e = Before(i)
        BY <1>1, <3>2, <4>1 DEF Chain, Ended
      <4>3. jump[e] \in Range(hooks)
        BY <1>1, <4>2 DEF Chain, Linked, Range
      <4>4. entry'[Game] = jump[e] /\ body' = body
        BY <1>1, <1>7, <2>2, <3>2 DEF Follow, TypeOK
      <4> QED
        BY <3>1, <4>3, <4>4 DEF GameInv
    <3>3. CASE jump[e] = None
      <4>1. entry'[Game] = None /\ body'[Game] = e
        BY <1>1, <1>7, <2>2, <3>3 DEF Follow, TypeOK
      <4> QED
        BY <1>1, <3>1, <4>1 DEF GameInv
    <3> QED
      BY <3>2, <3>3
  <2> QED
    BY <2>1, <2>2
<1>8. ASSUME NEW t \in Threads, CallOriginal(t) PROVE GameInv'
  <2>1. CASE t # Game
    BY <1>1, <1>8, <2>1 DEF CallOriginal, GameInv, TypeOK
  <2>2. CASE t = Game
    <3>1. /\ redo = << >> /\ b \in Detours /\ UNCHANGED <<hooks, redo, entry, hooked>>
          /\ b \in hooked
      BY <1>8, <2>2 DEF CallOriginal, Runs, GameInv
    <3>2. CASE b \in lost
      <4>1. original[b] \notin Addresses
        BY <1>1, <3>2 DEF Freed
      <4> QED
        BY <1>8, <2>2, <3>1, <4>1 DEF CallOriginal, GameInv
    <3>3. CASE b \notin lost
      <4>1. b \in Range(hooks)
        BY <1>1, <3>1, <3>3 DEF Accounted, Range
      <4>2. PICK i \in DOMAIN hooks : b = hooks[i]
        BY <4>1 DEF Range
      <4>3. original[b] = Before(i) /\ Before(i) \in {Function} \cup Range(hooks)
        BY <1>1, <4>2 DEF Chain, Linked, Before, Range, TypeOK
      <4>4. body'[Game] = b \/ body'[Game] = original[b]
        BY <1>1, <1>8, <2>2 DEF CallOriginal, TypeOK
      <4> QED
        BY <1>1, <3>1, <4>3, <4>4 DEF GameInv
    <3> QED
      BY <3>2, <3>3
  <2> QED
    BY <2>1, <2>2
<1>9. ASSUME NEW t \in Threads, Return(t) PROVE GameInv'
  BY <1>1, <1>9 DEF Return, GameInv, TypeOK
<1>10. CASE UNCHANGED vars
  BY <1>10 DEF GameInv
<1> QED
  BY <1>2, <1>3, <1>4, <1>5, <1>6, <1>7, <1>8, <1>9, <1>10 DEF Next

(* A detour of the game thread can call on, whatever was set and disabled   *)
(* while it ran, unless Detours refused to set that one again.              *)
THEOREM CallsSafe == Spec => []GameCallSafe
<1>1. Init => GameInv
  BY DEF Init, GameInv
<1>2. IInv /\ GameInv => GameCallSafe
  <2> SUFFICES ASSUME IInv, GameInv, body[Game] \in Detours \ lost, redo = << >>
               PROVE  original[body[Game]] \in Addresses
    BY DEF GameCallSafe
  <2>1. body[Game] \in Range(hooks)
    BY DEF GameInv, IInv, Accounted, Range
  <2>2. PICK i \in DOMAIN hooks : body[Game] = hooks[i]
    BY <2>1 DEF Range
  <2>3. original[body[Game]] = Before(i)
    BY <2>2 DEF IInv, Chain, Linked
  <2> QED
    BY <2>2, <2>3 DEF IInv, TypeOK, Before
<1> QED
  BY <1>1, <1>2, InitChain, ChainStep, GameStep, PTL DEF Spec
================================================================================
