---------------------------- MODULE PluginHostProofs ----------------------------
(****************************************************************************)
(* For every set of plugins, any of their configurations and any number of  *)
(* versions: no update is lost; every command that no other plugin may be   *)
(* given leads to a library that is in memory; and a plugin keeps answering *)
(* to a command that no other plugin has in force.                          *)
(*                                                                          *)
(* Taken says that between the copy and the removal the delivered library   *)
(* and the installed one are the same version, so that the process may die  *)
(* in between, or either step fail, without harm. HostInv relates the       *)
(* vectors of commands to the libraries in memory.                          *)
(****************************************************************************)
EXTENDS PluginHost, SequenceLemmas, FiniteSetTheorems, TLAPS

Taken ==
  /\ pc \in {"copy", "remove", "load"} => cur \in Plugins
  /\ pc \in {"copy", "remove"} => newDll[cur] # 0
  /\ pc = "remove" => dll[cur] = newDll[cur]

Versions == dll \in [Plugins -> 1..MaxVersion] /\ newDll \in [Plugins -> 0..MaxVersion]

(* A delivery is of a later version than the installed one.                 *)
Later == \A p \in Plugins : newDll[p] # 0 => newDll[p] >= dll[p]

UpdateInv == Versions /\ Taken /\ Later

USE BoundsAssumption

(* Each step of the walk, and of the operator, keeps UpdateInv.             *)
LEMMA UpdateStep == UpdateInv /\ [Next]_vars => UpdateInv'
<1> SUFFICES ASSUME UpdateInv, [Next]_vars PROVE UpdateInv'
  OBVIOUS
<1> USE DEF UpdateInv, Versions, Taken, Later
<1>1. ASSUME NEW p \in Plugins, Visit(p) PROVE UpdateInv'
  BY <1>1 DEF Visit, GoTo, GoOn, disk
<1>2. CASE Copy
  BY <1>2 DEF Copy, GoTo, GoOn
<1>3. CASE RemoveNew
  BY <1>3 DEF RemoveNew, GoTo, GoOn
<1>4. CASE Load
  BY <1>4 DEF Load, GoOn, disk
<1>5. CASE EndWalk \/ DetectPluginChanges
  BY <1>5 DEF EndWalk, DetectPluginChanges, GoTo, disk
<1>6. ASSUME NEW p \in Plugins, LoadCommand(p) \/ Reload(p) \/ UnloadCommand(p) \/ Edit(p)
      PROVE  UpdateInv'
  BY <1>6 DEF LoadCommand, Reload, UnloadCommand, Edit, disk, thread
<1>7. ASSUME NEW p \in Plugins, Deliver(p) PROVE UpdateInv'
  BY <1>7 DEF Deliver, Newest, thread
<1>8. CASE Die
  BY <1>8 DEF Die, Fresh, disk
<1>9. CASE Settle \/ UNCHANGED vars
  BY <1>9 DEF Settle, vars, disk, thread
<1> QED
  BY <1>1, <1>2, <1>3, <1>4, <1>5, <1>6, <1>7, <1>8, <1>9 DEF Next

LEMMA UpdateInductive == Spec => []UpdateInv
<1>1. Init => UpdateInv
  BY DEF Init, UpdateInv, Versions, Taken, Later
<1> QED
  BY <1>1, UpdateStep, PTL DEF Spec

(* Whatever fails, and wherever the process dies, the newest version that   *)
(* was delivered stays on the disk, installed or waiting.                   *)
THEOREM NoUpdateLostAlways == Spec => NoUpdateLost
<1>1. UpdateInv /\ [Next]_vars => [\A p \in Plugins : Newest(p)' >= Newest(p)]_vars
  <2> SUFFICES ASSUME UpdateInv, Next, NEW p \in Plugins PROVE Newest(p)' >= Newest(p)
    OBVIOUS
  <2> USE DEF UpdateInv, Versions, Taken, Later, Newest
  <2>1. CASE UNCHANGED disk
    BY <2>1 DEF disk
  <2>2. CASE Copy
    BY <2>2 DEF Copy
  <2>3. CASE RemoveNew
    BY <2>3 DEF RemoveNew
  <2>4. ASSUME NEW q \in Plugins, Deliver(q) PROVE Newest(p)' >= Newest(p)
    BY <2>4 DEF Deliver
  <2>5. ASSUME NEW q \in Plugins,
               Visit(q) \/ LoadCommand(q) \/ Reload(q) \/ UnloadCommand(q) \/ Edit(q)
        PROVE  UNCHANGED disk
    BY <2>5 DEF Visit, LoadCommand, Reload, UnloadCommand, Edit
  <2>6. CASE Load \/ EndWalk \/ DetectPluginChanges \/ Die \/ Settle
    BY <2>1, <2>6 DEF Load, EndWalk, DetectPluginChanges, Die, Settle
  <2> QED
    BY <2>1, <2>2, <2>3, <2>4, <2>5, <2>6 DEF Next
<1> QED
  BY <1>1, UpdateInductive, PTL DEF Spec, NoUpdateLost

(****************************************************************************)
(* What adding and removing commands does to a vector of them.              *)
(****************************************************************************)
Entry == [text : STRING \cup Plugins, owner : Plugins]

LEMMA EntriesTyped ==
  ASSUME NEW vec \in Seq(Entry)
  PROVE  Range(vec) \subseteq Entry
  BY DEF Range

(* The places in a vector that hold a text.                                 *)
Places(vec, t) == {i \in DOMAIN vec : vec[i].text = t}
Count(vec, t) == Cardinality(Places(vec, t))
Times(texts, t) == Cardinality({k \in DOMAIN texts : texts[k] = t})

LEMMA PlacesFinite ==
  ASSUME NEW vec \in Seq(Entry), NEW t
  PROVE  /\ IsFiniteSet(Places(vec, t)) /\ Count(vec, t) \in Nat
         /\ Count(vec, t) = 0 <=> Places(vec, t) = {}
<1>1. Places(vec, t) \in SUBSET (1..Len(vec)) /\ Len(vec) \in Nat
  BY DEF Places
<1>2. IsFiniteSet(1..Len(vec))
  BY <1>1, FS_Interval
<1>3. IsFiniteSet(Places(vec, t))
  BY <1>1, <1>2, FS_Subset
<1> QED
  BY <1>3, FS_CardinalityType, FS_EmptySet DEF Count

LEMMA TimesNat ==
  ASSUME NEW texts \in Seq(STRING), NEW t
  PROVE  Times(texts, t) \in Nat
<1> DEFINE S == {k \in DOMAIN texts : texts[k] = t}
<1>1. S \in SUBSET (1..Len(texts)) /\ Len(texts) \in Nat
  OBVIOUS
<1>2. IsFiniteSet(1..Len(texts))
  BY <1>1, FS_Interval
<1> HIDE DEF S
<1>3. IsFiniteSet(S)
  BY <1>1, <1>2, FS_Subset
<1> QED
  BY <1>3, FS_CardinalityType DEF Times, S

(* The first entry with a text that is there.                               *)
LEMMA FirstPlace ==
  ASSUME NEW vec \in Seq(Entry), NEW t, Has(vec, t)
  PROVE  First(vec, t) \in Places(vec, t)
<1>1. Places(vec, t) \subseteq Nat /\ Places(vec, t) # {}
  BY DEF Has, Places
<1>2. PICK i \in Places(vec, t) : \A j \in Places(vec, t) : i <= j
  BY <1>1, LeastNumber
<1> QED
  BY <1>2 DEF First, Places

(* Removing a command takes one entry with its text, if there is one, and   *)
(* no other.                                                                *)
LEMMA RemoveOne ==
  ASSUME NEW vec \in Seq(Entry), NEW t, NEW new, new = RemoveCommand(vec, t)
  PROVE  /\ new \in Seq(Entry) /\ Range(new) \subseteq Range(vec)
         /\ \A e \in Range(vec) : e.text # t => e \in Range(new)
         /\ \A u : Count(new, u) <= Count(vec, u)
         /\ Count(vec, t) > 0 => Count(new, t) <= Count(vec, t) - 1
<1> DEFINE k == First(vec, t)
<1>1. CASE ~Has(vec, t)
  <2>1. new = vec
    BY <1>1 DEF RemoveCommand
  <2>2. Places(vec, t) = {}
    BY <1>1 DEF Has, Places
  <2>3. Count(vec, t) = 0 /\ \A u : Count(vec, u) \in Nat
    BY <2>2, PlacesFinite
  <2> QED
    BY <2>1, <2>3
<1>2. CASE Has(vec, t)
  <2>1. k \in 1..Len(vec) /\ k \in Places(vec, t) /\ vec[k].text = t /\ new = RemoveAt(vec, k)
    BY <1>2, FirstPlace DEF RemoveCommand, Places
  <2> HIDE DEF k
  <2>2. /\ new \in Seq(Entry) /\ Len(new) = Len(vec) - 1 /\ Len(vec) \in Nat
        /\ \A j \in 1..(Len(vec) - 1) : new[j] = IF j < k THEN vec[j] ELSE vec[j + 1]
    <3>1. /\ RemoveAt(vec, k) \in Seq(Entry) /\ Len(RemoveAt(vec, k)) = Len(vec) - 1
          /\ \A j \in 1..(Len(vec) - 1) :
               RemoveAt(vec, k)[j] = IF j < k THEN vec[j] ELSE vec[j + 1]
      BY <2>1, RemoveAtShifts
    <3> QED
      BY <2>1, <3>1
  <2>3. DOMAIN new = 1..(Len(vec) - 1) /\ DOMAIN vec = 1..Len(vec)
    BY <2>2
  <2>4. Range(new) \subseteq Range(vec)
    BY <2>2, <2>3 DEF Range
  <2>5. ASSUME NEW i \in DOMAIN vec, vec[i].text # t PROVE vec[i] \in Range(new)
    <3>1. CASE i < k
      <4>1. i \in DOMAIN new /\ new[i] = vec[i]
        BY <2>1, <2>2, <2>3, <3>1
      <4> QED
        BY <4>1 DEF Range
    <3>2. CASE i > k
      <4>1. i - 1 \in 1..(Len(vec) - 1) /\ ~(i - 1 < k) /\ (i - 1) + 1 = i
        BY <2>1, <2>2, <2>3, <3>2
      <4>2. new[i - 1] = vec[i]
        BY <2>2, <4>1
      <4> QED
        BY <2>3, <4>1, <4>2 DEF Range
    <3> QED
      BY <2>1, <2>3, <2>5, <3>1, <3>2
  <2>6. ASSUME NEW u
        PROVE  /\ Count(new, u) <= Cardinality(Places(vec, u) \ {k})
               /\ IsFiniteSet(Places(vec, u) \ {k})
    <3> DEFINE S == Places(new, u)
               T == Places(vec, u) \ {k}
               f == [j \in S |-> IF j < k THEN j ELSE j + 1]
    <3>1. f \in [S -> T]
      BY <2>1, <2>2, <2>3 DEF Places
    <3>2. \A i, j \in S : f[i] = f[j] => i = j
      BY <2>1, <2>2, <2>3 DEF Places
    <3>3. IsFiniteSet(T)
      BY PlacesFinite, FS_RemoveElement
    <3> HIDE DEF f, T
    <3>4. f \in Injection(S, T)
      BY <3>1, <3>2 DEF Injection, IsInjective
    <3> QED
      BY <3>3, <3>4, FS_Injection DEF Count, T
  <2>7. \A u : Cardinality(Places(vec, u) \ {k}) =
                 IF k \in Places(vec, u) THEN Count(vec, u) - 1 ELSE Count(vec, u)
    BY PlacesFinite, FS_RemoveElement DEF Count
  <2>8. \A u : Count(vec, u) \in Nat /\ Count(new, u) \in Nat
    BY <2>2, PlacesFinite
  <2>9. ASSUME NEW u PROVE Count(new, u) <= Count(vec, u)
    <3> DEFINE c == Cardinality(Places(vec, u) \ {k})
    <3>1. c = Count(vec, u) - 1 \/ c = Count(vec, u)
      BY <2>7
    <3>2. Count(new, u) <= c /\ Count(vec, u) \in Nat /\ Count(new, u) \in Nat
      BY <2>6, <2>8
    <3> HIDE DEF c
    <3> QED
      BY <3>1, <3>2
  <2>10. Count(new, t) <= Count(vec, t) - 1
    BY <2>1, <2>6, <2>7, <2>8
  <2> QED
    BY <2>2, <2>4, <2>5, <2>9, <2>10 DEF Range
<1> QED
  BY <1>1, <1>2

(* The loop of RemoveAll: left[n] is what is left after n turns.            *)
LEMMA RemoveAllTurns ==
  ASSUME NEW vec \in Seq(Entry), NEW texts \in Seq(STRING)
  PROVE  \E left :
           /\ left = [n \in 0..Len(texts) |->
                        IF n = 0 THEN vec ELSE RemoveCommand(left[n - 1], texts[n])]
           /\ RemoveAll(vec, texts) = left[Len(texts)]
<1> DEFINE N == Len(texts)
           S == Seq(Entry)
           step == [n \in 1..N |-> [v \in S |-> RemoveCommand(v, texts[n])]]
           Turns(g) == g = [n \in 0..N |-> IF n = 0 THEN vec ELSE RemoveCommand(g[n - 1], texts[n])]
<1>1. N \in Nat /\ vec \in S
  OBVIOUS
<1>2. \A n \in 1..N : \A v \in S : step[n][v] \in S
  <2>1. \A t : \A v \in S : RemoveCommand(v, t) \in S
    BY RemoveOne
  <2> QED
    BY <2>1
<1>3. PICK g : LoopOf(g, N, S, vec, step)
  <2> HIDE DEF N, S, step
  <2> QED
    BY <1>1, <1>2, LoopRuns
<1>4. Turns(g)
  <2>1. /\ g \in [0..N -> S] /\ g[0] = vec
        /\ \A n \in 1..N : g[n] = step[n][g[n - 1]]
    BY <1>3 DEF LoopOf
  <2>2. ASSUME NEW n \in 1..N
        PROVE  g[n] = RemoveCommand(g[n - 1], texts[n])
    <3>1. n - 1 \in 0..N
      BY <1>1
    <3>2. g[n - 1] \in S
      BY <2>1, <3>1
    <3>3. step[n][g[n - 1]] = RemoveCommand(g[n - 1], texts[n])
      <4> HIDE DEF S
      <4> QED
        BY <3>2
    <3> QED
      BY <2>1, <3>3
  <2>3. \A n \in 0..N : g[n] = IF n = 0 THEN vec ELSE RemoveCommand(g[n - 1], texts[n])
    <3>1. \A n \in 0..N : n = 0 \/ n \in 1..N
      BY <1>1
    <3> HIDE DEF S, step
    <3> QED
      BY <2>1, <2>2, <3>1
  <2>4. g = [n \in 0..N |-> g[n]]
    BY <2>1
  <2> HIDE DEF S, step
  <2> QED
    BY <2>3, <2>4
<1> DEFINE left == CHOOSE l : Turns(l)
<1>5. Turns(left)
  <2> HIDE DEF Turns
  <2> QED
    BY <1>4
<1>6. RemoveAll(vec, texts) = left[N]
  BY DEF RemoveAll
<1> HIDE DEF left
<1> QED
  BY <1>5, <1>6

(* Removing a list of commands leaves the other commands alone, and of one  *)
(* that is there no more often than in the list it leaves none.             *)
LEMMA RemoveMany ==
  ASSUME NEW vec \in Seq(Entry), NEW texts \in Seq(STRING), NEW new, new = RemoveAll(vec, texts)
  PROVE  /\ new \in Seq(Entry) /\ Range(new) \subseteq Range(vec)
         /\ \A e \in Range(vec) : e.text \notin Range(texts) => e \in Range(new)
         /\ \A t : Count(new, t) <= Count(vec, t)
         /\ \A t : Count(vec, t) <= Times(texts, t) => Count(new, t) = 0
<1> DEFINE N == Len(texts)
           Rest(n, t) == {k \in DOMAIN texts : k > n /\ texts[k] = t}
<1>1. N \in Nat /\ DOMAIN texts = 1..N /\ IsFiniteSet(DOMAIN texts)
  BY FS_Interval
<1>2. PICK left :
        /\ left = [n \in 0..N |-> IF n = 0 THEN vec ELSE RemoveCommand(left[n - 1], texts[n])]
        /\ RemoveAll(vec, texts) = left[N]
  BY RemoveAllTurns
<1>3. left[0] = vec /\ \A n \in 0..(N - 1) : left[n + 1] = RemoveCommand(left[n], texts[n + 1])
  BY <1>1, <1>2
<1>4. ASSUME NEW n \in 0..N, NEW t
      PROVE  IsFiniteSet(Rest(n, t)) /\ Cardinality(Rest(n, t)) \in Nat
  <2>1. Rest(n, t) \in SUBSET (DOMAIN texts)
    OBVIOUS
  <2> HIDE DEF Rest
  <2> QED
    BY <1>1, <2>1, FS_Subset, FS_CardinalityType
<1>5. ASSUME NEW n \in 0..(N - 1), NEW t
      PROVE  Cardinality(Rest(n + 1, t)) = IF t = texts[n + 1] THEN Cardinality(Rest(n, t)) - 1
                                           ELSE Cardinality(Rest(n, t))
  <2>1. /\ Rest(n + 1, t) = Rest(n, t) \ {n + 1} /\ n \in 0..N
        /\ n + 1 \in Rest(n, t) <=> t = texts[n + 1]
    BY <1>1
  <2>2. IsFiniteSet(Rest(n, t))
    BY <1>4, <2>1
  <2> HIDE DEF Rest
  <2> QED
    BY <2>1, <2>2, FS_RemoveElement
<1> DEFINE Kept(n) ==
             /\ left[n] \in Seq(Entry) /\ Range(left[n]) \subseteq Range(vec)
             /\ \A e \in Range(vec) : e.text \notin Range(texts) => e \in Range(left[n])
             /\ \A t : Count(left[n], t) <= Count(vec, t)
             /\ \A t : Count(vec, t) <= Times(texts, t)
                        => Count(left[n], t) <= Cardinality(Rest(n, t))
           T == {n \in 0..N : Kept(n)}
<1>6. 0 \in T
  <2>1. \A t : Count(vec, t) \in Nat
    BY PlacesFinite
  <2>2. ASSUME NEW t PROVE Rest(0, t) = {k \in DOMAIN texts : texts[k] = t}
    BY <1>1
  <2> HIDE DEF Rest
  <2>3. \A t : Cardinality(Rest(0, t)) = Times(texts, t)
    BY <2>2 DEF Times
  <2>4. Kept(0)
    BY <1>3, <2>1, <2>3
  <2> HIDE DEF Kept
  <2> QED
    BY <1>1, <2>4
<1>7. ASSUME NEW n \in 0..(N - 1), Kept(n) PROVE Kept(n + 1)
  <2> DEFINE u == texts[n + 1]
             old == left[n]
             now == left[n + 1]
  <2>1. u \in Range(texts) /\ n \in 0..N /\ n + 1 \in 0..N
    BY <1>1 DEF Range
  <2>2. now = RemoveCommand(old, u) /\ old \in Seq(Entry)
    BY <1>3, <1>7
  <2> HIDE DEF u, old, now
  <2>3. /\ now \in Seq(Entry) /\ Range(now) \subseteq Range(old)
        /\ \A e \in Range(old) : e.text # u => e \in Range(now)
        /\ \A t : Count(now, t) <= Count(old, t)
        /\ Count(old, u) > 0 => Count(now, u) <= Count(old, u) - 1
    BY <2>2, RemoveOne
  <2>4. \A t : Count(now, t) \in Nat /\ Count(old, t) \in Nat /\ Count(vec, t) \in Nat
    BY <2>2, <2>3, PlacesFinite
  <2>5. ASSUME NEW t, Count(vec, t) <= Times(texts, t)
        PROVE  Count(now, t) <= Cardinality(Rest(n + 1, t))
    <3>1. /\ Cardinality(Rest(n, t)) \in Nat /\ Cardinality(Rest(n + 1, t)) \in Nat
          /\ Count(old, t) <= Cardinality(Rest(n, t))
      BY <1>4, <1>7, <2>1, <2>5 DEF old
    <3> DEFINE a == Cardinality(Rest(n, t))
               b == Cardinality(Rest(n + 1, t))
    <3>2. b = IF t = u THEN a - 1 ELSE a
      BY <1>5 DEF u
    <3> HIDE DEF a, b
    <3> QED
      BY <2>3, <2>4, <3>1, <3>2 DEF a, b
  <2>6. ASSUME NEW t PROVE Count(now, t) <= Count(vec, t)
    BY <1>7, <2>3, <2>4 DEF old
  <2>7. /\ Range(now) \subseteq Range(vec)
        /\ \A e \in Range(vec) : e.text \notin Range(texts) => e \in Range(now)
    BY <1>7, <2>1, <2>3 DEF old
  <2> QED
    BY <2>3, <2>5, <2>6, <2>7 DEF now
<1>8. Kept(N)
  <2> HIDE DEF Kept
  <2>1. \A n \in 0..(N - 1) : n \in T => n + 1 \in T
    BY <1>1, <1>7
  <2> HIDE DEF T
  <2>2. \A n \in 0..N : n \in T
    BY <1>1, <1>6, <2>1, LoopInduction
  <2> QED
    BY <1>1, <2>2 DEF T
<1>9. ASSUME NEW t PROVE Cardinality(Rest(N, t)) = 0
  <2>1. Rest(N, t) = {}
    BY <1>1
  <2> QED
    BY <2>1, FS_EmptySet
<1>10. \A t : Count(left[N], t) \in Nat
  BY <1>8, PlacesFinite
<1> HIDE DEF Rest
<1> QED
  BY <1>2, <1>8, <1>9, <1>10

(* Adding a list of commands keeps what is there and adds an entry for each *)
(* text of the list; a text that is not there comes as often as in the list.*)
LEMMA AddMany ==
  ASSUME NEW vec \in Seq(Entry), NEW texts \in Seq(STRING), NEW p \in Plugins,
         NEW new, new = AddAll(vec, texts, p)
  PROVE  /\ new \in Seq(Entry)
         /\ Range(new) = Range(vec) \cup {[text |-> t, owner |-> p] : t \in Range(texts)}
         /\ \A t : t \notin Range(texts) => Count(new, t) = Count(vec, t)
         /\ \A t : Count(vec, t) = 0 => Count(new, t) <= Times(texts, t)
<1> DEFINE add == [i \in DOMAIN texts |-> [text |-> texts[i], owner |-> p]]
           M == Len(vec)
           N == Len(texts)
<1>1. M \in Nat /\ DOMAIN vec = 1..M /\ N \in Nat /\ DOMAIN texts = 1..N
  OBVIOUS
<1>2. /\ add \in Seq(Entry) /\ Len(add) = N /\ DOMAIN add = 1..N
      /\ \A i \in 1..N : add[i] = [text |-> texts[i], owner |-> p]
  <2>1. \A i \in 1..N : [text |-> texts[i], owner |-> p] \in Entry
    BY DEF Entry
  <2> QED
    BY <1>1, <2>1
<1>3. new = vec \o add
  BY DEF AddAll
<1> HIDE DEF add
<1>4. /\ new \in Seq(Entry) /\ DOMAIN new = 1..(M + N)
      /\ \A i \in 1..(M + N) : new[i] = IF i <= M THEN vec[i] ELSE add[i - M]
  <2>1. /\ vec \o add \in Seq(Entry) /\ Len(vec \o add) = Len(vec) + Len(add)
        /\ \A i \in 1..(Len(vec) + Len(add)) :
             (vec \o add)[i] = IF i <= Len(vec) THEN vec[i] ELSE add[i - Len(vec)]
    BY <1>2, ConcatProperties
  <2>2. DOMAIN new = 1..Len(new)
    BY <1>3, <2>1
  <2> QED
    BY <1>1, <1>2, <1>3, <2>1, <2>2
<1>5. \A i \in 1..M : i \in DOMAIN new /\ new[i] = vec[i]
  BY <1>1, <1>4
<1>6. \A i \in 1..N : M + i \in DOMAIN new /\ new[M + i] = [text |-> texts[i], owner |-> p]
  BY <1>1, <1>2, <1>4
<1>7. \A i \in DOMAIN new : i \in 1..M \/ (i - M \in 1..N /\ i = M + (i - M))
  BY <1>1, <1>4
<1>8. Range(new) = Range(vec) \cup {[text |-> t, owner |-> p] : t \in Range(texts)}
  <2>1. ASSUME NEW i \in DOMAIN new
        PROVE  new[i] \in Range(vec) \cup {[text |-> t, owner |-> p] : t \in Range(texts)}
    <3>1. CASE i \in 1..M
      BY <1>1, <1>5, <3>1 DEF Range
    <3>2. CASE i - M \in 1..N /\ i = M + (i - M)
      BY <1>1, <1>6, <3>2 DEF Range
    <3> QED
      BY <1>7, <3>1, <3>2
  <2>2. Range(vec) \subseteq Range(new)
    BY <1>1, <1>5 DEF Range
  <2>3. ASSUME NEW i \in 1..N PROVE [text |-> texts[i], owner |-> p] \in Range(new)
    BY <1>6 DEF Range
  <2>4. Range(new) \subseteq Range(vec) \cup {[text |-> t, owner |-> p] : t \in Range(texts)}
    BY <2>1 DEF Range
  <2>5. {[text |-> t, owner |-> p] : t \in Range(texts)} \subseteq Range(new)
    <3>1. \A t \in Range(texts) : \E i \in 1..N : t = texts[i]
      BY <1>1 DEF Range
    <3> QED
      BY <2>3, <3>1
  <2> QED
    BY <2>2, <2>4, <2>5
<1>9. ASSUME NEW t, t \notin Range(texts) PROVE Places(new, t) = Places(vec, t)
  <2>1. \A i \in 1..N : texts[i] # t
    BY <1>1, <1>9 DEF Range
  <2>2. ASSUME NEW i \in Places(new, t) PROVE i \in Places(vec, t)
    <3>1. i \in 1..M \/ (i - M \in 1..N /\ new[i] = [text |-> texts[i - M], owner |-> p])
      BY <1>6, <1>7 DEF Places
    <3>2. new[i].text = t
      BY DEF Places
    <3>3. i \in 1..M
      BY <2>1, <3>1, <3>2
    <3> QED
      BY <1>1, <1>5, <3>2, <3>3 DEF Places
  <2>3. Places(vec, t) \subseteq Places(new, t)
    BY <1>1, <1>5 DEF Places
  <2> QED
    BY <2>2, <2>3
<1>10. ASSUME NEW t, Count(vec, t) = 0 PROVE Count(new, t) <= Times(texts, t)
  <2> DEFINE S == Places(new, t)
             T == {k \in DOMAIN texts : texts[k] = t}
             f == [i \in S |-> i - M]
  <2>1. Places(vec, t) = {}
    BY <1>10, PlacesFinite
  <2>2. ASSUME NEW i \in S PROVE i - M \in T /\ i \in Nat
    <3>1. i \in DOMAIN new /\ new[i].text = t /\ i \in Nat
      BY <1>4 DEF Places
    <3>2. i \notin 1..M
      BY <1>1, <1>5, <2>1, <3>1 DEF Places
    <3>3. i - M \in 1..N /\ new[i] = [text |-> texts[i - M], owner |-> p]
      BY <1>6, <1>7, <3>1, <3>2
    <3> QED
      BY <1>1, <3>1, <3>3
  <2>3. f \in [S -> T] /\ \A i, j \in S : f[i] = f[j] => i = j
    BY <1>1, <2>2
  <2>4. IsFiniteSet(T)
    <3>1. T \in SUBSET (1..N)
      BY <1>1
    <3> HIDE DEF T
    <3>2. IsFiniteSet(1..N)
      BY <1>1, FS_Interval
    <3> QED
      BY <3>1, <3>2, FS_Subset
  <2> HIDE DEF f, T
  <2>5. f \in Injection(S, T)
    BY <2>3 DEF Injection, IsInjective
  <2> QED
    BY <2>4, <2>5, FS_Injection DEF Count, Times, T
<1> QED
  BY <1>4, <1>8, <1>9, <1>10 DEF Count

LEMMA AddOne ==
  ASSUME NEW vec \in Seq(Entry), NEW p \in Plugins, NEW new, new = AddCommand(vec, p, p)
  PROVE  /\ new \in Seq(Entry) /\ Range(new) = Range(vec) \cup {[text |-> p, owner |-> p]}
         /\ \A t : t # p => Count(new, t) = Count(vec, t)
         /\ Count(vec, p) = 0 => Count(new, p) <= 1
<1> DEFINE e == [text |-> p, owner |-> p]
           M == Len(vec)
<1>1. e \in Entry /\ e.text = p
  BY DEF Entry
<1>2. new = Append(vec, e)
  BY DEF AddCommand
<1> HIDE DEF e
<1>3. /\ new \in Seq(Entry) /\ M \in Nat /\ DOMAIN new = 1..(M + 1) /\ new[M + 1] = e
      /\ DOMAIN vec = 1..M /\ \A i \in 1..M : new[i] = vec[i]
  BY <1>1, <1>2
<1>4. ASSUME NEW t PROVE Places(new, t) = Places(vec, t) \cup (IF t = p THEN {M + 1} ELSE {})
  BY <1>1, <1>3 DEF Places
<1>5. Count(vec, p) = 0 => Count(new, p) <= 1
  <2> SUFFICES ASSUME Count(vec, p) = 0 PROVE Count(new, p) = 1
    OBVIOUS
  <2>1. Places(new, p) = {M + 1}
    BY <1>4, PlacesFinite
  <2> QED
    BY <2>1, FS_Singleton DEF Count
<1>6. \A t : t # p => Places(new, t) = Places(vec, t)
  BY <1>4
<1>7. Range(new) = Range(vec) \cup {e}
  BY <1>1, <1>2, RangeAppend
<1> QED
  BY <1>3, <1>5, <1>6, <1>7 DEF Count, e

(****************************************************************************)
(* What the libraries in memory, the vector of loaded plugins, their        *)
(* configurations and the vectors of commands have to do with each other.   *)
(****************************************************************************)
Loads ==
  /\ refs \in [Plugins -> 0..MaxRefs]
  /\ config = [p \in Plugins |-> config[p]]
  /\ \A p \in Plugins : config[p] = None \/ config[p] \in Contents[p] \ {Unreadable}
  /\ loaded \in Seq(Plugins) /\ IsInjective(loaded)
  /\ \A p \in Plugins : IsLoaded(p) => refs[p] > 0 /\ config[p] # None

(* A command is one its owner may be given; if no other plugin may be given *)
(* it, the owner is in memory.                                              *)
Rightful(e) == e.text \in TextsOf(e.owner)
Mapped(e)   == e.text \in OwnTexts(e.owner) => refs[e.owner] > 0

Owners ==
  /\ chat \in Seq(Entry) /\ console \in Seq(Entry)
  /\ \A e \in Range(chat) : Rightful(e) /\ Mapped(e)
  /\ \A e \in Range(console) :
        e.text = e.owner /\ refs[e.owner] > 0 /\ config[e.owner] # None

(* A plugin whose library will be freed by its next unload has no command   *)
(* of its own more often than its configuration lists it, so that unload    *)
(* removes all; commands that a failed start left behind belong to a        *)
(* library that stays.                                                      *)
Listed ==
  \A p \in Plugins : refs[p] = 1 /\ IsLoaded(p) =>
    /\ \A t \in OwnTexts(p) : Count(chat, t) <= Times(config[p].texts, t)
    /\ Count(console, p) <= 1

MemoryInv == Loads /\ Owners /\ Listed

(* The walk over the directories loads a plugin only when nothing of it is  *)
(* mapped.                                                                  *)
Walked == IF pc \in {"copy", "remove", "load"} THEN todo \cup {cur} ELSE todo

WalkInv ==
  /\ pc \in {"idle", "visit", "copy", "remove", "load"}
  /\ todo \subseteq Plugins /\ starting \in BOOLEAN /\ sound \in BOOLEAN
  /\ pc \in {"copy", "remove", "load"} => cur \in Plugins \ todo
  /\ pc = "idle" => ~starting
  /\ starting => \A p \in Walked : refs[p] = 0
  /\ pc \in {"remove", "load"} => refs[cur] = 0

FilesInv ==
  /\ file = [p \in Plugins |-> file[p]]
  /\ \A p \in Plugins : file[p] \in Contents[p]

HostInv == MemoryInv /\ WalkInv /\ FilesInv

(* A readable configuration lists commands of its plugin only.              *)
LEMMA ItsTexts ==
  ASSUME NEW p \in Plugins, NEW c \in Contents[p] \ {Unreadable}
  PROVE  /\ c.texts \in Seq(STRING) /\ c.throws \in BOOLEAN /\ c # None
         /\ Range(c.texts) \subseteq TextsOf(p)
<1>1. c # None /\ c \in [texts : Seq(STRING), throws : BOOLEAN]
  BY ContentsAssumption
<1> QED
  BY <1>1 DEF TextsOf

LEMMA Apart ==
  ASSUME NEW p \in Plugins, NEW q \in Plugins, p # q, NEW c \in Contents[q] \ {Unreadable}
  PROVE  \A t \in OwnTexts(p) : t \notin Range(c.texts)
<1>1. OwnTexts(p) \cap TextsOf(q) = {}
  BY DEF OwnTexts
<1> QED
  BY <1>1, ItsTexts

(* The vector of loaded plugins.                                            *)
LEMMA LoadedMore ==
  ASSUME NEW s \in Seq(Plugins), IsInjective(s), NEW p \in Plugins, ~Contains(s, p)
  PROVE  /\ Append(s, p) \in Seq(Plugins) /\ IsInjective(Append(s, p))
         /\ \A q : Contains(Append(s, p), q) <=> Contains(s, q) \/ q = p
<1>1. /\ Append(s, p) \in Seq(Plugins) /\ Len(Append(s, p)) = Len(s) + 1 /\ Len(s) \in Nat
      /\ DOMAIN s = 1..Len(s) /\ DOMAIN Append(s, p) = 1..(Len(s) + 1)
      /\ Append(s, p)[Len(s) + 1] = p /\ \A i \in 1..Len(s) : Append(s, p)[i] = s[i]
  OBVIOUS
<1> DEFINE new == Append(s, p)
<1> HIDE DEF new
<1>2. IsInjective(new)
  BY <1>1 DEF Contains, IsInjective, new
<1>3. \A q : Contains(new, q) <=> Contains(s, q) \/ q = p
  BY <1>1 DEF Contains, new
<1> QED
  BY <1>1, <1>2, <1>3 DEF new

LEMMA LoadedLess ==
  ASSUME NEW s \in Seq(Plugins), IsInjective(s), NEW p \in Plugins, Contains(s, p)
  PROVE  /\ RemoveFirst(s, p) \in Seq(Plugins) /\ IsInjective(RemoveFirst(s, p))
         /\ \A q : Contains(RemoveFirst(s, p), q) <=> Contains(s, q) /\ q # p
<1> DEFINE I == {i \in 1..Len(s) : s[i] = p}
           new == RemoveFirst(s, p)
<1>1. PICK k \in 1..Len(s) : s[k] = p
  BY DEF Contains
<1>2. Len(s) \in Nat /\ DOMAIN s = 1..Len(s)
  OBVIOUS
<1>3. I = {k}
  BY <1>1, <1>2 DEF IsInjective
<1>4. SelectInSeq(s, LAMBDA v : v = p) = k
  BY <1>1, <1>2, <1>3 DEF SelectInSeq, Min
<1>5. new = RemoveAt(s, k)
  BY <1>1, <1>4 DEF RemoveFirst
<1>6. /\ new \in Seq(Plugins) /\ DOMAIN new = 1..(Len(s) - 1) /\ Len(new) = Len(s) - 1
      /\ \A j \in 1..(Len(s) - 1) : new[j] = IF j < k THEN s[j] ELSE s[j + 1]
  <2>1. /\ RemoveAt(s, k) \in Seq(Plugins) /\ Len(RemoveAt(s, k)) = Len(s) - 1
        /\ \A j \in 1..(Len(s) - 1) : RemoveAt(s, k)[j] = IF j < k THEN s[j] ELSE s[j + 1]
    BY <1>1, RemoveAtShifts
  <2> QED
    BY <1>5, <2>1
<1> HIDE DEF new
<1>7. ASSUME NEW i \in DOMAIN new, NEW j \in DOMAIN new, new[i] = new[j] PROVE i = j
  <2> DEFINE a == IF i < k THEN i ELSE i + 1
             b == IF j < k THEN j ELSE j + 1
  <2>1. a \in DOMAIN s /\ b \in DOMAIN s /\ new[i] = s[a] /\ new[j] = s[b]
    BY <1>1, <1>2, <1>6
  <2>2. a = b
    BY <1>7, <2>1 DEF IsInjective
  <2> QED
    BY <1>1, <1>2, <1>6, <2>2
<1>8. ASSUME NEW q, Contains(new, q) PROVE Contains(s, q) /\ q # p
  <2>1. PICK j \in 1..(Len(s) - 1) : new[j] = q
    BY <1>6, <1>8 DEF Contains
  <2>2. PICK a \in 1..Len(s) : a # k /\ s[a] = q
    BY <1>1, <1>2, <1>6, <2>1
  <2> QED
    BY <1>1, <1>2, <2>2 DEF Contains, IsInjective
<1>9. ASSUME NEW q, Contains(s, q), q # p PROVE Contains(new, q)
  <2>1. PICK a \in 1..Len(s) : s[a] = q
    BY <1>9 DEF Contains
  <2>2. a < k \/ a > k
    BY <1>1, <1>2, <1>9, <2>1
  <2>3. CASE a < k
    <3>1. a \in 1..(Len(s) - 1) /\ new[a] = s[a]
      BY <1>1, <1>2, <1>6, <2>3
    <3> QED
      BY <1>6, <2>1, <3>1 DEF Contains
  <2>4. CASE a > k
    <3>1. a - 1 \in 1..(Len(s) - 1) /\ ~(a - 1 < k) /\ (a - 1) + 1 = a
      BY <1>1, <1>2, <2>4
    <3>2. new[a - 1] = s[a]
      BY <1>6, <3>1
    <3> QED
      BY <1>6, <2>1, <3>1, <3>2 DEF Contains
  <2> QED
    BY <2>2, <2>3, <2>4
<1> QED
  BY <1>6, <1>7, <1>8, <1>9 DEF IsInjective, new

(****************************************************************************)
(* Loading, unloading and Reload keep MemoryInv.                            *)
(****************************************************************************)
(* Nobody else's texts are among a plugin's entries.                        *)
LEMMA NoneLeft ==
  ASSUME MemoryInv, NEW p \in Plugins, refs[p] = 0
  PROVE  /\ \A t \in OwnTexts(p) : Count(chat, t) = 0
         /\ Count(console, p) = 0
<1> USE DEF MemoryInv, Owners
<1>1. ASSUME NEW t \in OwnTexts(p) PROVE Places(chat, t) = {}
  <2> SUFFICES ASSUME NEW i \in DOMAIN chat, chat[i].text = t PROVE FALSE
    BY DEF Places
  <2>1. chat[i] \in Range(chat) /\ chat[i] \in Entry
    BY DEF Range
  <2>2. chat[i].owner \in Plugins /\ t \in TextsOf(chat[i].owner) /\ Mapped(chat[i])
    BY <2>1 DEF Entry, Rightful
  <2>3. chat[i].owner = p
    BY <2>2 DEF OwnTexts
  <2> QED
    BY <2>2, <2>3 DEF Mapped
<1>2. Places(console, p) = {}
  <2> SUFFICES ASSUME NEW i \in DOMAIN console, console[i].text = p PROVE FALSE
    BY DEF Places
  <2>1. console[i] \in Range(console)
    BY DEF Range
  <2> QED
    BY <2>1
<1> QED
  BY <1>1, <1>2, PlacesFinite

LEMMA MemorySame == MemoryInv /\ UNCHANGED memory => MemoryInv'
<1> SUFFICES ASSUME MemoryInv, UNCHANGED <<refs, config, loaded, chat, console>>
             PROVE  MemoryInv'
  BY DEF memory
<1>1. Loads'
  BY DEF MemoryInv, Loads, IsLoaded, IsInjective
<1>2. Owners'
  BY DEF MemoryInv, Owners, Mapped, Rightful
<1>3. Listed'
  BY DEF MemoryInv, Listed, IsLoaded, Count, Places
<1> QED
  BY <1>1, <1>2, <1>3 DEF MemoryInv

(* Entries stay in order where no library is freed.                         *)
LEMMA OwnersStay ==
  ASSUME MemoryInv, chat' \in Seq(Entry), console' \in Seq(Entry),
         \A q \in Plugins : refs[q] > 0 => refs'[q] > 0,
         \A q \in Plugins : config[q] # None => config'[q] # None,
         \A e \in Range(chat') :
           e \in Range(chat) \/ (e.text \in TextsOf(e.owner) /\ refs'[e.owner] > 0),
         \A e \in Range(console') :
           \/ e \in Range(console)
           \/ e.text = e.owner /\ refs'[e.owner] > 0 /\ config'[e.owner] # None
  PROVE  Owners'
<1>1. \A e \in Range(chat) \cup Range(console) : e.owner \in Plugins
  <2>1. Range(chat) \subseteq Entry /\ Range(console) \subseteq Entry
    BY EntriesTyped DEF MemoryInv, Owners
  <2> QED
    BY <2>1 DEF Entry
<1>2. ASSUME NEW e \in Range(chat')
      PROVE  Rightful(e) /\ (e.text \in OwnTexts(e.owner) => refs'[e.owner] > 0)
  BY <1>1 DEF MemoryInv, Owners, Rightful, Mapped
<1>3. ASSUME NEW e \in Range(console')
      PROVE  e.text = e.owner /\ refs'[e.owner] > 0 /\ config'[e.owner] # None
  BY <1>1 DEF MemoryInv, Owners
<1> QED
  BY <1>2, <1>3 DEF Owners, Rightful, Mapped

LEMMA LoadKeeps ==
  ASSUME MemoryInv, NEW p \in Plugins, LoadPlugin(p), file[p] \in Contents[p],
         IsLoaded(p) \/ refs[p] < MaxRefs
  PROVE  MemoryInv'
<1>1. CASE UNCHANGED memory
  BY <1>1, MemorySame
<1>2. CASE ~(UNCHANGED memory)
  <2> DEFINE c == file[p]
  <2>1. /\ ~IsLoaded(p) /\ refs' = [refs EXCEPT ![p] = @ + 1]
        /\ refs[p] \in 0..MaxRefs /\ refs[p] < MaxRefs
    BY <1>2 DEF LoadPlugin, MemoryInv, Loads
  <2>2. /\ refs' \in [Plugins -> 0..MaxRefs] /\ refs'[p] = refs[p] + 1
        /\ \A q \in Plugins : q # p => refs'[q] = refs[q]
    BY <2>1 DEF MemoryInv, Loads
  <2>3. CASE c = Unreadable
    <3>1. UNCHANGED <<config, chat, console, loaded>>
      BY <1>2, <2>1, <2>3 DEF LoadPlugin
    <3>2. Loads'
      BY <2>1, <2>2, <3>1 DEF MemoryInv, Loads, IsLoaded
    <3>3. Owners'
      <4>1. \A q \in Plugins : refs[q] > 0 => refs'[q] > 0
        BY <2>1, <2>2
      <4> QED
        BY <3>1, <4>1, OwnersStay DEF MemoryInv, Owners
    <3>4. Listed'
      BY <2>1, <2>2, <3>1 DEF MemoryInv, Listed, IsLoaded, Count, Places
    <3> QED
      BY <3>2, <3>3, <3>4 DEF MemoryInv
  <2>4. CASE c # Unreadable
    <3>1. /\ config' = [config EXCEPT ![p] = c] /\ chat' = AddAll(chat, c.texts, p)
          /\ IF c.throws THEN UNCHANGED <<console, loaded>>
             ELSE /\ console' = AddCommand(console, p, p)
                  /\ loaded' = Append(loaded, p) \/ UNCHANGED loaded
      BY <1>2, <2>1, <2>4 DEF LoadPlugin
    <3>2. c \in Contents[p] \ {Unreadable} /\ c.texts \in Seq(STRING) /\ c # None
          /\ Range(c.texts) \subseteq TextsOf(p)
      BY <2>4, ItsTexts
    <3> HIDE DEF c
    <3>3. /\ config' = [q \in Plugins |-> config'[q]] /\ config'[p] = c
          /\ \A q \in Plugins : q # p => config'[q] = config[q]
      BY <3>1 DEF MemoryInv, Loads
    <3>4. /\ loaded' \in Seq(Plugins) /\ IsInjective(loaded)'
          /\ \A q \in Plugins : q # p => (IsLoaded(q)' <=> IsLoaded(q))
      <4>1. CASE UNCHANGED loaded
        BY <2>1, <3>1, <4>1 DEF MemoryInv, Loads, IsLoaded, IsInjective
      <4>2. CASE ~c.throws /\ loaded' # loaded
        <5>1. /\ loaded' = Append(loaded, p) /\ loaded \in Seq(Plugins) /\ IsInjective(loaded)
              /\ ~Contains(loaded, p)
          BY <2>1, <3>1, <4>2 DEF MemoryInv, Loads, IsLoaded
        <5>2. /\ Append(loaded, p) \in Seq(Plugins) /\ IsInjective(Append(loaded, p))
              /\ \A q : Contains(Append(loaded, p), q) <=> Contains(loaded, q) \/ q = p
          BY <5>1, LoadedMore
        <5>3. IsInjective(loaded)'
          BY <5>1, <5>2 DEF IsInjective
        <5> QED
          BY <4>2, <5>1, <5>2, <5>3 DEF IsLoaded
      <4> QED
        BY <3>1, <4>1, <4>2
    <3>5. Loads'
      <4>1. ASSUME NEW q \in Plugins
            PROVE  /\ config'[q] = None \/ config'[q] \in Contents[q] \ {Unreadable}
                   /\ IsLoaded(q)' => refs'[q] > 0 /\ config'[q] # None
        <5>1. CASE q = p
          BY <2>1, <2>2, <3>2, <3>3, <5>1
        <5>2. CASE q # p
          BY <2>2, <3>3, <3>4, <5>2 DEF MemoryInv, Loads
        <5> QED
          BY <5>1, <5>2
      <4> QED
        BY <2>2, <3>3, <3>4, <4>1 DEF Loads
    <3>6. /\ chat' \in Seq(Entry)
          /\ Range(chat') = Range(chat) \cup {[text |-> t, owner |-> p] : t \in Range(c.texts)}
          /\ \A t : t \notin Range(c.texts) => Count(chat', t) = Count(chat, t)
          /\ \A t : Count(chat, t) = 0 => Count(chat', t) <= Times(c.texts, t)
      BY <3>1, <3>2, AddMany DEF MemoryInv, Owners
    <3>7. /\ console' \in Seq(Entry)
          /\ Range(console') \subseteq Range(console) \cup {[text |-> p, owner |-> p]}
          /\ \A t : t # p => Count(console', t) = Count(console, t)
          /\ Count(console, p) = 0 => Count(console', p) <= 1
      <4>1. CASE c.throws
        BY <3>1, <4>1 DEF MemoryInv, Owners, Count, Places
      <4>2. CASE ~c.throws
        BY <3>1, <4>2, AddOne DEF MemoryInv, Owners
      <4> QED
        BY <4>1, <4>2
    <3>8. Owners'
      <4>1. refs'[p] > 0 /\ \A q \in Plugins : refs[q] > 0 => refs'[q] > 0
        BY <2>1, <2>2
      <4>2. ASSUME NEW e \in Range(chat'), e \notin Range(chat)
            PROVE  e.text \in TextsOf(e.owner) /\ refs'[e.owner] > 0
        BY <3>2, <3>6, <4>1, <4>2
      <4>3. ASSUME NEW e \in Range(console'), e \notin Range(console)
            PROVE  e.text = e.owner /\ refs'[e.owner] > 0 /\ config'[e.owner] # None
        BY <3>2, <3>3, <3>7, <4>1, <4>3
      <4>4. \A q \in Plugins : config[q] # None => config'[q] # None
        BY <3>2, <3>3
      <4> QED
        BY <3>6, <3>7, <4>1, <4>2, <4>3, <4>4, OwnersStay
    <3>9. ASSUME NEW q \in Plugins, refs'[q] = 1, IsLoaded(q)', NEW t \in OwnTexts(q)
          PROVE  Count(chat', t) <= Times(config'[q].texts, t)
      <4>1. CASE q = p
        <5>1. refs[p] = 0
          BY <2>1, <2>2, <3>9, <4>1
        <5>2. Count(chat, t) = 0
          BY <3>9, <4>1, <5>1, NoneLeft
        <5> QED
          BY <3>3, <3>6, <4>1, <5>2
      <4>2. CASE q # p
        <5>1. refs[q] = 1 /\ IsLoaded(q) /\ config'[q] = config[q]
          BY <2>2, <3>3, <3>4, <3>9, <4>2
        <5>2. t \notin Range(c.texts)
          BY <3>2, <3>9, <4>2, Apart
        <5>3. Count(chat, t) <= Times(config[q].texts, t)
          BY <3>9, <5>1 DEF MemoryInv, Listed
        <5> QED
          BY <3>6, <5>1, <5>2, <5>3
      <4> QED
        BY <4>1, <4>2
    <3>10. ASSUME NEW q \in Plugins, refs'[q] = 1, IsLoaded(q)' PROVE Count(console', q) <= 1
      <4>1. CASE q = p
        <5>1. Count(console, p) = 0
          BY <2>1, <2>2, <3>10, <4>1, NoneLeft
        <5> QED
          BY <3>7, <4>1, <5>1
      <4>2. CASE q # p
        <5>1. refs[q] = 1 /\ IsLoaded(q) /\ Count(console', q) = Count(console, q)
          BY <2>2, <3>4, <3>7, <3>10, <4>2
        <5> QED
          BY <5>1 DEF MemoryInv, Listed
      <4> QED
        BY <4>1, <4>2
    <3>11. Listed'
      BY <3>9, <3>10 DEF Listed, Count, Places
    <3> QED
      BY <3>5, <3>8, <3>11 DEF MemoryInv
  <2> QED
    BY <2>3, <2>4
<1> QED
  BY <1>1, <1>2

LEMMA UnloadKeeps ==
  ASSUME MemoryInv, NEW p \in Plugins, IsLoaded(p), UnloadPlugin(p)
  PROVE  MemoryInv'
<1> DEFINE c == config[p]
<1>1. c \in Contents[p] \ {Unreadable} /\ refs[p] \in 1..MaxRefs
  BY DEF MemoryInv, Loads
<1>2. c.texts \in Seq(STRING) /\ Range(c.texts) \subseteq TextsOf(p)
  BY <1>1, ItsTexts
<1>3. /\ chat' = RemoveAll(chat, c.texts)
      /\ IF c.throws THEN UNCHANGED <<refs, config, loaded, console>>
         ELSE /\ console' = RemoveCommand(console, p)
              /\ refs' = [refs EXCEPT ![p] = @ - 1]
              /\ config' = [config EXCEPT ![p] = IF refs[p] = 1 THEN None ELSE @]
              /\ loaded' = RemoveFirst(loaded, p)
  BY DEF UnloadPlugin
<1> HIDE DEF c
<1>4. /\ chat' \in Seq(Entry) /\ Range(chat') \subseteq Range(chat)
      /\ \A t : Count(chat', t) <= Count(chat, t)
      /\ \A t : Count(chat, t) <= Times(c.texts, t) => Count(chat', t) = 0
  BY <1>2, <1>3, RemoveMany DEF MemoryInv, Owners
<1>5. \A t : Count(chat, t) \in Nat /\ Count(console, t) \in Nat /\ Count(chat', t) \in Nat
  BY <1>4, PlacesFinite DEF MemoryInv, Owners
<1>6. CASE c.throws
  <2>1. UNCHANGED <<refs, config, loaded, console>>
    BY <1>3, <1>6
  <2>2. Loads'
    BY <2>1 DEF MemoryInv, Loads, IsLoaded, IsInjective
  <2>3. Owners'
    BY <1>4, <2>1, OwnersStay DEF MemoryInv, Owners
  <2>4. ASSUME NEW q \in Plugins, refs'[q] = 1, IsLoaded(q)', NEW t \in OwnTexts(q)
        PROVE  Count(chat', t) <= Times(config'[q].texts, t)
    <3>1. Count(chat, t) <= Times(config[q].texts, t) /\ Count(chat', t) <= Count(chat, t)
      BY <1>4, <2>1, <2>4 DEF MemoryInv, Listed, IsLoaded
    <3>2. Count(chat, t) <= Times(c.texts, t) => Count(chat', t) = 0
      BY <1>4
    <3>3. CASE q = p
      <4>1. Times(c.texts, t) \in Nat
        BY <1>2, TimesNat
      <4>2. Count(chat', t) = 0 /\ config'[q] = c
        BY <2>1, <3>1, <3>2, <3>3 DEF c
      <4> QED
        BY <4>1, <4>2
    <3>4. CASE q # p
      <4>1. config[q] \in Contents[q] \ {Unreadable}
        BY <2>1, <2>4 DEF MemoryInv, Loads, IsLoaded
      <4>2. Times(config[q].texts, t) \in Nat
        BY <4>1, ItsTexts, TimesNat
      <4> QED
        BY <1>5, <2>1, <3>1, <4>2
    <3> QED
      BY <3>3, <3>4
  <2>5. Listed'
    BY <2>1, <2>4 DEF MemoryInv, Listed, Count, Places, IsLoaded
  <2> QED
    BY <2>2, <2>3, <2>5 DEF MemoryInv
<1>7. CASE ~c.throws
  <2>1. /\ refs' \in [Plugins -> 0..MaxRefs] /\ refs'[p] = refs[p] - 1
        /\ \A q \in Plugins : q # p => refs'[q] = refs[q]
    <3>1. /\ refs' = [refs EXCEPT ![p] = refs[p] - 1] /\ refs \in [Plugins -> 0..MaxRefs]
          /\ refs[p] - 1 \in 0..MaxRefs
      BY <1>1, <1>3, <1>7 DEF MemoryInv, Loads
    <3> QED
      BY <3>1
  <2>2. /\ config' = [q \in Plugins |-> config'[q]] /\ config'[p] \in {c, None}
        /\ \A q \in Plugins : q # p => config'[q] = config[q]
    BY <1>3, <1>7 DEF MemoryInv, Loads, c
  <2>3. /\ loaded' \in Seq(Plugins) /\ IsInjective(loaded)'
        /\ \A q \in Plugins : IsLoaded(q)' <=> IsLoaded(q) /\ q # p
    <3>1. /\ loaded' = RemoveFirst(loaded, p) /\ loaded \in Seq(Plugins) /\ IsInjective(loaded)
          /\ Contains(loaded, p)
      BY <1>3, <1>7 DEF MemoryInv, Loads, IsLoaded
    <3>2. /\ RemoveFirst(loaded, p) \in Seq(Plugins) /\ IsInjective(RemoveFirst(loaded, p))
          /\ \A q : Contains(RemoveFirst(loaded, p), q) <=> Contains(loaded, q) /\ q # p
      BY <3>1, LoadedLess
    <3>3. IsInjective(loaded)'
      BY <3>1, <3>2 DEF IsInjective
    <3> QED
      BY <3>1, <3>2, <3>3 DEF IsLoaded
  <2>4. Loads'
    <3>1. ASSUME NEW q \in Plugins
          PROVE  /\ config'[q] = None \/ config'[q] \in Contents[q] \ {Unreadable}
                 /\ IsLoaded(q)' => refs'[q] > 0 /\ config'[q] # None
      <4>1. CASE q = p
        BY <1>1, <2>2, <2>3, <4>1
      <4>2. CASE q # p
        BY <2>1, <2>2, <2>3, <4>2 DEF MemoryInv, Loads
      <4> QED
        BY <4>1, <4>2
    <3> QED
      BY <2>1, <2>2, <2>3, <3>1 DEF Loads
  <2>5. /\ console' \in Seq(Entry) /\ Range(console') \subseteq Range(console)
        /\ \A t : Count(console', t) <= Count(console, t)
        /\ Count(console, p) > 0 => Count(console', p) <= Count(console, p) - 1
    BY <1>3, <1>7, RemoveOne DEF MemoryInv, Owners
  <2>6. \A t : Count(console', t) \in Nat
    BY <2>5, PlacesFinite
  <2>7. refs[p] = 1 => Count(console', p) = 0
    <3>1. refs[p] = 1 => Count(console, p) <= 1
      BY DEF MemoryInv, Listed
    <3> QED
      BY <1>5, <2>5, <2>6, <3>1
  <2>8. refs[p] = 1 => \A t \in OwnTexts(p) : Count(chat', t) = 0
    BY <1>4 DEF MemoryInv, Listed, c
  <2>9. Owners'
    <3>1. ASSUME NEW e \in Range(chat')
          PROVE  Rightful(e) /\ (e.text \in OwnTexts(e.owner) => refs'[e.owner] > 0)
      <4>1. e \in Entry /\ Rightful(e) /\ (e.text \in OwnTexts(e.owner) => refs[e.owner] > 0)
        <5>1. e \in Range(chat) /\ Range(chat) \subseteq Entry
          BY <1>4, EntriesTyped DEF MemoryInv, Owners
        <5> QED
          BY <5>1 DEF MemoryInv, Owners, Mapped
      <4>2. e.owner \in Plugins /\ refs[e.owner] \in 0..MaxRefs
        BY <4>1 DEF Entry, MemoryInv, Loads
      <4>3. CASE e.owner # p
        BY <2>1, <4>1, <4>2, <4>3
      <4>4. CASE e.owner = p /\ refs[p] # 1
        BY <1>1, <2>1, <4>1, <4>4
      <4>5. CASE e.owner = p /\ refs[p] = 1
        <5>1. SUFFICES ASSUME e.text \in OwnTexts(p) PROVE FALSE
          BY <4>1, <4>5
        <5>2. Count(chat', e.text) = 0
          BY <2>8, <4>5, <5>1
        <5>3. Places(chat', e.text) = {}
          BY <1>4, <5>2, PlacesFinite
        <5> QED
          BY <5>3 DEF Places, Range
      <4> QED
        BY <4>3, <4>4, <4>5
    <3>2. ASSUME NEW e \in Range(console')
          PROVE  e.text = e.owner /\ refs'[e.owner] > 0 /\ config'[e.owner] # None
      <4>1. e \in Entry /\ e.text = e.owner /\ refs[e.owner] > 0 /\ config[e.owner] # None
        <5>1. e \in Range(console) /\ Range(console) \subseteq Entry
          BY <2>5, EntriesTyped DEF MemoryInv, Owners
        <5> QED
          BY <5>1 DEF MemoryInv, Owners
      <4>2. CASE e.owner # p
        BY <2>1, <2>2, <4>1, <4>2 DEF Entry
      <4>3. CASE e.owner = p
        <5>1. refs[p] # 1
          <6> SUFFICES ASSUME refs[p] = 1 PROVE FALSE
            OBVIOUS
          <6>1. Places(console', p) = {}
            BY <2>5, <2>7, PlacesFinite
          <6> QED
            BY <4>1, <4>3, <6>1 DEF Places, Range
        <5>2. config'[p] = config[p]
          BY <1>3, <1>7, <5>1 DEF MemoryInv, Loads
        <5> QED
          BY <1>1, <2>1, <4>1, <4>3, <5>1, <5>2
      <4> QED
        BY <4>2, <4>3
    <3> QED
      BY <1>4, <2>5, <3>1, <3>2 DEF Owners, Mapped
  <2>10. ASSUME NEW q \in Plugins, refs'[q] = 1, IsLoaded(q)', NEW t \in OwnTexts(q)
         PROVE  Count(chat', t) <= Times(config'[q].texts, t)
    <3>1. q # p /\ refs[q] = 1 /\ IsLoaded(q) /\ config'[q] = config[q]
      BY <2>1, <2>2, <2>3, <2>10
    <3>2. Count(chat, t) <= Times(config[q].texts, t) /\ Count(chat', t) <= Count(chat, t)
      BY <1>4, <3>1 DEF MemoryInv, Listed
    <3>3. config[q] \in Contents[q] \ {Unreadable}
      BY <3>1 DEF MemoryInv, Loads
    <3>4. Times(config[q].texts, t) \in Nat
      BY <3>3, ItsTexts, TimesNat
    <3> QED
      BY <1>5, <3>1, <3>2, <3>4
  <2>11. ASSUME NEW q \in Plugins, refs'[q] = 1, IsLoaded(q)' PROVE Count(console', q) <= 1
    <3>1. q # p /\ refs[q] = 1 /\ IsLoaded(q)
      BY <2>1, <2>3, <2>11
    <3>2. Count(console, q) <= 1 /\ Count(console', q) <= Count(console, q)
      BY <2>5, <3>1 DEF MemoryInv, Listed
    <3> QED
      BY <1>5, <2>6, <3>2
  <2>12. Listed'
    BY <2>10, <2>11 DEF Listed, Count, Places
  <2> QED
    BY <2>4, <2>9, <2>12 DEF MemoryInv
<1> QED
  BY <1>6, <1>7

(* A Reload command is there only while its plugin has a configuration.     *)
LEMMA ReloadOfConfigured ==
  ASSUME MemoryInv, NEW p \in Plugins, Reload(p)
  PROVE  config[p] # None /\ refs[p] > 0
<1>1. PICK i \in DOMAIN console : console[i].text = p
  BY DEF Reload, Has
<1>2. console[i] \in Range(console)
  BY DEF Range
<1> QED
  BY <1>1, <1>2 DEF MemoryInv, Owners

(* What both outcomes of a Reload do to the memory.                         *)
LEMMA ReloadKeeps ==
  ASSUME MemoryInv, NEW p \in Plugins, Reload(p), file[p] \in Contents[p]
  PROVE  MemoryInv'
<1> DEFINE c == config[p]
           kept == RemoveAll(chat, c.texts)
<1>1. config[p] # None /\ refs[p] > 0
  BY ReloadOfConfigured
<1>2. c \in Contents[p] \ {Unreadable}
  BY <1>1 DEF MemoryInv, Loads
<1>3. c.texts \in Seq(STRING) /\ Range(c.texts) \subseteq TextsOf(p)
  BY <1>2, ItsTexts
<1>4. /\ UNCHANGED <<refs, loaded, console>>
      /\ \/ chat' = kept /\ UNCHANGED config
         \/ /\ file[p] # Unreadable /\ config' = [config EXCEPT ![p] = file[p]]
            /\ chat' = AddAll(kept, file[p].texts, p)
  BY DEF Reload
<1>5. /\ kept \in Seq(Entry) /\ Range(kept) \subseteq Range(chat)
      /\ \A t : Count(kept, t) <= Count(chat, t)
      /\ \A t : Count(chat, t) <= Times(c.texts, t) => Count(kept, t) = 0
  BY <1>3, RemoveMany DEF MemoryInv, Owners
<1> HIDE DEF c, kept
<1>6. \A t : Count(chat, t) \in Nat /\ Count(kept, t) \in Nat
  BY <1>5, PlacesFinite DEF MemoryInv, Owners
<1>7. ASSUME NEW q \in Plugins, refs[q] = 1, IsLoaded(q), NEW t \in OwnTexts(q)
      PROVE  /\ Count(kept, t) <= Times(config[q].texts, t)
             /\ q = p => Count(kept, t) = 0
  <2>1. Count(chat, t) <= Times(config[q].texts, t) /\ Count(kept, t) <= Count(chat, t)
    BY <1>5, <1>7 DEF MemoryInv, Listed
  <2>2. config[q] \in Contents[q] \ {Unreadable}
    BY <1>7 DEF MemoryInv, Loads
  <2>3. Times(config[q].texts, t) \in Nat
    BY <2>2, ItsTexts, TimesNat
  <2>4. q = p => Count(kept, t) = 0
    BY <1>5, <2>1 DEF c
  <2> QED
    BY <1>6, <2>1, <2>3, <2>4
<1>8. CASE chat' = kept /\ UNCHANGED config
  <2>1. Loads'
    BY <1>4, <1>8 DEF MemoryInv, Loads, IsLoaded, IsInjective
  <2>2. Owners'
    BY <1>4, <1>5, <1>8, OwnersStay DEF MemoryInv, Owners
  <2>3. Listed'
    BY <1>4, <1>7, <1>8 DEF MemoryInv, Listed, Count, Places, IsLoaded
  <2> QED
    BY <2>1, <2>2, <2>3 DEF MemoryInv
<1>9. CASE /\ file[p] # Unreadable /\ config' = [config EXCEPT ![p] = file[p]]
           /\ chat' = AddAll(kept, file[p].texts, p)
  <2> DEFINE d == file[p]
  <2>1. d \in Contents[p] \ {Unreadable}
    BY <1>9
  <2>2. d.texts \in Seq(STRING) /\ Range(d.texts) \subseteq TextsOf(p) /\ d # None
    BY <2>1, ItsTexts
  <2>3. /\ config' = [q \in Plugins |-> config'[q]] /\ config'[p] = d
        /\ \A q \in Plugins : q # p => config'[q] = config[q]
    BY <1>9 DEF MemoryInv, Loads
  <2>4. chat' = AddAll(kept, d.texts, p)
    BY <1>9
  <2> HIDE DEF d
  <2>5. /\ chat' \in Seq(Entry)
        /\ Range(chat') = Range(kept) \cup {[text |-> t, owner |-> p] : t \in Range(d.texts)}
        /\ \A t : t \notin Range(d.texts) => Count(chat', t) = Count(kept, t)
        /\ \A t : Count(kept, t) = 0 => Count(chat', t) <= Times(d.texts, t)
    BY <1>5, <2>2, <2>4, AddMany
  <2>6. Loads'
    BY <1>4, <2>1, <2>2, <2>3 DEF MemoryInv, Loads, IsLoaded, IsInjective
  <2>7. Owners'
    <3>1. ASSUME NEW e \in Range(chat'), e \notin Range(chat)
          PROVE  e.text \in TextsOf(e.owner) /\ refs'[e.owner] > 0
      BY <1>1, <1>4, <1>5, <2>2, <2>5, <3>1
    <3>2. \A q \in Plugins : config[q] # None => config'[q] # None
      BY <2>2, <2>3
    <3> QED
      BY <1>4, <2>5, <3>1, <3>2, OwnersStay DEF MemoryInv, Owners
  <2>8. ASSUME NEW q \in Plugins, refs'[q] = 1, IsLoaded(q)', NEW t \in OwnTexts(q)
        PROVE  Count(chat', t) <= Times(config'[q].texts, t)
    <3>1. refs[q] = 1 /\ IsLoaded(q)
      BY <1>4, <2>8 DEF IsLoaded
    <3>2. CASE q = p
      BY <1>7, <2>3, <2>5, <2>8, <3>1, <3>2
    <3>3. CASE q # p
      <4>1. t \notin Range(d.texts)
        BY <2>1, <2>8, <3>3, Apart
      <4> QED
        BY <1>7, <2>3, <2>5, <2>8, <3>1, <3>3, <4>1
    <3> QED
      BY <3>2, <3>3
  <2>9. Listed'
    BY <1>4, <2>8 DEF MemoryInv, Listed, Count, Places, IsLoaded
  <2> QED
    BY <2>6, <2>7, <2>9 DEF MemoryInv
<1> QED
  BY <1>4, <1>8, <1>9

(****************************************************************************)
(* The inductive invariant of the plugin host.                              *)
(****************************************************************************)
LEMMA HostStart == Init => HostInv
<1> SUFFICES ASSUME Init PROVE HostInv
  OBVIOUS
<1>1. /\ chat = << >> /\ console = << >> /\ loaded = << >>
      /\ refs = [p \in Plugins |-> 0] /\ config = [p \in Plugins |-> None]
  BY DEF Init
<1>2. \A p : ~IsLoaded(p)
  BY <1>1 DEF IsLoaded, Contains
<1>3. Loads
  BY <1>1, <1>2 DEF Loads, IsInjective
<1>4. Owners
  BY <1>1 DEF Owners, Range
<1>5. Listed
  BY <1>2 DEF Listed
<1>6. WalkInv
  BY DEF Init, WalkInv, Walked
<1>7. FilesInv
  BY DEF Init, FilesInv
<1> QED
  BY <1>3, <1>4, <1>5, <1>6, <1>7 DEF HostInv, MemoryInv

(* A new process starts as the first one did.                               *)
LEMMA FreshKeeps ==
  ASSUME HostInv, Fresh, UNCHANGED <<file, sound>>
  PROVE  HostInv'
<1>1. /\ chat' = << >> /\ console' = << >> /\ loaded' = << >>
      /\ refs' = [p \in Plugins |-> 0] /\ config' = [p \in Plugins |-> None]
  BY DEF Fresh
<1>2. \A p : ~IsLoaded(p)'
  BY <1>1 DEF IsLoaded, Contains
<1>3. Loads'
  BY <1>1, <1>2 DEF Loads, IsInjective
<1>4. Owners'
  BY <1>1 DEF Owners, Range
<1>5. Listed'
  BY <1>2 DEF Listed
<1>6. WalkInv'
  BY DEF Fresh, HostInv, WalkInv, Walked
<1>7. FilesInv'
  BY DEF HostInv, FilesInv
<1> QED
  BY <1>3, <1>4, <1>5, <1>6, <1>7 DEF HostInv, MemoryInv

(* Only the library of the plugin itself is mapped or freed.                *)
LEMMA OnlyIts ==
  ASSUME MemoryInv, NEW p \in Plugins, LoadPlugin(p) \/ UnloadPlugin(p) \/ UNCHANGED refs
  PROVE  \A q \in Plugins : q # p => refs'[q] = refs[q]
  BY DEF MemoryInv, Loads, LoadPlugin, UnloadPlugin, memory

LEMMA HostStep == HostInv /\ [Next]_vars => HostInv'
<1> SUFFICES ASSUME HostInv, [Next]_vars PROVE HostInv'
  OBVIOUS
<1>1. MemoryInv /\ WalkInv /\ FilesInv
  BY DEF HostInv
<1> USE DEF GoTo, GoOn
<1>2. ASSUME UNCHANGED memory PROVE MemoryInv' /\ UNCHANGED refs
  BY <1>1, <1>2, MemorySame DEF memory
<1>3. ASSUME UNCHANGED file PROVE FilesInv'
  BY <1>1, <1>3 DEF FilesInv
<1>4. ASSUME NEW p \in Plugins, Visit(p) PROVE HostInv'
  <2>1. MemoryInv'
    <3>1. UNCHANGED memory \/ (IsLoaded(p) /\ UnloadPlugin(p))
      BY <1>4 DEF Visit
    <3> QED
      BY <1>1, <1>2, <3>1, UnloadKeeps
  <2>2. WalkInv'
    <3>1. starting => UNCHANGED refs
      BY <1>4 DEF Visit, memory
    <3> QED
      BY <1>1, <1>4, <3>1 DEF Visit, WalkInv, Walked
  <2>3. FilesInv'
    BY <1>3, <1>4 DEF Visit
  <2> QED
    BY <2>1, <2>2, <2>3 DEF HostInv
<1>5. CASE Copy \/ RemoveNew
  <2>1. UNCHANGED memory /\ UNCHANGED file
    BY <1>5 DEF Copy, RemoveNew
  <2>2. WalkInv'
    BY <1>1, <1>2, <1>5, <2>1 DEF Copy, RemoveNew, WalkInv, Walked, MemoryInv, Loads
  <2> QED
    BY <1>2, <1>3, <2>1, <2>2 DEF HostInv
<1>6. CASE Load
  <2>1. /\ pc = "load" /\ LoadPlugin(cur) /\ cur \in Plugins \ todo /\ refs[cur] = 0
        /\ pc' = "visit" /\ UNCHANGED <<file, todo, starting, sound>>
    BY <1>1, <1>6 DEF Load, WalkInv
  <2>2. MemoryInv'
    BY <1>1, <2>1, LoadKeeps DEF FilesInv
  <2>3. \A q \in Plugins : q # cur => refs'[q] = refs[q]
    BY <1>1, <2>1, OnlyIts
  <2>4. WalkInv'
    BY <1>1, <2>1, <2>3 DEF WalkInv, Walked
  <2> QED
    BY <1>3, <2>1, <2>2, <2>4 DEF HostInv
<1>7. CASE EndWalk \/ DetectPluginChanges
  <2>1. UNCHANGED memory /\ UNCHANGED file
    BY <1>7 DEF EndWalk, DetectPluginChanges
  <2>2. WalkInv'
    <3>1. starting' = FALSE /\ sound' = sound
      BY <1>1, <1>7 DEF EndWalk, DetectPluginChanges, WalkInv
    <3>2. pc' \in {"idle", "visit"} /\ todo' \subseteq Plugins
      BY <1>7 DEF EndWalk, DetectPluginChanges
    <3> QED
      BY <1>1, <3>1, <3>2 DEF WalkInv, Walked
  <2> QED
    BY <1>2, <1>3, <2>1, <2>2 DEF HostInv
<1>8. ASSUME NEW p \in Plugins, LoadCommand(p) \/ UnloadCommand(p) \/ Reload(p) PROVE HostInv'
  <2>1. pc = "idle" /\ UNCHANGED <<file, pc, cur, todo, starting, sound>>
    BY <1>8 DEF LoadCommand, UnloadCommand, Reload, thread
  <2>2. MemoryInv'
    <3>1. CASE LoadCommand(p)
      BY <1>1, <3>1, LoadKeeps DEF LoadCommand, FilesInv
    <3>2. CASE UnloadCommand(p)
      BY <1>1, <3>2, UnloadKeeps DEF UnloadCommand
    <3>3. CASE Reload(p)
      BY <1>1, <3>3, ReloadKeeps DEF FilesInv
    <3> QED
      BY <1>8, <3>1, <3>2, <3>3
  <2>3. WalkInv'
    BY <1>1, <2>1 DEF WalkInv, Walked
  <2> QED
    BY <1>3, <2>1, <2>2, <2>3 DEF HostInv
<1>9. ASSUME NEW p \in Plugins, Edit(p) PROVE HostInv'
  <2>1. UNCHANGED memory /\ UNCHANGED <<pc, cur, todo, starting, sound>>
    BY <1>9 DEF Edit, thread
  <2>2. FilesInv'
    BY <1>1, <1>9 DEF Edit, FilesInv
  <2>3. WalkInv'
    BY <1>1, <1>2, <2>1 DEF WalkInv, Walked
  <2> QED
    BY <1>2, <2>1, <2>2, <2>3 DEF HostInv
<1>10. ASSUME (\E p \in Plugins : Deliver(p)) \/ Settle \/ UNCHANGED vars PROVE HostInv'
  <2>1. /\ UNCHANGED memory /\ UNCHANGED <<file, pc, cur, todo, starting>>
        /\ sound' \in {sound, TRUE}
    BY <1>10 DEF Deliver, Settle, vars, thread
  <2>2. WalkInv'
    BY <1>1, <1>2, <2>1 DEF WalkInv, Walked
  <2> QED
    BY <1>2, <1>3, <2>1, <2>2 DEF HostInv
<1>11. CASE Die
  BY <1>11, FreshKeeps DEF Die
<1> QED
  BY <1>4, <1>5, <1>6, <1>7, <1>8, <1>9, <1>10, <1>11 DEF Next

LEMMA HostInductive == Spec => []HostInv
  BY HostStart, HostStep, PTL DEF Spec

(* Every variable keeps its type; a plugin is loaded once, from a library   *)
(* that is mapped and whose configuration was read.                         *)
THEOREM HostTyped == Spec => []TypeOK
<1>1. UpdateInv /\ HostInv => TypeOK
  <2> SUFFICES ASSUME UpdateInv, HostInv PROVE TypeOK
    OBVIOUS
  <2>1. MemoryInv /\ WalkInv /\ FilesInv /\ Versions
    BY DEF HostInv, UpdateInv
  <2>2. \A i \in DOMAIN loaded : refs[loaded[i]] > 0 /\ config[loaded[i]] # None
    BY <2>1 DEF MemoryInv, Loads, IsLoaded, Contains
  <2>3. Commanded(chat) /\ Commanded(console)
    <3>1. \A vec \in Seq(Entry) : \A i \in DOMAIN vec : vec[i] \in Entry
      OBVIOUS
    <3> QED
      BY <2>1, <3>1 DEF MemoryInv, Owners, Commanded, Entry
  <2> QED
    BY <2>1, <2>2, <2>3 DEF TypeOK, MemoryInv, Loads, WalkInv, FilesInv, Versions
<1> QED
  BY <1>1, HostInductive, UpdateInductive, PTL

(* No command leads into a library that has been freed, whichever starts,   *)
(* reloads and unloads failed half-way before.                              *)
THEOREM CommandsLiveAlways == Spec => []CommandsLive
<1>1. HostInv => CommandsLive
  BY DEF HostInv, MemoryInv, Owners, Mapped, CommandsLive, Range
<1> QED
  BY <1>1, HostInductive, PTL

(****************************************************************************)
(* A plugin keeps its commands.                                             *)
(****************************************************************************)
LEMMA AnswersAs ==
  ASSUME NEW p, NEW text
  PROVE  Answers(p, text) <=>
           /\ IsLoaded(p)
           /\ text \in Range(config[p].texts) => [text |-> text, owner |-> p] \in Range(chat)
  BY DEF Answers, Range

(* What leaves the plugin loaded, its configuration as it is and its        *)
(* command in the vector, leaves it answering.                              *)
LEMMA GoesOnAnswering ==
  ASSUME NEW p, NEW text, Answers(p, text), IsLoaded(p)', config'[p] = config[p],
         text \in Range(config[p].texts) =>
           \A e \in Range(chat) : e.text = text => e \in Range(chat')
  PROVE  Answers(p, text)'
  BY AnswersAs DEF Answers, Range

LEMMA AnsweringStep ==
  ASSUME HostInv, Next, NEW p \in Plugins, NEW text \in TextsOf(p),
         Answers(p, text), ~Answers(p, text)', IsLoaded(p)'
  PROVE  file[p] = Unreadable \/ config[p].throws \/ AlsoOf(p, text)
<1> SUFFICES ASSUME file[p] # Unreadable, ~config[p].throws, ~AlsoOf(p, text)
             PROVE  Answers(p, text)'
  OBVIOUS
<1>1. MemoryInv /\ IsLoaded(p)
  BY DEF HostInv, Answers
<1>2. config[p] \in Contents[p] \ {Unreadable} /\ file[p] \in Contents[p] \ {Unreadable}
  BY <1>1 DEF MemoryInv, Loads, HostInv, FilesInv
<1>3. ASSUME UNCHANGED memory PROVE Answers(p, text)'
  BY <1>3 DEF memory, Answers, IsLoaded
<1>4. ASSUME NEW q \in Plugins, LoadPlugin(q) PROVE Answers(p, text)'
  <2>1. CASE UNCHANGED memory
    BY <1>3, <2>1
  <2>2. CASE ~(UNCHANGED memory)
    <3>1. /\ q # p /\ config'[p] = config[p]
          /\ chat' = chat \/ (file[q] # Unreadable /\ chat' = AddAll(chat, file[q].texts, q))
      BY <1>1, <1>4, <2>2 DEF LoadPlugin, MemoryInv, Loads
    <3>2. Range(chat) \subseteq Range(chat')
      <4>1. CASE file[q] # Unreadable /\ chat' = AddAll(chat, file[q].texts, q)
        <5>1. file[q].texts \in Seq(STRING)
          BY <4>1, ItsTexts DEF HostInv, FilesInv
        <5> QED
          BY <1>1, <4>1, <5>1, AddMany DEF MemoryInv, Owners
      <4> QED
        BY <3>1, <4>1
    <3> QED
      BY <3>1, <3>2, GoesOnAnswering
  <2> QED
    BY <2>1, <2>2
<1>5. ASSUME NEW q \in Plugins, q # p, config[q] # None,
             NEW kept, kept = RemoveAll(chat, config[q].texts)
      PROVE  /\ kept \in Seq(Entry)
             /\ \A e \in Range(chat) : e.text = text => e \in Range(kept)
  <2>1. config[q] \in Contents[q] \ {Unreadable}
    BY <1>1, <1>5 DEF MemoryInv, Loads
  <2>2. text \notin Range(config[q].texts)
    BY <1>5 DEF AlsoOf
  <2>3. config[q].texts \in Seq(STRING)
    BY <2>1, ItsTexts
  <2> QED
    BY <1>1, <1>5, <2>2, <2>3, RemoveMany DEF MemoryInv, Owners
<1>6. ASSUME NEW q \in Plugins, IsLoaded(q), UnloadPlugin(q) PROVE Answers(p, text)'
  <2>1. q # p
    <3> SUFFICES ASSUME q = p PROVE FALSE
      OBVIOUS
    <3>1. loaded' = RemoveFirst(loaded, p)
      BY <1>6 DEF UnloadPlugin
    <3>2. ~Contains(RemoveFirst(loaded, p), p)
      BY <1>1, LoadedLess DEF MemoryInv, Loads, IsLoaded
    <3> QED
      BY <3>1, <3>2 DEF IsLoaded
  <2>2. config'[p] = config[p] /\ chat' = RemoveAll(chat, config[q].texts) /\ config[q] # None
    BY <1>1, <1>6, <2>1 DEF UnloadPlugin, MemoryInv, Loads
  <2> QED
    BY <1>5, <1>6, <2>1, <2>2, GoesOnAnswering
<1>7. ASSUME NEW q \in Plugins, Reload(q) PROVE Answers(p, text)'
  <2> DEFINE kept == RemoveAll(chat, config[q].texts)
  <2>1. config[q] # None
    BY <1>1, <1>7, ReloadOfConfigured
  <2>2. \/ chat' = kept /\ UNCHANGED config /\ (config[q].throws \/ file[q] = Unreadable)
        \/ /\ config' = [config EXCEPT ![q] = file[q]] /\ file[q] # Unreadable
           /\ chat' = AddAll(kept, file[q].texts, q)
    BY <1>7 DEF Reload
  <2>3. kept \in Seq(Entry)
    <3>1. config[q] \in Contents[q] \ {Unreadable}
      BY <1>1, <2>1 DEF MemoryInv, Loads
    <3>2. config[q].texts \in Seq(STRING)
      BY <3>1, ItsTexts
    <3> QED
      BY <1>1, <3>2, RemoveMany DEF MemoryInv, Owners
  <2>4. file[q] # Unreadable => file[q].texts \in Seq(STRING)
    BY ItsTexts DEF HostInv, FilesInv
  <2>5. file[q] # Unreadable /\ chat' = AddAll(kept, file[q].texts, q) =>
          Range(chat') = Range(kept) \cup {[text |-> t, owner |-> q] : t \in Range(file[q].texts)}
    <3> HIDE DEF kept
    <3> QED
      BY <2>3, <2>4, AddMany
  <2>6. CASE q = p
    <3>1. config'[p] = file[p] /\ chat' = AddAll(kept, file[p].texts, p)
      BY <1>1, <2>2, <2>6 DEF MemoryInv, Loads
    <3> HIDE DEF kept
    <3>2. \A t \in Range(config'[p].texts) : [text |-> t, owner |-> p] \in Range(chat')
      BY <2>5, <2>6, <3>1
    <3> QED
      BY <3>2 DEF Answers, Range
  <2>7. CASE q # p
    <3>1. \A e \in Range(chat) : e.text = text => e \in Range(kept)
      BY <1>5, <2>1, <2>7
    <3> HIDE DEF kept
    <3>2. config'[p] = config[p]
      BY <1>1, <2>2, <2>7 DEF MemoryInv, Loads
    <3>3. Range(kept) \subseteq Range(chat')
      BY <2>2, <2>5
    <3> QED
      BY <3>1, <3>2, <3>3, GoesOnAnswering
  <2> QED
    BY <2>6, <2>7
<1>8. CASE Die
  <2>1. loaded' = << >>
    BY <1>8 DEF Die, Fresh
  <2> QED
    BY <2>1 DEF IsLoaded, Contains
<1>9. ASSUME NEW q \in Plugins, Visit(q) PROVE Answers(p, text)'
  <2>1. UNCHANGED memory \/ (IsLoaded(q) /\ UnloadPlugin(q))
    BY <1>9 DEF Visit
  <2> QED
    BY <1>3, <1>6, <2>1
<1>10. CASE Load
  BY <1>4, <1>10 DEF Load, HostInv, WalkInv
<1>11. ASSUME NEW q \in Plugins, LoadCommand(q) \/ UnloadCommand(q) PROVE Answers(p, text)'
  BY <1>4, <1>6, <1>11 DEF LoadCommand, UnloadCommand
<1>12. CASE \/ Copy \/ RemoveNew \/ EndWalk \/ DetectPluginChanges \/ Settle
            \/ \E q \in Plugins : Edit(q) \/ Deliver(q)
  BY <1>3, <1>12 DEF Copy, RemoveNew, EndWalk, DetectPluginChanges, Settle, Edit, Deliver
<1> QED
  BY <1>7, <1>8, <1>9, <1>10, <1>11, <1>12 DEF Next

(* A plugin stops answering to a command of its configuration only through  *)
(* its own unload, its own broken file, or another plugin that has the same *)
(* command in force: whatever else is done to other plugins takes none.     *)
THEOREM KeepsAnsweringAlways == Spec => KeepsAnswering
<1>1. HostInv /\ [Next]_vars =>
        [\A p \in Plugins : \A text \in TextsOf(p) :
           Answers(p, text) /\ ~Answers(p, text)' /\ IsLoaded(p)'
             => file[p] = Unreadable \/ config[p].throws \/ AlsoOf(p, text)]_vars
  BY AnsweringStep
<1> QED
  BY <1>1, HostInductive, PTL DEF Spec, KeepsAnswering
=================================================================================
