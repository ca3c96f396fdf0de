----------------------------- MODULE GameHooksProofs -----------------------------
(****************************************************************************)
(* For every set of plugins, functions, requests and controllers: Requests  *)
(* implements Mailbox, and Players finds live controllers; each part of     *)
(* GameHooks behaves as its own module says, so that what is proved about   *)
(* Timer, Requests and Players alone holds under the game's hooks; and a    *)
(* pass over callbacks never leads into a library that has been freed.      *)
(****************************************************************************)
EXTENDS GameHooks, SequenceLemmas, TimerProofs

(****************************************************************************)
(* Requests. What the game thread has taken over, followed by what the      *)
(* threads have added since, is the mailbox; TakenInLoop says that nothing  *)
(* is taken over except while Update is in its loop, so that taking over    *)
(* leaves the mailbox as it is.                                             *)
(****************************************************************************)
TakenInLoop == (requests_temp # << >> \/ current # NoRequest) => update = "loop"

RequestsIInv == RequestsTypeOK /\ TakenInLoop

USE ReqsAssumption

(* Every step of the threads and of Update keeps the types.                 *)
LEMMA TypeStep == RequestsTypeOK /\ [RequestsNext]_requestVars => RequestsTypeOK'
<1> SUFFICES ASSUME RequestsTypeOK, [RequestsNext]_requestVars PROVE RequestsTypeOK'
  OBVIOUS
<1> USE DEF RequestsTypeOK
<1>1. ASSUME NEW r \in Reqs, CreateRequest(r) \/ ThreadStep(r) PROVE RequestsTypeOK'
  BY <1>1 DEF CreateRequest, ThreadStep, Answered, WriteLock, WriteRequest
<1>2. CASE Update
  BY <1>2 DEF Update
<1>3. CASE TakeOver
  <2>1. << >> \in Seq(Reqs)
    OBVIOUS
  <2> QED
    BY <1>3, <2>1 DEF TakeOver
<1>4. CASE CallBack
  <2>1. Head(requests_temp) \in Reqs /\ Tail(requests_temp) \in Seq(Reqs)
    BY <1>4 DEF CallBack
  <2> QED
    BY <1>4, <2>1 DEF CallBack
<1>5. CASE CallbackReturns \/ EndLoop
  BY <1>5 DEF CallbackReturns, EndLoop
<1>6. CASE CallbackThrows
  <2>1. Range(requests_temp) \subseteq Reqs
    BY DEF Range
  <2> QED
    BY <1>6, <2>1 DEF CallbackThrows
<1>7. CASE UNCHANGED requestVars
  BY <1>7 DEF requestVars
<1> QED
  BY <1>1, <1>2, <1>3, <1>4, <1>5, <1>6, <1>7 DEF RequestsNext, UpdateStep

(* Results are in requests_temp only while Update is in its loop.           *)
LEMMA RequestsInductive == RequestsSpec => []RequestsIInv
<1>1. RequestsInit => RequestsIInv
  BY DEF RequestsInit, RequestsIInv, RequestsTypeOK, TakenInLoop
<1>2. RequestsIInv /\ [RequestsNext]_requestVars => RequestsIInv'
  <2> SUFFICES ASSUME RequestsIInv, [RequestsNext]_requestVars PROVE TakenInLoop'
    BY TypeStep DEF RequestsIInv
  <2> USE DEF RequestsIInv, TakenInLoop
  <2>1. ASSUME NEW r \in Reqs, CreateRequest(r) \/ ThreadStep(r) PROVE TakenInLoop'
    BY <2>1 DEF CreateRequest, ThreadStep, Answered, WriteLock, WriteRequest
  <2>2. CASE Update \/ UpdateStep
    BY <2>2 DEF Update, UpdateStep, TakeOver, CallBack, CallbackReturns, CallbackThrows, EndLoop
  <2>3. CASE UNCHANGED requestVars
    BY <2>3 DEF requestVars
  <2> QED
    BY <2>1, <2>2, <2>3 DEF RequestsNext
<1> QED
  BY <1>1, <1>2, PTL DEF RequestsSpec

(* Requests keeps its types, however the threads and Update meet.           *)
THEOREM RequestsTyped == RequestsSpec => []RequestsTypeOK
BY RequestsInductive, PTL DEF RequestsIInv

(* Every step of Requests is a step of the mailbox, or changes nothing in   *)
(* it.                                                                      *)
LEMMA StepKeepsMailbox ==
  RequestsIInv /\ [RequestsNext]_requestVars => [Box!Next]_(Box!mvars)
<1> SUFFICES ASSUME RequestsIInv, [RequestsNext]_requestVars PROVE [Box!Next]_(Box!mvars)
  OBVIOUS
<1> USE DEF Box!mvars
<1> DEFINE Arrived == {r \in Reqs : thread[r] = "done"}
           Waiting == requests_temp \o RequestsVec
<1>0. /\ RequestsVec \in Seq(Reqs) /\ requests_temp \in Seq(Reqs) /\ current \in Reqs \cup {NoRequest}
      /\ thread \in [Reqs -> {"none", "sent", "answered", "writing", "done"}]
  BY DEF RequestsIInv, RequestsTypeOK
<1>1. ASSUME NEW r \in Reqs, CreateRequest(r) \/ Answered(r) \/ WriteLock(r)
      PROVE  UNCHANGED <<Arrived, Waiting, current>>
  BY <1>0, <1>1 DEF CreateRequest, Answered, WriteLock
<1>2. ASSUME NEW r \in Reqs, WriteRequest(r) PROVE Box!Arrive(r)
  <2>1. r \notin Arrived /\ Arrived' = Arrived \cup {r}
    BY <1>0, <1>2 DEF WriteRequest
  <2>2. Waiting' = Append(Waiting, r)
    BY <1>0, <1>2, AppendRight DEF WriteRequest
  <2> QED
    BY <1>2, <2>1, <2>2 DEF WriteRequest, Box!Arrive
<1>3. CASE Update \/ EndLoop \/ UNCHANGED requestVars
  BY <1>3 DEF Update, EndLoop, requestVars
<1>4. CASE TakeOver
  <2>1. requests_temp = << >>
    BY <1>4 DEF TakeOver, RequestsIInv, TakenInLoop
  <2>2. Waiting' = Waiting
    BY <1>0, <1>4, <2>1 DEF TakeOver
  <2> QED
    BY <1>4, <2>2 DEF TakeOver
<1>5. CASE CallBack
  <2>1. Waiting # << >> /\ Head(Waiting) = Head(requests_temp)
        /\ Tail(Waiting) = Tail(requests_temp) \o RequestsVec
    BY <1>0, <1>5, HeadLeft DEF CallBack
  <2> QED
    BY <1>5, <2>1 DEF CallBack, Box!Next, Box!HandOver
<1>6. CASE CallbackReturns
  BY <1>6 DEF CallbackReturns, Box!Next, Box!Return
<1>7. CASE CallbackThrows
  <2>1. Waiting' = RequestsVec
    BY <1>0, <1>7 DEF CallbackThrows
  <2>2. \E k \in 1..Len(Waiting) + 1 : Waiting' = SubSeq(Waiting, k, Len(Waiting))
    BY <1>0, <2>1, DropLeft
  <2> QED
    BY <1>7, <2>2 DEF CallbackThrows, Box!Next, Box!Throw
<1> QED
  BY <1>1, <1>2, <1>3, <1>4, <1>5, <1>6, <1>7 DEF RequestsNext, ThreadStep, UpdateStep, Box!Next

(* Requests implements Mailbox, for every set of requests: no result is     *)
(* handed over twice, out of order, or lost except behind a callback that   *)
(* throws.                                                                  *)
THEOREM RequestsImplements == RequestsSpec => KeepsMailbox
<1>1. RequestsInit => Box!Init
  BY DEF RequestsInit, Box!Init
<1>2. RequestsIInv /\ [RequestsNext]_requestVars => [Box!Next]_(Box!mvars)
  BY StepKeepsMailbox
<1> QED
  BY RequestsInductive, <1>1, <1>2, PTL DEF RequestsSpec, KeepsMailbox, Box!Spec

(****************************************************************************)
(* The composition.                                                         *)
(****************************************************************************)
(* The hooks start and continue Update of Requests, never change its state  *)
(* otherwise.                                                               *)
LEMMA RequestsSteps == [Next]_vars => [RequestsNext]_requestVars
<1> SUFFICES ASSUME [Next]_vars PROVE [RequestsNext]_requestVars
  OBVIOUS
<1>1. ASSUME NEW r \in Reqs, SendRequest(r) PROVE RequestsNext
  BY <1>1 DEF SendRequest, RequestsNext
<1>2. ASSUME NEW r \in Reqs, RequestThread(r) PROVE RequestsNext
  BY <1>2 DEF RequestThread, RequestsNext
<1>3. CASE NextCallback
  BY <1>3 DEF NextCallback, RequestsNext
<1>4. CASE InRequests \/ Throw
  BY <1>4 DEF InRequests, Throw, RequestsNext, UpdateStep
<1>5. CASE Tick \/ DefaultTimer \/ EndPass \/ EndDetect \/ BodyReturns \/ InTimer \/ TimePasses \/ CalmDown
  BY <1>5 DEF Tick, DefaultTimer, Start, EndPass, EndDetect, BodyReturns, InTimer, TimePasses, CalmDown
<1>6. ASSUME NEW j \in Jobs, GiveJob(j) PROVE UNCHANGED requestVars
  BY <1>6 DEF GiveJob
<1>7. ASSUME NEW p \in Plugins, RemoveOnTimerCallback(p) \/ LoadPlugin(p) \/ UnloadPlugin(p)
      PROVE  UNCHANGED requestVars
  BY <1>7 DEF RemoveOnTimerCallback, LoadPlugin, UnloadPlugin
<1>8. ASSUME NEW c \in Controllers, PlayerHook(c) PROVE UNCHANGED requestVars
  BY <1>8 DEF PlayerHook
<1>9. CASE UNCHANGED vars
  BY <1>9 DEF vars
<1> QED
  BY <1>1, <1>2, <1>3, <1>4, <1>5, <1>6, <1>7, <1>8, <1>9 DEF Next, GameThread

(* So for Update of Timer, and for time.                                    *)
LEMMA TimerSteps == [Next]_vars => [TimerNext]_timerVars
<1> SUFFICES ASSUME [Next]_vars PROVE [TimerNext]_timerVars
  OBVIOUS
<1>1. ASSUME NEW j \in Jobs, GiveJob(j) PROVE TimerNext
  BY <1>1 DEF GiveJob, TimerNext
<1>2. CASE NextCallback
  BY <1>2 DEF NextCallback, TimerNext
<1>3. CASE InTimer \/ Throw \/ TimePasses
  BY <1>3 DEF InTimer, Throw, TimePasses, TimerNext, TimerStep
<1>4. CASE Tick \/ DefaultTimer \/ EndPass \/ EndDetect \/ BodyReturns \/ InRequests \/ CalmDown
  BY <1>4 DEF Tick, DefaultTimer, Start, EndPass, EndDetect, BodyReturns, InRequests, CalmDown
<1>5. ASSUME NEW r \in Reqs, SendRequest(r) \/ RequestThread(r) PROVE UNCHANGED timerVars
  BY <1>5 DEF SendRequest, RequestThread
<1>6. ASSUME NEW p \in Plugins, RemoveOnTimerCallback(p) \/ LoadPlugin(p) \/ UnloadPlugin(p)
      PROVE  UNCHANGED timerVars
  BY <1>6 DEF RemoveOnTimerCallback, LoadPlugin, UnloadPlugin
<1>7. ASSUME NEW c \in Controllers, PlayerHook(c) PROVE UNCHANGED timerVars
  BY <1>7 DEF PlayerHook
<1>8. CASE UNCHANGED vars
  BY <1>8 DEF vars
<1> QED
  BY <1>1, <1>2, <1>3, <1>4, <1>5, <1>6, <1>7, <1>8 DEF Next, GameThread

(* So for the map of players.                                               *)
LEMMA PlayersSteps == [Next]_vars => [PlayersNext]_playerVars
<1> SUFFICES ASSUME [Next]_vars PROVE [PlayersNext]_playerVars
  OBVIOUS
<1>1. ASSUME NEW c \in Controllers, PlayerHook(c) PROVE PlayersNext
  BY <1>1 DEF PlayerHook, PlayersNext
<1>2. CASE Tick \/ DefaultTimer \/ GameThread \/ Throw \/ TimePasses \/ CalmDown
  BY <1>2 DEF Tick, DefaultTimer, Start, GameThread, NextCallback, EndPass, EndDetect, BodyReturns,
     InTimer, InRequests, Throw, TimePasses, CalmDown
<1>3. ASSUME NEW j \in Jobs, GiveJob(j) PROVE UNCHANGED playerVars
  BY <1>3 DEF GiveJob
<1>4. ASSUME NEW r \in Reqs, SendRequest(r) \/ RequestThread(r) PROVE UNCHANGED playerVars
  BY <1>4 DEF SendRequest, RequestThread
<1>5. ASSUME NEW p \in Plugins, RemoveOnTimerCallback(p) \/ LoadPlugin(p) \/ UnloadPlugin(p)
      PROVE  UNCHANGED playerVars
  BY <1>5 DEF RemoveOnTimerCallback, LoadPlugin, UnloadPlugin
<1>6. CASE UNCHANGED vars
  BY <1>6 DEF vars
<1> QED
  BY <1>1, <1>2, <1>3, <1>4, <1>5, <1>6 DEF Next

(* Under the game's hooks Requests, Timer and the map of players each       *)
(* behave as their own module says.                                         *)
THEOREM Composition == Spec => RequestsSpec /\ TimerSpec /\ PlayersSpec
<1>1. Init => RequestsInit /\ TimerInit /\ PlayersInit
  BY DEF Init
<1> QED
  BY <1>1, RequestsSteps, TimerSteps, PlayersSteps, PTL DEF Spec, RequestsSpec, TimerSpec, PlayersSpec

(* What SetPlayerController puts in the map, and RemovePlayerController     *)
(* takes out, is the controller's own entry.                                *)
LEMMA PlayersInductive == PlayersSpec => [](PlayersTypeOK /\ FindsLive)
<1> DEFINE Inv == PlayersTypeOK /\ FindsLive
<1> USE NullAssumption DEF PlayersTypeOK, FindsLive
<1>1. PlayersInit => Inv
  BY DEF PlayersInit
<1>2. Inv /\ [PlayersNext]_playerVars => Inv'
  <2> SUFFICES ASSUME Inv, [PlayersNext]_playerVars PROVE Inv'
    OBVIOUS
  <2>1. ASSUME NEW c \in Controllers, Login(c) PROVE Inv'
    BY <2>1 DEF Login
  <2>2. ASSUME NEW c \in Controllers, SetPlayerController(c) PROVE Inv'
    <3>1. SteamId[c] \in Ids
      BY DEF Ids
    <3> QED
      BY <2>2, <3>1 DEF SetPlayerController
  <2>3. ASSUME NEW c \in Controllers, RemovePlayerController(c) PROVE Inv'
    <3>1. SteamId[c] \in Ids
      BY DEF Ids
    <3>2. PlayersTypeOK'
      BY <2>3, <3>1 DEF RemovePlayerController, EraseEntry
    <3>3. \A id \in Ids : steam_id_map'[id] # Null =>
             id # SteamId[c] /\ steam_id_map'[id] = steam_id_map[id]
      BY <2>3, <3>1 DEF RemovePlayerController, EraseEntry
    <3>4. \A id \in Ids : steam_id_map'[id] # Null => steam_id_map[id] # c
      BY <3>3
    <3> QED
      BY <2>3, <3>2, <3>3, <3>4 DEF RemovePlayerController
  <2>4. CASE UNCHANGED playerVars
    BY <2>4 DEF playerVars
  <2> QED
    BY <2>1, <2>2, <2>3, <2>4 DEF PlayersNext
<1> QED
  BY <1>1, <1>2, PTL DEF PlayersSpec

(* Whatever controllers come and go in whatever order, the map leads only   *)
(* to controllers that are there, of the player asked for.                  *)
THEOREM FindsLiveAlways == PlayersSpec => []FindsLive
BY PlayersInductive, PTL

(* The map keeps its type.                                                  *)
LEMMA PlayersTyped == PlayersSpec => []PlayersTypeOK
BY PlayersInductive, PTL

(* Requests, Timer and the map of players keep their promises under the     *)
(* game's hooks, whatever plugins do and throw.                             *)
THEOREM HooksKeepPromises ==
  Spec => KeepsMailbox /\ []NeverTooOften /\ DroppedOnlyByMove /\ []FindsLive
BY Composition, RequestsImplements, NeverTooOftenAlways, DropsAreRight, FindsLiveAlways, PTL

(* A vector of callbacks holds none twice, and of plugins only those among  *)
(* S.                                                                       *)
Leads(vec, S) ==
  \A i \in DOMAIN vec : /\ vec[i].text = vec[i].owner
                        /\ vec[i].owner \in Plugins => vec[i].owner \in S

OnceEach(vec) == \A i, k \in DOMAIN vec : vec[i].text = vec[k].text => i = k

(* A pass has a plugin's callback running only while nothing of Timer or    *)
(* Requests runs, and what it has still to walk leads to what is there.     *)
HooksIInv ==
  /\ ticks \in Seq(Callbacks) /\ timers \in Seq(Callbacks) /\ walk \in Seq(Callbacks)
  /\ mapped \cup quit \subseteq Plugins /\ calm \in BOOLEAN /\ cast \in Casts
  /\ where \in {"idle", "walk", "detect"} /\ pass \in {"ticks", "timers"}
  /\ Leads(ticks, mapped) /\ OnceEach(ticks) /\ Leads(timers, mapped) /\ OnceEach(timers)
  /\ where = "walk" => Leads(walk, mapped)
  /\ body # None => where = "walk" /\ body \in mapped /\ step = "rest" /\ update = "rest"

(* An entry of a vector of callbacks.                                       *)
LEMMA EntryOf ==
  ASSUME NEW vec \in Seq(Callbacks), NEW i \in DOMAIN vec
  PROVE  vec[i] \in Callbacks /\ vec[i].text \in Registrations /\ vec[i].owner \in Registrations
<1>1. vec[i] \in Callbacks
  BY ElementOfSeq
<1> QED
  BY <1>1 DEF Callbacks

(* A callback that is not there is added once, behind the others.           *)
LEMMA AddKeeps ==
  ASSUME NEW vec \in Seq(Callbacks), NEW S, NEW T, S \subseteq T, NEW x \in Registrations,
         Leads(vec, S), OnceEach(vec), ~Has(vec, x), x \in Plugins => x \in T
  PROVE  LET new == AddCommand(vec, x, x) IN
           new \in Seq(Callbacks) /\ Leads(new, T) /\ OnceEach(new)
<1> DEFINE e   == [text |-> x, owner |-> x]
           new == AddCommand(vec, x, x)
<1>1. e \in Callbacks /\ e.text = x /\ e.owner = x
  BY DEF Callbacks
<1> HIDE DEF e
<1>2. /\ new \in Seq(Callbacks) /\ DOMAIN new = 1..(Len(vec) + 1) /\ Len(vec) \in Nat
      /\ DOMAIN vec = 1..Len(vec)
      /\ new[Len(vec) + 1] = e /\ \A i \in 1..Len(vec) : new[i] = vec[i]
  BY <1>1 DEF AddCommand, e
<1> HIDE DEF new
<1>3. \A i \in DOMAIN new : i \in DOMAIN vec \/ i = Len(vec) + 1
  BY <1>2
<1>4. Leads(new, T)
  BY <1>1, <1>2, <1>3 DEF Leads
<1>5. OnceEach(new)
  BY <1>1, <1>2, <1>3 DEF OnceEach, Has
<1> QED
  BY <1>2, <1>4, <1>5 DEF new

(* Of a vector without repetition RemoveCommand takes the callback asked    *)
(* for, and only that.                                                      *)
LEMMA RemoveKeeps ==
  ASSUME NEW vec \in Seq(Callbacks), NEW S, NEW p, Leads(vec, S), OnceEach(vec)
  PROVE  LET new == RemoveCommand(vec, p) IN
           new \in Seq(Callbacks) /\ Leads(new, S \ {p}) /\ OnceEach(new)
<1> DEFINE new == RemoveCommand(vec, p)
           n   == Len(vec)
<1>1. CASE ~Has(vec, p)
  <2>1. new = vec
    BY <1>1 DEF RemoveCommand
  <2>2. \A i \in DOMAIN vec : vec[i].owner # p
    BY <1>1 DEF Has, Leads
  <2> QED
    BY <2>1, <2>2 DEF Leads
<1>2. CASE Has(vec, p)
  <2>1. PICK h \in 1..n : vec[h].text = p
    BY <1>2 DEF Has
  <2>2. First(vec, p) = h
    <3>1. \A i \in DOMAIN vec : vec[i].text = p => i = h
      BY <2>1 DEF OnceEach
    <3>2. h \in DOMAIN vec /\ vec[h].text = p /\ \A j \in DOMAIN vec : vec[j].text = p => h <= j
      BY <2>1, <3>1
    <3> QED
      BY <3>1, <3>2 DEF First
  <2>3. new = RemoveAt(vec, h)
    BY <1>2, <2>2 DEF RemoveCommand
  <2>4. /\ new \in Seq(Callbacks) /\ Len(new) = n - 1 /\ DOMAIN new = 1..(n - 1) /\ n \in Nat
        /\ \A i \in 1..(n - 1) : new[i] = IF i < h THEN vec[i] ELSE vec[i + 1]
    <3> HIDE DEF new
    <3>1. /\ RemoveAt(vec, h) \in Seq(Callbacks) /\ Len(RemoveAt(vec, h)) = n - 1
          /\ \A i \in 1..(n - 1) : RemoveAt(vec, h)[i] = IF i < h THEN vec[i] ELSE vec[i + 1]
      BY <2>1, RemoveAtShifts
    <3>2. \A s \in Seq(Callbacks) : DOMAIN s = 1..Len(s) /\ Len(s) \in Nat
      OBVIOUS
    <3> QED
      BY <2>3, <3>1, <3>2
  <2> DEFINE old(i) == IF i < h THEN i ELSE i + 1
  <2>5. \A i \in DOMAIN new : new[i] = vec[old(i)] /\ old(i) \in DOMAIN vec /\ old(i) # h
    BY <2>1, <2>4
  <2>6. \A i, k \in DOMAIN new : old(i) = old(k) => i = k
    BY <2>1, <2>4
  <2> HIDE DEF old, new
  <2>7. OnceEach(new)
    BY <2>5, <2>6 DEF OnceEach
  <2>8. \A i \in DOMAIN new : new[i].text # p
    BY <2>1, <2>5 DEF OnceEach
  <2>9. Leads(new, S \ {p})
    BY <2>5, <2>8 DEF Leads
  <2> QED
    BY <2>4, <2>7, <2>9 DEF new
<1> QED
  BY <1>1, <1>2

(* Every step keeps HooksIInv; that Requests calls back only in its loop is *)
(* taken from RequestsIInv.                                                 *)
LEMMA HooksStep == HooksIInv /\ RequestsIInv /\ [Next]_vars => HooksIInv'
<1> SUFFICES ASSUME HooksIInv, RequestsIInv, [Next]_vars PROVE HooksIInv'
  OBVIOUS
<1> USE PluginsAssumption DEF HooksIInv
<1>1. /\ "TimerUpdate" \in Registrations \ Plugins /\ "RequestsUpdate" \in Registrations \ Plugins
      /\ Plugins \subseteq Registrations
  BY DEF Registrations
<1>2. ASSUME NEW vec \in Seq(Callbacks), NEW x \in Registrations \ Plugins,
             Leads(vec, mapped), OnceEach(vec)
      PROVE  LET new == Registered(vec, x) IN
               new \in Seq(Callbacks) /\ Leads(new, mapped) /\ OnceEach(new)
  BY <1>2, AddKeeps DEF Registered
<1>3. ASSUME NEW j \in Jobs, GiveJob(j) PROVE HooksIInv'
  <2>1. /\ timers' = Registered(timers, "TimerUpdate") /\ step' = step
        /\ UNCHANGED <<ticks, mapped, where, pass, walk, body, quit, calm, cast, update>>
    BY <1>3 DEF GiveJob, Give, requestVars
  <2>2. timers' \in Seq(Callbacks) /\ Leads(timers', mapped) /\ OnceEach(timers')
    BY <1>1, <1>2, <2>1
  <2> QED
    BY <2>1, <2>2
<1>4. ASSUME NEW r \in Reqs, SendRequest(r) PROVE HooksIInv'
  <2>1. /\ ticks' = Registered(ticks, "RequestsUpdate") /\ update' = update
        /\ UNCHANGED <<timers, mapped, where, pass, walk, body, quit, calm, cast, step>>
    BY <1>4 DEF SendRequest, CreateRequest, timerVars
  <2>2. ticks' \in Seq(Callbacks) /\ Leads(ticks', mapped) /\ OnceEach(ticks')
    BY <1>1, <1>2, <2>1
  <2> QED
    BY <2>1, <2>2
<1>5. ASSUME NEW p \in Plugins, RemoveOnTimerCallback(p) PROVE HooksIInv'
  <2>1. /\ timers' = RemoveCommand(timers, p) /\ quit' = quit \cup {p}
        /\ UNCHANGED <<ticks, mapped, where, pass, walk, body, calm, cast, step, update>>
    BY <1>5 DEF RemoveOnTimerCallback, requestVars, timerVars
  <2>2. timers' \in Seq(Callbacks) /\ Leads(timers', mapped \ {p}) /\ OnceEach(timers')
    BY <2>1, RemoveKeeps
  <2>3. Leads(timers', mapped)
    BY <2>2 DEF Leads
  <2> QED
    BY <2>1, <2>2, <2>3
<1>6. ASSUME NEW p \in Plugins, LoadPlugin(p) PROVE HooksIInv'
  <2>1. /\ where \in {"idle", "detect"} /\ p \notin mapped /\ mapped' = mapped \cup {p}
        /\ ticks' = AddCommand(ticks, p, p) /\ timers' = AddCommand(timers, p, p)
        /\ quit' = quit \ {p}
        /\ UNCHANGED <<where, pass, walk, body, calm, cast, step, update>>
    BY <1>6 DEF LoadPlugin, MayChangePlugins, requestVars, timerVars
  <2>2. ~Has(ticks, p) /\ ~Has(timers, p)
    BY <2>1 DEF Has, Leads
  <2>3. /\ ticks' \in Seq(Callbacks) /\ Leads(ticks', mapped') /\ OnceEach(ticks')
        /\ timers' \in Seq(Callbacks) /\ Leads(timers', mapped') /\ OnceEach(timers')
    BY <1>1, <2>1, <2>2, AddKeeps
  <2> QED
    BY <2>1, <2>3
<1>7. ASSUME NEW p \in Plugins, UnloadPlugin(p) PROVE HooksIInv'
  <2>1. /\ where \in {"idle", "detect"} /\ mapped' = mapped \ {p}
        /\ ticks' = RemoveCommand(ticks, p) /\ timers' = RemoveCommand(timers, p)
        /\ UNCHANGED <<where, pass, walk, body, quit, calm, cast>>
    BY <1>7 DEF UnloadPlugin, MayChangePlugins
  <2>2. /\ ticks' \in Seq(Callbacks) /\ Leads(ticks', mapped') /\ OnceEach(ticks')
        /\ timers' \in Seq(Callbacks) /\ Leads(timers', mapped') /\ OnceEach(timers')
    BY <2>1, RemoveKeeps
  <2> QED
    BY <2>1, <2>2
<1>8. CASE Tick \/ DefaultTimer
  <2>1. PICK name \in {"ticks", "timers"}, callbacks \in {ticks, timers} : Start(name, callbacks)
    BY <1>8 DEF Tick, DefaultTimer
  <2>2. /\ where = "idle" /\ where' = "walk" /\ pass' = name /\ walk' = callbacks
        /\ UNCHANGED <<ticks, timers, mapped, body, quit, calm, cast>>
    BY <2>1 DEF Start
  <2> QED
    BY <2>2
<1>9. CASE NextCallback
  <2>1. /\ where = "walk" /\ body = None /\ step = "rest" /\ update = "rest"
        /\ walk # << >> /\ walk' = Tail(walk)
        /\ UNCHANGED <<ticks, timers, mapped, where, pass, quit, calm, cast>>
    BY <1>9 DEF NextCallback, Between
  <2>2. /\ walk' \in Seq(Callbacks) /\ DOMAIN walk' = 1..(Len(walk) - 1)
        /\ \A i \in DOMAIN walk' : walk'[i] = walk[i + 1] /\ i + 1 \in DOMAIN walk
    BY <2>1, HeadTailProperties
  <2>3. Leads(walk', mapped)
    BY <2>1, <2>2 DEF Leads
  <2>4. body' = None \/ (body' \in mapped /\ step' = "rest" /\ update' = "rest")
    <3>1. CASE Head(walk).text \in {"TimerUpdate", "RequestsUpdate"}
      BY <1>9, <2>1, <3>1 DEF NextCallback
    <3>2. CASE Head(walk).text \notin {"TimerUpdate", "RequestsUpdate"}
      <4>1. body' = Head(walk).owner /\ UNCHANGED <<step, update>>
        BY <1>9, <3>2 DEF NextCallback, requestVars, timerVars
      <4>2. Head(walk) = walk[1] /\ 1 \in DOMAIN walk
        BY <2>1, HeadTailProperties
      <4>3. Head(walk).text = Head(walk).owner /\ Head(walk).owner \in Plugins
        BY <2>1, <3>2, <4>2, EntryOf DEF Leads, Registrations
      <4>4. Head(walk).owner \in mapped
        BY <2>1, <4>2, <4>3 DEF Leads
      <4> QED
        BY <2>1, <4>1, <4>4
    <3> QED
      BY <3>1, <3>2
  <2> QED
    BY <2>1, <2>2, <2>3, <2>4
<1>10. CASE EndPass \/ EndDetect \/ BodyReturns
  BY <1>10 DEF EndPass, EndDetect, BodyReturns, Between
<1>11. CASE InTimer
  <2>1. step # "rest" /\ UNCHANGED hookVars
    BY <1>11 DEF InTimer, VisitFreed, Visit, Looping, FunctionReturns, EndUpdate
  <2> QED
    BY <2>1 DEF hookVars
<1>12. CASE InRequests
  <2>1. update # "rest" /\ UNCHANGED hookVars
    BY <1>12 DEF InRequests, TakeOver, CallBack, CallbackReturns, EndLoop, RequestsIInv, TakenInLoop
  <2> QED
    BY <2>1 DEF hookVars
<1>13. CASE Throw
  <2>1. /\ where' = "idle" /\ walk' = << >>
        /\ UNCHANGED <<ticks, timers, mapped, pass, quit, calm, cast>>
    BY <1>13 DEF Throw
  <2>2. body' = None
    BY <1>13 DEF Throw, FunctionThrows, CallbackThrows, RequestsIInv, TakenInLoop
  <2> QED
    BY <2>1, <2>2
<1>14. ASSUME NEW c \in Controllers, PlayerHook(c) PROVE HooksIInv'
  BY <1>14 DEF PlayerHook, hookVars, requestVars, timerVars
<1>15. CASE TimePasses
  BY <1>15 DEF TimePasses, Elapse, hookVars, requestVars
<1>16. ASSUME NEW r \in Reqs, RequestThread(r) PROVE HooksIInv'
  <2>1. UNCHANGED <<step, update>>
    BY <1>16 DEF RequestThread, ThreadStep, Answered, WriteLock, WriteRequest, timerVars
  <2> QED
    BY <1>16, <2>1 DEF RequestThread, hookVars
<1>17. CASE CalmDown
  BY <1>17 DEF CalmDown, requestVars, timerVars
<1>18. CASE UNCHANGED vars
  BY <1>18 DEF vars, hookVars, requestVars, timerVars
<1> QED
  BY <1>3, <1>4, <1>5, <1>6, <1>7, <1>8, <1>9, <1>10, <1>11, <1>12, <1>13, <1>14, <1>15, <1>16,
     <1>17, <1>18 DEF Next, GameThread

(* So HooksIInv always holds.                                               *)
LEMMA HooksInductive == Spec => []HooksIInv
<1>1. Init => HooksIInv
  <2> SUFFICES ASSUME Init PROVE HooksIInv
    OBVIOUS
  <2>1. /\ ticks = << >> /\ timers = << >> /\ walk = << >> /\ mapped = {} /\ quit = {}
        /\ where = "idle" /\ pass = "ticks" /\ body = None /\ calm = FALSE /\ cast \in Casts
    BY DEF Init
  <2>2. << >> \in Seq(Callbacks) /\ Leads(<< >>, mapped) /\ OnceEach(<< >>)
    BY DEF Leads, OnceEach
  <2> QED
    BY <2>1, <2>2 DEF HooksIInv
<1>2. Spec => []RequestsIInv
  BY Composition, RequestsInductive, PTL
<1> QED
  BY <1>1, <1>2, HooksStep, PTL DEF Spec

(* A pass over callbacks never calls into a library that was freed, for any *)
(* set of plugins and whatever they register, take back and throw.          *)
THEOREM PassCallsLiveAlways == Spec => []PassCallsLive
<1>1. HooksIInv => PassCallsLive
  BY DEF HooksIInv, PassCallsLive
<1> QED
  BY <1>1, HooksInductive, PTL

(* Every variable of the composition keeps its type.                        *)
THEOREM HooksTyped == Spec => []TypeOK
<1>1. HooksIInv /\ RequestsTypeOK /\ TimerTypeOK /\ PlayersTypeOK => TypeOK
  BY DEF HooksIInv, TypeOK
<1>2. PlayersSpec => []PlayersTypeOK
  BY PlayersTyped, PTL
<1> QED
  BY <1>1, <1>2, HooksInductive, Composition, RequestsTyped, TimerTyped, PTL
==================================================================================
