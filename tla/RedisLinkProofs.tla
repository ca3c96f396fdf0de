---------------------------- MODULE RedisLinkProofs ----------------------------
(****************************************************************************)
(* Theorems about RedisLink for every number of threads and connections.    *)
(* AnyReloadInv is inductive whatever the operator does; QuietReloadInv     *)
(* when a reload waits for the previous dispatch thread.                    *)
(****************************************************************************)
EXTENDS RedisLink, TLAPS

USE DEF Live, Alive, InCallback, Touches, Goto, GameAt, token, dispatch, gameVars, env

(* The process starts with nothing loaded and no thread running.            *)
LEMMA InitAnyReload == Init => AnyReloadInv
<1> SUFFICES ASSUME Init PROVE AnyReloadInv
  OBVIOUS
<1>1. TypeOK
  BY DEF Init, TypeOK, ThreadPc, GamePc
<1>2. ContextWhileHolding /\ WorkingHasDispatcher
  BY DEF Init, ContextWhileHolding, WorkingHasDispatcher
<1>3. GamePhase
  BY DEF Init, GamePhase
<1> QED
  BY <1>1, <1>2, <1>3 DEF AnyReloadInv

(* Every step of every thread keeps the state well typed.                   *)
LEMMA TypeStep == TypeOK /\ [Next]_vars => TypeOK'
<1> SUFFICES ASSUME TypeOK, [Next]_vars PROVE TypeOK'
  OBVIOUS
<1> USE DEF TypeOK, ThreadPc, GamePc
<1>1. ASSUME NEW t \in Threads, DispatchStep(t) PROVE TypeOK'
  <2>1. CASE WhileWorking(t)
    BY <2>1 DEF WhileWorking
  <2>2. CASE AsyncConnect(t)
    BY <2>2 DEF AsyncConnect
  <2>3. CASE AsyncConnectError(t)
    BY <2>3 DEF AsyncConnectError
  <2>4. CASE StoreContext(t)
    BY <2>4 DEF StoreContext
  <2>5. CASE Attach(t)
    BY <2>5 DEF Attach
  <2>6. CASE ConnectDone(t)
    BY <2>6 DEF ConnectDone
  <2>7. CASE OnRedisConnected(t)
    BY <2>7 DEF OnRedisConnected
  <2>8. CASE ConnectFailed(t)
    BY <2>8 DEF ConnectFailed, FreeContext, OnRedisDisConnected
  <2>9. CASE CallbackReturns(t)
    BY <2>9 DEF CallbackReturns, FreeContext, OnRedisDisConnected
  <2>10. CASE Disconnected(t)
    BY <2>10 DEF Disconnected, FreeContext, OnRedisDisConnected
  <2>11. CASE LoopDrained(t)
    BY <2>11 DEF LoopDrained
  <2>12. CASE ClearContext(t)
    BY <2>12 DEF ClearContext
  <2>13. CASE Release(t)
    <3>1. ctx' \in [Threads -> {"none", "connecting", "connected", "freed"}]
      BY <2>13 DEF Release, redisAsyncFree, FreeContext
    <3>2. pub' \in [Pubs -> {"none", "ok", "broken", "err", "freed"}] /\ crashed' \in BOOLEAN
      BY <2>13 DEF Release, redisAsyncFree, FreeContext, OnRedisDisConnected
    <3>3. freeing' \in [Threads -> BOOLEAN]
      BY <2>13 DEF Release, redisAsyncFree
    <3> QED
      BY <2>13, <3>1, <3>2, <3>3 DEF Release
  <2>14. CASE Sleep(t)
    BY <2>14 DEF Sleep
  <2> QED
    BY <1>1, <2>1, <2>2, <2>3, <2>4, <2>5, <2>6, <2>7, <2>8, <2>9, <2>10, <2>11, <2>12,
       <2>13, <2>14 DEF DispatchStep
<1>2. ASSUME NEW t \in Threads, OnMessage(t) PROVE TypeOK'
  BY <1>2 DEF OnMessage
<1>3. CASE Load
  BY <1>3 DEF Load
<1>4. CASE HookCheck
  BY <1>4 DEF HookCheck
<1>5. CASE UnloadStop
  BY <1>5 DEF UnloadStop
<1>6. CASE GameStep
  <2>1. CASE HookSend
    BY <2>1 DEF HookSend
  <2>2. CASE HookReply
    BY <2>2 DEF HookReply
  <2>3. CASE UnloadRead
    BY <2>3 DEF UnloadRead
  <2>4. CASE UnloadFree
    BY <2>4 DEF UnloadFree, redisAsyncFree, FreeContext, OnRedisDisConnected
  <2>5. CASE UnloadFinish
    BY <2>5 DEF UnloadFinish
  <2> QED
    BY <1>6, <2>1, <2>2, <2>3, <2>4, <2>5 DEF GameStep
<1>7. CASE Environment
  <2>1. CASE RedisDown
    BY <2>1 DEF RedisDown, Lost
  <2>2. CASE RedisStarts
    BY <2>2 DEF RedisStarts
  <2>3. CASE Stabilise
    BY <2>3 DEF Stabilise
  <2>4. ASSUME NEW t \in Threads, DropAsync(t) PROVE TypeOK'
    BY <2>4 DEF DropAsync
  <2>5. ASSUME NEW p \in Pubs, DropPub(p) PROVE TypeOK'
    BY <2>5 DEF DropPub
  <2> QED
    BY <1>7, <2>1, <2>2, <2>3, <2>4, <2>5 DEF Environment
<1>8. CASE Restart
  BY <1>8 DEF Restart
<1>9. CASE UNCHANGED vars
  BY <1>9 DEF vars
<1> QED
  BY <1>1, <1>2, <1>3, <1>4, <1>5, <1>6, <1>7, <1>8, <1>9 DEF Next

(* A thread's context is live only while the thread is in its iteration.    *)
LEMMA HoldingStep == AnyReloadInv /\ [Next]_vars => ContextWhileHolding'
<1> SUFFICES ASSUME AnyReloadInv, [Next]_vars, NEW u \in Threads, Live(u)'
             PROVE  pc'[u] \in Holding
  BY DEF ContextWhileHolding
<1>0. /\ Live(u) => pc[u] \in Holding
      /\ pc \in [Threads -> ThreadPc]
      /\ ctx \in [Threads -> {"none", "connecting", "connected", "freed"}]
      /\ game = "freeing" => held \in Threads
  BY DEF AnyReloadInv, TypeOK, ContextWhileHolding
<1> USE <1>0 DEF Holding
<1>1. ASSUME NEW t \in Threads, DispatchStep(t) PROVE pc'[u] \in Holding
  <2>1. CASE WhileWorking(t)
    BY <2>1 DEF WhileWorking
  <2>2. CASE AsyncConnect(t)
    BY <2>2 DEF AsyncConnect
  <2>3. CASE AsyncConnectError(t)
    BY <2>3 DEF AsyncConnectError
  <2>4. CASE StoreContext(t)
    BY <2>4 DEF StoreContext
  <2>5. CASE Attach(t)
    BY <2>5 DEF Attach
  <2>6. CASE ConnectDone(t)
    BY <2>6 DEF ConnectDone
  <2>7. CASE OnRedisConnected(t)
    BY <2>7 DEF OnRedisConnected
  <2>8. CASE ConnectFailed(t)
    BY <2>8 DEF ConnectFailed, FreeContext
  <2>9. CASE CallbackReturns(t)
    BY <2>9 DEF CallbackReturns, FreeContext
  <2>10. CASE Disconnected(t)
    BY <2>10 DEF Disconnected, FreeContext
  <2>11. CASE LoopDrained(t)
    BY <2>11 DEF LoopDrained
  <2>12. CASE ClearContext(t)
    BY <2>12 DEF ClearContext
  <2>13. CASE Release(t)
    BY <2>13 DEF Release, redisAsyncFree, FreeContext
  <2>14. CASE Sleep(t)
    BY <2>14 DEF Sleep
  <2> QED
    BY <1>1, <2>1, <2>2, <2>3, <2>4, <2>5, <2>6, <2>7, <2>8, <2>9, <2>10, <2>11, <2>12,
       <2>13, <2>14 DEF DispatchStep
<1>2. ASSUME NEW t \in Threads, OnMessage(t) PROVE pc'[u] \in Holding
  BY <1>2 DEF OnMessage
<1>3. CASE Load
  BY <1>3 DEF Load
<1>4. CASE HookCheck \/ UnloadStop \/ Environment \/ Restart \/ UNCHANGED vars
  BY <1>4 DEF HookCheck, UnloadStop, Environment, RedisDown, RedisStarts, Stabilise, DropAsync,
     DropPub, Restart, vars
<1>5. CASE GameStep
  BY <1>5 DEF GameStep, HookSend, HookReply, UnloadRead, UnloadFree, UnloadFinish,
     redisAsyncFree, FreeContext
<1> QED
  BY <1>1, <1>2, <1>3, <1>4, <1>5 DEF Next

(* The game thread clears isWorking in UnLoad and sets it in Load only.     *)
LEMMA GamePhaseStep == AnyReloadInv /\ [Next]_vars => GamePhase'
<1> SUFFICES ASSUME AnyReloadInv, [Next]_vars PROVE GamePhase'
  OBVIOUS
<1> USE DEF AnyReloadInv, GamePhase
<1>1. CASE UNCHANGED <<isWorking, game, loaded>>
  BY <1>1
<1>2. ASSUME NEW t \in Threads, DispatchStep(t) \/ OnMessage(t)
      PROVE  UNCHANGED <<isWorking, game, loaded>>
  BY <1>2 DEF DispatchStep, WhileWorking, AsyncConnect, AsyncConnectError, StoreContext, Attach,
     ConnectDone, OnRedisConnected, ConnectFailed, CallbackReturns, Disconnected, LoopDrained,
     ClearContext, Release, Sleep, OnMessage
<1>3. CASE Load
  BY <1>3 DEF Load
<1>4. CASE HookCheck
  BY <1>4 DEF HookCheck
<1>5. CASE UnloadStop
  BY <1>5 DEF UnloadStop
<1>6. CASE GameStep
  BY <1>6 DEF GameStep, HookSend, HookReply, UnloadRead, UnloadFree, UnloadFinish
<1>7. CASE Restart
  BY <1>7 DEF Restart
<1>8. CASE Environment \/ UNCHANGED vars
  BY <1>1, <1>8 DEF Environment, RedisDown, RedisStarts, Stabilise, DropAsync, DropPub, vars
<1> QED
  BY <1>1, <1>2, <1>3, <1>4, <1>5, <1>6, <1>7, <1>8 DEF Next

(* A dispatch thread leaves its loop only when it has read isWorking false. *)
LEMMA DispatcherStep == AnyReloadInv /\ [Next]_vars => WorkingHasDispatcher'
<1> SUFFICES ASSUME AnyReloadInv, [Next]_vars, isWorking'
             PROVE  \E u \in Threads : pc'[u] # "ended"
  BY DEF WorkingHasDispatcher
<1>0. /\ pc \in [Threads -> ThreadPc]
      /\ isWorking => \E u \in Threads : pc[u] # "ended"
  BY DEF AnyReloadInv, TypeOK, WorkingHasDispatcher
<1> USE <1>0
<1>1. ASSUME NEW t \in Threads, DispatchStep(t) \/ OnMessage(t)
      PROVE  isWorking' = isWorking /\ \/ pc'[t] # "ended"
                                       \/ ~isWorking /\ pc' = [pc EXCEPT ![t] = "ended"]
  BY <1>1 DEF DispatchStep, WhileWorking, AsyncConnect, AsyncConnectError, StoreContext, Attach,
     ConnectDone, OnRedisConnected, ConnectFailed, CallbackReturns, Disconnected, LoopDrained,
     ClearContext, Release, Sleep, OnMessage
<1>2. CASE Load
  BY <1>2 DEF Load
<1>3. CASE UnloadStop \/ Restart
  BY <1>3 DEF UnloadStop, Restart
<1>4. CASE HookCheck \/ GameStep \/ Environment \/ UNCHANGED vars
  <2>1. UNCHANGED <<isWorking, pc>>
    BY <1>4 DEF HookCheck, GameStep, HookSend, HookReply, UnloadRead, UnloadFree, UnloadFinish,
      Environment, RedisDown, RedisStarts, Stabilise, DropAsync, DropPub, vars
  <2> QED
    BY <2>1
<1> QED
  BY <1>1, <1>2, <1>3, <1>4 DEF Next

(* The inductive invariant for any sequence of loads and unloads.           *)
LEMMA AnyReloadInductive == Spec => []AnyReloadInv
<1>1. AnyReloadInv /\ [Next]_vars => AnyReloadInv'
  BY TypeStep, HoldingStep, GamePhaseStep, DispatcherStep DEF AnyReloadInv
<1> QED
  BY InitAnyReload, <1>1, PTL DEF Spec

(****************************************************************************)
(* Results for any sequence of loads and unloads.                           *)
(****************************************************************************)

(* Every reachable state of the connection machinery is well typed; in      *)
(* particular the hook never reaches its PUBLISH with a null pointer.       *)
THEOREM TypeCorrect == Spec => []TypeOK
BY AnyReloadInductive, PTL DEF AnyReloadInv

(* A dispatch thread that has ended holds no open context, even when loads  *)
(* overlap with threads of earlier loads.                                   *)
THEOREM EndedHoldsNothing == Spec => []EndedThreadHoldsNothing
<1>1. AnyReloadInv => EndedThreadHoldsNothing
  BY DEF AnyReloadInv, ContextWhileHolding, Holding, EndedThreadHoldsNothing
<1> QED
  BY AnyReloadInductive, <1>1, PTL

(* While isWorking is set some dispatch thread is alive.                    *)
THEOREM Dispatched == Spec => []WorkingHasDispatcher
BY AnyReloadInductive, PTL DEF AnyReloadInv

(****************************************************************************)
(* Results for quiet reloads.                                               *)
(****************************************************************************)

(* Load is the only step that starts a thread, and it waits for the others. *)
LEMMA OneThreadStep ==
  QuietReload /\ QuietReloadInv /\ [Next]_vars => OneThread'
<1> SUFFICES ASSUME QuietReload, QuietReloadInv, [Next]_vars PROVE OneThread'
  OBVIOUS
<1>0. pc \in [Threads -> ThreadPc] /\ OneThread
  BY DEF QuietReloadInv, AnyReloadInv, TypeOK
<1> USE <1>0 DEF OneThread
<1>1. ASSUME NEW t \in Threads, DispatchStep(t) \/ OnMessage(t)
      PROVE  pc[t] # "ended" /\ \E l \in ThreadPc : pc' = [pc EXCEPT ![t] = l]
  BY <1>1 DEF DispatchStep, WhileWorking, AsyncConnect, AsyncConnectError, StoreContext, Attach,
     ConnectDone, OnRedisConnected, ConnectFailed, CallbackReturns, Disconnected, LoopDrained,
     ClearContext, Release, Sleep, OnMessage, ThreadPc
<1>2. CASE Load
  BY <1>2 DEF Load
<1>3. CASE Restart
  BY <1>3 DEF Restart
<1>4. CASE HookCheck \/ UnloadStop \/ GameStep \/ Environment \/ UNCHANGED vars
  <2>1. pc' = pc
    BY <1>4 DEF HookCheck, UnloadStop, GameStep, HookSend, HookReply, UnloadRead, UnloadFree,
      UnloadFinish, Environment, RedisDown, RedisStarts, Stabilise, DropAsync, DropPub, vars
  <2> QED
    BY <2>1
<1> QED
  BY <1>1, <1>2, <1>3, <1>4 DEF Next

(* The mark that defers a release to the end of a callback is set by UnLoad *)
(* only, and no thread still carries one when Load sets isWorking again.    *)
LEMMA MarkedStep ==
  QuietReload /\ QuietReloadInv /\ [Next]_vars => MarkedByUnload'
<1> SUFFICES ASSUME QuietReload, QuietReloadInv, [Next]_vars PROVE MarkedByUnload'
  OBVIOUS
<1>0. /\ MarkedByUnload
      /\ pc \in [Threads -> ThreadPc]
      /\ freeing \in [Threads -> BOOLEAN]
      /\ game = "freeing" => held \in Threads /\ ~isWorking
  BY DEF QuietReloadInv, AnyReloadInv, TypeOK, GamePhase
<1> USE <1>0 DEF MarkedByUnload, Holding
<1>1. ASSUME NEW t \in Threads, DispatchStep(t) PROVE MarkedByUnload'
  <2>1. CASE WhileWorking(t)
    BY <2>1 DEF WhileWorking
  <2>2. CASE AsyncConnect(t)
    BY <2>2 DEF AsyncConnect
  <2>3. CASE AsyncConnectError(t)
    BY <2>3 DEF AsyncConnectError
  <2>4. CASE StoreContext(t)
    BY <2>4 DEF StoreContext
  <2>5. CASE Attach(t)
    BY <2>5 DEF Attach
  <2>6. CASE ConnectDone(t)
    BY <2>6 DEF ConnectDone
  <2>7. CASE OnRedisConnected(t)
    BY <2>7 DEF OnRedisConnected
  <2>8. CASE ConnectFailed(t)
    BY <2>8 DEF ConnectFailed
  <2>9. CASE CallbackReturns(t)
    BY <2>9 DEF CallbackReturns
  <2>10. CASE Disconnected(t)
    BY <2>10 DEF Disconnected
  <2>11. CASE LoopDrained(t)
    BY <2>11 DEF LoopDrained
  <2>12. CASE ClearContext(t)
    BY <2>12 DEF ClearContext
  <2>13. CASE Release(t)
    BY <2>13 DEF Release, redisAsyncFree
  <2>14. CASE Sleep(t)
    BY <2>14 DEF Sleep
  <2> QED
    BY <1>1, <2>1, <2>2, <2>3, <2>4, <2>5, <2>6, <2>7, <2>8, <2>9, <2>10, <2>11, <2>12,
       <2>13, <2>14 DEF DispatchStep
<1>2. ASSUME NEW t \in Threads, OnMessage(t) PROVE MarkedByUnload'
  BY <1>2 DEF OnMessage
<1>3. CASE Load
  BY <1>3 DEF Load
<1>4. CASE UnloadFree
  BY <1>4 DEF UnloadFree, redisAsyncFree, FreeContext
<1>5. CASE UnloadStop \/ Restart
  BY <1>5 DEF UnloadStop, Restart
<1>6. CASE HookCheck \/ HookSend \/ HookReply \/ UnloadRead \/ UnloadFinish
           \/ Environment \/ UNCHANGED vars
  <2>1. UNCHANGED <<isWorking, pc, freeing>>
    BY <1>6 DEF HookCheck, HookSend, HookReply, UnloadRead, UnloadFinish, Environment, RedisDown,
      RedisStarts, Stabilise, DropAsync, DropPub, vars
  <2> QED
    BY <2>1
<1> QED
  BY <1>1, <1>2, <1>3, <1>4, <1>5, <1>6 DEF Next, GameStep

(* OnRedisDisConnected frees the publish connection only for a context that *)
(* is freed without an error, which only UnLoad brings about: never while   *)
(* the plugin works, so never under the chat hook.                          *)
LEMMA PublishStep ==
  QuietReload /\ QuietReloadInv /\ [Next]_vars => PublishNeverDangles'
<1> SUFFICES ASSUME QuietReload, QuietReloadInv, [Next]_vars PROVE PublishNeverDangles'
  OBVIOUS
<1>0. /\ TypeOK /\ ContextWhileHolding /\ GamePhase /\ MarkedByUnload
      /\ isWorking /\ redisContext # None => pub[redisContext] # "freed"
      /\ game = "sending" => pub[held] # "freed" /\ isWorking
      /\ game = "checked" => isWorking
  BY DEF QuietReloadInv, AnyReloadInv, PublishNeverDangles, GamePhase
<1>1. CASE UNCHANGED <<isWorking, redisContext, pub, game, held>>
  BY <1>0, <1>1 DEF PublishNeverDangles
<1>2. ASSUME NEW t \in Threads, DispatchStep(t) \/ OnMessage(t)
      PROVE  PublishNeverDangles'
  <2>1. CASE OnRedisConnected(t)
    BY <1>0, <2>1 DEF OnRedisConnected, PublishNeverDangles, TypeOK
  <2>2. CASE CallbackReturns(t)
    <3>1. CASE freeing[t]
      <4>1. ~isWorking
        BY <1>0, <2>2, <3>1 DEF CallbackReturns, MarkedByUnload, Holding
      <4> QED
        BY <1>0, <2>2, <4>1 DEF CallbackReturns, PublishNeverDangles
    <3>2. CASE ~freeing[t]
      BY <1>1, <2>2, <3>2 DEF CallbackReturns
    <3> QED
      BY <3>1, <3>2
  <2>3. CASE ConnectFailed(t) \/ Disconnected(t)
    BY <1>1, <2>3 DEF ConnectFailed, Disconnected, FreeContext, OnRedisDisConnected
  <2>4. CASE Release(t)
    <3>1. ~Live(t)
      BY <1>0, <2>4 DEF Release, ContextWhileHolding, Holding
    <3> QED
      BY <1>1, <2>4, <3>1 DEF Release, redisAsyncFree
  <2>5. CASE \/ WhileWorking(t) \/ AsyncConnect(t) \/ AsyncConnectError(t) \/ StoreContext(t)
             \/ Attach(t) \/ ConnectDone(t) \/ LoopDrained(t) \/ ClearContext(t) \/ Sleep(t)
             \/ OnMessage(t)
    BY <1>1, <2>5 DEF WhileWorking, AsyncConnect, AsyncConnectError, StoreContext, Attach,
       ConnectDone, LoopDrained, ClearContext, Sleep, OnMessage
  <2> QED
    BY <1>2, <2>1, <2>2, <2>3, <2>4, <2>5 DEF DispatchStep
<1>3. CASE Load
  BY <1>0, <1>3 DEF Load, PublishNeverDangles
<1>4. CASE HookCheck
  BY <1>0, <1>4 DEF HookCheck, PublishNeverDangles
<1>5. CASE UnloadStop \/ Restart
  BY <1>0, <1>5 DEF UnloadStop, Restart, PublishNeverDangles
<1>6. CASE GameStep
  <2>1. CASE HookSend
    BY <1>0, <2>1, NoneAssumption DEF HookSend, PublishNeverDangles, TypeOK
  <2>2. CASE HookReply
    BY <1>0, <2>2 DEF HookReply, PublishNeverDangles, TypeOK
  <2>3. CASE UnloadRead
    BY <1>0, <2>3 DEF UnloadRead, PublishNeverDangles
  <2>4. CASE UnloadFree
    BY <1>0, <2>4 DEF UnloadFree, PublishNeverDangles, GamePhase
  <2>5. CASE UnloadFinish
    BY <1>0, <2>5 DEF UnloadFinish, PublishNeverDangles
  <2> QED
    BY <1>6, <2>1, <2>2, <2>3, <2>4, <2>5 DEF GameStep
<1>7. CASE Environment
  <2>1. CASE RedisDown
    BY <1>0, <2>1 DEF RedisDown, Lost, PublishNeverDangles, TypeOK
  <2>2. ASSUME NEW p \in Pubs, DropPub(p) PROVE PublishNeverDangles'
    BY <1>0, <2>2 DEF DropPub, PublishNeverDangles, TypeOK
  <2> QED
    BY <1>1, <1>7, <2>1, <2>2 DEF Environment, RedisStarts, Stabilise, DropAsync
<1>8. CASE UNCHANGED vars
  BY <1>1, <1>8 DEF vars
<1> QED
  BY <1>2, <1>3, <1>4, <1>5, <1>6, <1>7, <1>8 DEF Next

(* The inductive invariant when a reload waits for the previous thread.     *)
LEMMA QuietReloadInductive == ASSUME QuietReload PROVE Spec => []QuietReloadInv
<1>1. Init => QuietReloadInv
  <2> SUFFICES ASSUME Init PROVE QuietReloadInv
    OBVIOUS
  <2>1. OneThread /\ MarkedByUnload /\ PublishNeverDangles
    BY DEF Init, OneThread, MarkedByUnload, Holding, PublishNeverDangles
  <2> QED
    BY InitAnyReload, <2>1 DEF QuietReloadInv
<1>2. QuietReloadInv /\ [Next]_vars => QuietReloadInv'
  BY TypeStep, HoldingStep, GamePhaseStep, DispatcherStep, OneThreadStep, MarkedStep,
     PublishStep DEF QuietReloadInv, AnyReloadInv
<1> QED
  BY <1>1, <1>2, PTL DEF Spec

(* With quiet reloads there is never more than one live async connection,   *)
(* so never a second subscription to the chat channel.                      *)
THEOREM OneConnection == ASSUME QuietReload PROVE Spec => []AtMostOneConnection
<1>1. QuietReloadInv => AtMostOneConnection
  BY DEF QuietReloadInv, AnyReloadInv, OneThread, ContextWhileHolding, Holding,
     AtMostOneConnection
<1> QED
  BY QuietReloadInductive, <1>1, PTL

(* With quiet reloads the chat hook never uses a freed publish connection.  *)
THEOREM PublishSafe == ASSUME QuietReload PROVE Spec => []PublishNeverDangles
BY QuietReloadInductive, PTL DEF QuietReloadInv

(****************************************************************************)
(* RedisLink with quiet reloads implements Subscription.                    *)
(****************************************************************************)
Subs == {t \in Threads : ctx[t] = "connected"}

(* Freeing a context drops the one subscription or none.                    *)
LEMMA FreeingDrops ==
  ASSUME QuietReloadInv, NEW t \in Threads, NEW status, FreeContext(t, status)
  PROVE  Subs' = Subs \/ (Subs # {} /\ Subs' = {})
<1>1. ctx' = [ctx EXCEPT ![t] = "freed"] /\ ctx \in [Threads -> {"none", "connecting", "connected", "freed"}]
  BY DEF FreeContext, QuietReloadInv, AnyReloadInv, TypeOK
<1>2. CASE ctx[t] = "connected"
  <2>1. \A u \in Threads : ctx[u] = "connected" => u = t
    BY <1>2 DEF QuietReloadInv, AnyReloadInv, OneThread, ContextWhileHolding, Holding
  <2> QED
    BY <1>1, <1>2, <2>1 DEF Subs
<1>3. CASE ctx[t] # "connected"
  BY <1>1, <1>3 DEF Subs
<1> QED
  BY <1>2, <1>3

(* Each step is a step of the promise, or invisible to it. *)
LEMMA StepKeepsPromise ==
  ASSUME QuietReload, QuietReloadInv, [Next]_vars
  PROVE  [Promise!Next]_<<isWorking, Subs>>
<1> USE DEF Promise!Next
<1>0. /\ TypeOK /\ ContextWhileHolding /\ GamePhase
      /\ ctx \in [Threads -> {"none", "connecting", "connected", "freed"}]
      /\ game = "freeing" => held \in Threads
  BY DEF QuietReloadInv, AnyReloadInv, TypeOK
<1>1. CASE UNCHANGED <<isWorking, ctx>>
  BY <1>1 DEF Subs
<1>2. ASSUME isWorking' = isWorking, Subs' = Subs \/ (Subs # {} /\ Subs' = {})
      PROVE  [Promise!Next]_<<isWorking, Subs>>
  BY <1>2 DEF Promise!Drop, Subs
<1>3. ASSUME NEW t \in Threads, DispatchStep(t) \/ OnMessage(t)
      PROVE  [Promise!Next]_<<isWorking, Subs>>
  <2>1. CASE AsyncConnect(t)
    <3>1. ~Live(t)
      BY <1>0, <2>1 DEF AsyncConnect, ContextWhileHolding, Holding
    <3>2. isWorking' = isWorking /\ Subs' = Subs
      BY <1>0, <2>1, <3>1 DEF AsyncConnect, Subs
    <3> QED
      BY <3>2
  <2>2. CASE OnRedisConnected(t)
    <3>1. isWorking' = isWorking /\ \A u \in Threads : Live(u) => u = t
      BY <1>0, <2>2 DEF OnRedisConnected, QuietReloadInv, OneThread, ContextWhileHolding, Holding
    <3>2. CASE ctx[t] = "connecting"
      <4>1. Subs = {} /\ Subs' = {t}
        BY <1>0, <2>2, <3>1, <3>2 DEF OnRedisConnected, Subs
      <4> QED
        BY <3>1, <4>1 DEF Promise!Subscribe, Subs
    <3>3. CASE ctx[t] # "connecting"
      <4>1. Subs' = Subs
        BY <1>0, <2>2, <3>3 DEF OnRedisConnected, Subs
      <4> QED
        BY <3>1, <4>1
    <3> QED
      BY <3>2, <3>3
  <2>3. CASE ConnectFailed(t) \/ Disconnected(t) \/ CallbackReturns(t)
    BY <1>1, <1>2, <2>3, FreeingDrops DEF ConnectFailed, Disconnected, CallbackReturns
  <2>4. CASE Release(t)
    BY <1>1, <1>2, <2>4, FreeingDrops DEF Release, redisAsyncFree
  <2>5. CASE Sleep(t)
    <3>1. ~Live(t)
      BY <1>0, <2>5 DEF Sleep, ContextWhileHolding, Holding
    <3>2. isWorking' = isWorking /\ Subs' = Subs
      BY <1>0, <2>5, <3>1 DEF Sleep, Subs
    <3> QED
      BY <3>2
  <2>6. CASE \/ WhileWorking(t) \/ AsyncConnectError(t) \/ StoreContext(t) \/ Attach(t)
             \/ ConnectDone(t) \/ LoopDrained(t) \/ ClearContext(t) \/ OnMessage(t)
    BY <1>1, <2>6 DEF WhileWorking, AsyncConnectError, StoreContext, Attach, ConnectDone,
       LoopDrained, ClearContext, OnMessage
  <2> QED
    BY <1>3, <2>1, <2>2, <2>3, <2>4, <2>5, <2>6 DEF DispatchStep
<1>4. CASE Load
  <2>1. ~isWorking /\ Subs = {}
    BY <1>0, <1>4 DEF Load, GamePhase, ContextWhileHolding, Holding, Subs
  <2>2. isWorking' = TRUE /\ Subs' = {}
    BY <1>4, <2>1 DEF Load, Subs
  <2> QED
    BY <2>1, <2>2 DEF Promise!Activate, Subs
<1>5. CASE UnloadStop
  BY <1>0, <1>5 DEF UnloadStop, GamePhase, Promise!Deactivate, Subs
<1>6. CASE Restart
  BY <1>6 DEF Restart, Promise!Restart, Subs
<1>7. CASE UnloadFree
  <2>1. isWorking' = isWorking
    BY <1>7 DEF UnloadFree, token
  <2>2. \A t \in {held, redisAsyncContext} \ {None} : t \in Threads
    BY <1>0, <1>7 DEF UnloadFree, TypeOK
  <2>3. ASSUME NEW t \in Threads, redisAsyncFree(t)
        PROVE  UNCHANGED ctx \/ Subs' = Subs \/ (Subs # {} /\ Subs' = {})
    BY <2>3, FreeingDrops DEF redisAsyncFree
  <2> QED
    BY <1>1, <1>2, <1>7, <2>1, <2>2, <2>3 DEF UnloadFree
<1>8. CASE HookCheck \/ HookSend \/ HookReply \/ UnloadRead \/ UnloadFinish
           \/ Environment \/ UNCHANGED vars
  BY <1>1, <1>8 DEF HookCheck, HookSend, HookReply, UnloadRead, UnloadFinish, Environment,
     RedisDown, RedisStarts, Stabilise, DropAsync, DropPub, vars
<1> QED
  BY <1>3, <1>4, <1>5, <1>6, <1>7, <1>8 DEF Next, GameStep

(* With quiet reloads the connection machinery implements Subscription.     *)
THEOREM Implements == ASSUME QuietReload PROVE Spec => KeepsPromise
<1>1. Init => Promise!Init
  BY DEF Init, Promise!Init
<1>2. QuietReloadInv /\ [Next]_vars => [Promise!Next]_(Promise!svars)
  BY StepKeepsPromise DEF Promise!svars, Subs
<1> QED
  BY QuietReloadInductive, <1>1, <1>2, PTL DEF Spec, KeepsPromise, Promise!Spec
================================================================================
