------------------------------- MODULE RedisLink -------------------------------
(****************************************************************************)
(* The life of the Redis connections of the CrossServerChat plugin inside   *)
(* one game server process.                                                 *)
(*                                                                          *)
(* Every Load() spawns a detached dispatch thread that connects, subscribes,*)
(* runs the libevent loop, cleans up, sleeps one second and starts again.   *)
(* The game thread runs the chat hook (which publishes on a second,         *)
(* blocking connection made by the dispatch thread), Load() and UnLoad().   *)
(* The two threads share the plain, unsynchronised struct CurrentPluginToken*)
(*    { isWorking, redisAsyncContext, redisContext }.                       *)
(* A step is one access to the token, one callback, or one hiredis call.    *)
(* Using an object hiredis has freed is undefined: such a step either goes  *)
(* unnoticed or brings the process down (crashed).                          *)
(****************************************************************************)
EXTENDS Naturals, FiniteSets

CONSTANTS
  Threads,      \* identities for the dispatch threads, one per Load()
  Pubs,         \* addresses of blocking (publish) connections
  None,         \* nullptr
  QuietReload   \* TRUE: plugins.load is entered only after the previous
                \* dispatch thread has ended; FALSE: at any time

ASSUME NoneAssumption   == None \notin Threads \cup Pubs
ASSUME PubsAssumption   == \A a, b \in Pubs \cup {None} : \E p \in Pubs : p \notin {a, b}
ASSUME ReloadAssumption == QuietReload \in BOOLEAN

VARIABLES
  isWorking, redisAsyncContext, redisContext,   \* CurrentPluginToken
  pc,         \* where each dispatch thread stands
  ctx,        \* the async context each thread's current iteration owns
  freeing,    \* REDIS_FREEING was set on it from inside a callback
  link,       \* "up" while the peer keeps the async connection open
  pub,        \* the publish connections, by address
  game,       \* where the game thread stands
  held,       \* the pointer the game thread carries between two steps
  loaded,     \* the chat hook is installed
  redisUp, stable,   \* the Redis server; stable: it stays up from now on
  crashed

token    == <<isWorking, redisAsyncContext, redisContext>>
dispatch == <<pc, ctx, freeing, link>>
gameVars == <<game, held, loaded>>
env      == <<redisUp, stable>>
vars     == <<token, dispatch, pub, gameVars, env, crashed>>

ThreadPc == {"loop", "connect", "store", "attach", "wait", "onConnect", "callback",
             "returned", "release", "sleep", "ended"}
GamePc   == {"idle", "checked", "sending", "unload", "freeing", "unhook"}

TypeOK ==
  /\ isWorking \in BOOLEAN
  /\ redisAsyncContext \in Threads \cup {None}
  /\ redisContext \in Pubs \cup {None}
  /\ pc \in [Threads -> ThreadPc]
  /\ ctx \in [Threads -> {"none", "connecting", "connected", "freed"}]
  /\ freeing \in [Threads -> BOOLEAN]
  /\ link \in [Threads -> {"up", "down"}]
  /\ pub \in [Pubs -> {"none", "ok", "broken", "err", "freed"}]
  /\ game \in GamePc
  /\ held \in Threads \cup Pubs \cup {None}
  /\ game = "freeing" => held \in Threads
  /\ game = "checked" => redisContext \in Pubs
  /\ game = "sending" => held \in Pubs
  /\ loaded \in BOOLEAN
  /\ redisUp \in BOOLEAN
  /\ stable \in BOOLEAN
  /\ crashed \in BOOLEAN

Live(t)       == ctx[t] \in {"connecting", "connected"}
Alive(t)      == pc[t] # "ended"
InCallback(t) == pc[t] = "callback"       \* REDIS_IN_CALLBACK

(* Undefined behaviour: when touched, the step may also end the process. *)
Touches(freed) == crashed' \in BOOLEAN /\ (crashed' => freed)

Goto(t, from, to) == ~crashed /\ pc[t] = from /\ pc' = [pc EXCEPT ![t] = to]
GameAt(g)         == ~crashed /\ game = g

Init ==
  /\ isWorking = FALSE /\ redisAsyncContext = None /\ redisContext = None
  /\ pc = [t \in Threads |-> "ended"]
  /\ ctx = [t \in Threads |-> "none"]
  /\ freeing = [t \in Threads |-> FALSE]
  /\ link = [t \in Threads |-> "down"]
  /\ pub = [p \in Pubs |-> "none"]
  /\ game = "idle" /\ held = None /\ loaded = FALSE
  /\ redisUp \in BOOLEAN /\ stable = FALSE
  /\ crashed = FALSE

--------------------------------------------------------------------------------
(* hiredis: what OnRedisDisConnected(status) and redisAsyncFree do. *)

(* Mutant: the publish connection is freed whatever the status.             *)
MutFreeOnAnyStatus(status) ==
  IF redisContext # None
  THEN pub' = [pub EXCEPT ![redisContext] = "freed"] /\ crashed' = FALSE
  ELSE pub' = pub /\ crashed' = FALSE

(* With REDIS_OK the callback frees the publish connection and leaves the   *)
(* pointer in the token; with REDIS_ERR it returns at once.                 *)
OnRedisDisConnected(status) ==
  IF status = "ok" /\ redisContext # None
  THEN /\ pub' = [pub EXCEPT ![redisContext] = "freed"]
       /\ Touches(pub[redisContext] = "freed")
  ELSE pub' = pub /\ crashed' = FALSE

(* The context goes away; the disconnect callback runs if it was connected. *)
FreeContext(t, status) ==
  /\ ctx' = [ctx EXCEPT ![t] = "freed"]
  /\ IF ctx[t] = "connected" THEN OnRedisDisConnected(status)
                             ELSE pub' = pub /\ crashed' = FALSE

(* Called from a callback it only leaves a mark for redisProcessCallbacks.  *)
(* On a context already freed it reads the poisoned flags of a dead object. *)
redisAsyncFree(t) ==
  IF ~Live(t) THEN UNCHANGED <<ctx, freeing, pub>> /\ Touches(TRUE)
  ELSE IF InCallback(t)
  THEN freeing' = [freeing EXCEPT ![t] = TRUE] /\ UNCHANGED <<ctx, pub>> /\ crashed' = FALSE
  ELSE FreeContext(t, "ok") /\ UNCHANGED freeing

--------------------------------------------------------------------------------
(* The dispatch thread. *)

WhileWorking(t) ==
  /\ Goto(t, "loop", IF isWorking THEN "connect" ELSE "ended")
  /\ UNCHANGED <<token, ctx, freeing, link, pub, gameVars, env, crashed>>

(* redisAsyncConnect begins a connection to the local server. *)
AsyncConnect(t) ==
  /\ Goto(t, "connect", "store")
  /\ ctx' = [ctx EXCEPT ![t] = "connecting"]
  /\ freeing' = [freeing EXCEPT ![t] = FALSE]
  /\ link' = [link EXCEPT ![t] = IF redisUp THEN "up" ELSE "down"]
  /\ UNCHANGED <<token, pub, gameVars, env, crashed>>

(* Mutant: break where the code says continue. *)
MutBreakOnError(t) ==
  /\ ~stable
  /\ Goto(t, "connect", "ended")
  /\ UNCHANGED <<token, ctx, freeing, link, pub, gameVars, env, crashed>>

(* ... or fails on the spot: the context is freed and the loop continues.   *)
AsyncConnectError(t) ==
  /\ ~stable
  /\ Goto(t, "connect", "loop")
  /\ UNCHANGED <<token, ctx, freeing, link, pub, gameVars, env, crashed>>

(* Mutant: a second look at isWorking that quits and forgets the context.   *)
MutQuitWithContext(t) ==
  /\ Goto(t, "store", IF isWorking THEN "attach" ELSE "ended")
  /\ redisAsyncContext' = IF isWorking THEN t ELSE redisAsyncContext
  /\ UNCHANGED <<isWorking, redisContext, ctx, freeing, link, pub, gameVars, env, crashed>>

StoreContext(t) ==
  /\ Goto(t, "store", "attach")
  /\ redisAsyncContext' = t
  /\ UNCHANGED <<isWorking, redisContext, ctx, freeing, link, pub, gameVars, env, crashed>>

(* event base, attach, callbacks, SUBSCRIBE queued, event loop entered.     *)
Attach(t) ==
  /\ Goto(t, "attach", "wait")
  /\ Touches(~Live(t))
  /\ UNCHANGED <<token, ctx, freeing, link, pub, gameVars, env>>

(* The socket turns out connected: the event loop calls OnRedisConnected,   *)
(* outside REDIS_IN_CALLBACK, before it sets REDIS_CONNECTED.               *)
ConnectDone(t) ==
  /\ ctx[t] = "connecting" /\ redisUp /\ link[t] = "up"
  /\ Goto(t, "wait", "onConnect")
  /\ UNCHANGED <<token, ctx, freeing, link, pub, gameVars, env, crashed>>

(* OnRedisConnected overwrites the publish connection with a new one (which *)
(* may have failed to connect) and the SUBSCRIBE is written.                *)
OnRedisConnected(t) ==
  /\ Goto(t, "onConnect", "wait")
  /\ \E p \in Pubs \ {redisContext, held} :
       /\ redisContext' = p
       /\ pub' = [pub EXCEPT ![p] = IF redisUp THEN "ok" ELSE "err"]
  /\ ctx' = [ctx EXCEPT ![t] = IF Live(t) THEN "connected" ELSE @]
  /\ Touches(~Live(t))
  /\ UNCHANGED <<isWorking, redisAsyncContext, freeing, link, gameVars, env>>

ConnectFailed(t) ==
  /\ ctx[t] = "connecting" /\ link[t] = "down"
  /\ Goto(t, "wait", "returned")
  /\ FreeContext(t, "err")
  /\ UNCHANGED <<token, freeing, link, gameVars, env>>

(* A chat message arrives: OnRedisMessage runs inside REDIS_IN_CALLBACK.    *)
OnMessage(t) ==
  /\ ctx[t] = "connected" /\ link[t] = "up"
  /\ Goto(t, "wait", "callback")
  /\ UNCHANGED <<token, ctx, freeing, link, pub, gameVars, env, crashed>>

(* Mutant: the mark ends the thread, the context stays connected.           *)
MutMarkEndsThread(t) ==
  /\ Goto(t, "callback", IF freeing[t] THEN "ended" ELSE "wait")
  /\ UNCHANGED <<ctx, pub, crashed, token, freeing, link, gameVars, env>>

(* After the callback redisProcessCallbacks frees a context marked for it.  *)
CallbackReturns(t) ==
  \/ /\ ~freeing[t]
     /\ Goto(t, "callback", "wait")
     /\ UNCHANGED <<ctx, pub, crashed, token, freeing, link, gameVars, env>>
  \/ /\ freeing[t]
     /\ Goto(t, "callback", "returned")
     /\ FreeContext(t, "ok")
     /\ UNCHANGED <<token, freeing, link, gameVars, env>>

(* Read or write on a connection the peer closed: hiredis disconnects it,   *)
(* with an error, and frees it; the loop has nothing left to wait for.      *)
Disconnected(t) ==
  /\ ctx[t] = "connected" /\ link[t] = "down"
  /\ Goto(t, "wait", "returned")
  /\ FreeContext(t, "err")
  /\ UNCHANGED <<token, freeing, link, gameVars, env>>

(* The game thread freed the context: the loop finds no event and returns.  *)
LoopDrained(t) ==
  /\ ~Live(t)
  /\ Goto(t, "wait", "returned")
  /\ UNCHANGED <<token, ctx, freeing, link, pub, gameVars, env, crashed>>

ClearContext(t) ==
  /\ Goto(t, "returned", "release")
  /\ redisAsyncContext' = None
  /\ UNCHANGED <<isWorking, redisContext, ctx, freeing, link, pub, gameVars, env, crashed>>

(* redisAsyncFree once more, on the context the loop has already consumed.  *)
Release(t) ==
  /\ Goto(t, "release", "sleep")
  /\ redisAsyncFree(t)
  /\ UNCHANGED <<token, link, gameVars, env>>

(* Mutant: one attempt only, if instead of while.                           *)
MutNoRetry(t) ==
  /\ Goto(t, "sleep", "ended")
  /\ ctx' = [ctx EXCEPT ![t] = "none"]
  /\ UNCHANGED <<token, freeing, link, pub, gameVars, env, crashed>>

Sleep(t) ==
  /\ Goto(t, "sleep", "loop")
  /\ ctx' = [ctx EXCEPT ![t] = "none"]
  /\ UNCHANGED <<token, freeing, link, pub, gameVars, env, crashed>>

(* The steps the thread takes by itself; a message needs a sender. *)
DispatchStep(t) ==
  \/ WhileWorking(t) \/ AsyncConnect(t) \/ AsyncConnectError(t)
  \/ StoreContext(t) \/ Attach(t)
  \/ ConnectDone(t) \/ OnRedisConnected(t) \/ ConnectFailed(t)
  \/ CallbackReturns(t) \/ Disconnected(t) \/ LoopDrained(t)
  \/ ClearContext(t) \/ Release(t) \/ Sleep(t)

--------------------------------------------------------------------------------
(* The game thread. *)

(* Load: fresh token, new detached thread, hook installed. *)
Load ==
  /\ GameAt("idle") /\ ~loaded
  /\ QuietReload => \A t \in Threads : ~Alive(t)
  /\ \E t \in Threads : Goto(t, "ended", "loop")
  /\ isWorking' = TRUE /\ redisAsyncContext' = None /\ redisContext' = None
  /\ loaded' = TRUE
  /\ UNCHANGED <<ctx, freeing, link, pub, game, held, env, crashed>>

(* Mutant: the test for a null connection is missing. *)
MutNoNullCheck ==
  /\ GameAt("idle") /\ loaded /\ isWorking
  /\ game' = "checked"
  /\ UNCHANGED <<token, dispatch, pub, held, loaded, env, crashed>>

(* The hook's guard: publish only on a connection without an error.         *)
HookCheck ==
  /\ GameAt("idle") /\ loaded
  /\ isWorking /\ redisContext # None
  /\ pub[redisContext] # "err"
  /\ game' = "checked"
  /\ Touches(pub[redisContext] = "freed")
  /\ UNCHANGED <<token, dispatch, pub, held, loaded, env>>

(* The pointer is read again for the blocking PUBLISH. *)
HookSend ==
  /\ GameAt("checked")
  /\ game' = "sending" /\ held' = redisContext
  /\ UNCHANGED <<token, dispatch, pub, loaded, env, crashed>>

(* A lost peer shows only now, as an error that sticks to the connection.   *)
HookReply ==
  /\ GameAt("sending")
  /\ pub' = [pub EXCEPT ![held] = IF @ = "broken" THEN "err" ELSE @]
  /\ Touches(pub[held] = "freed")
  /\ game' = "idle" /\ held' = None
  /\ UNCHANGED <<token, dispatch, loaded, env>>

UnloadStop ==
  /\ GameAt("idle") /\ loaded
  /\ isWorking' = FALSE
  /\ game' = "unload"
  /\ UNCHANGED <<redisAsyncContext, redisContext, dispatch, pub, held, loaded, env, crashed>>

UnloadRead ==
  /\ GameAt("unload")
  /\ IF redisAsyncContext = None THEN game' = "unhook" /\ held' = held
     ELSE game' = "freeing" /\ held' = redisAsyncContext
  /\ UNCHANGED <<token, dispatch, pub, loaded, env, crashed>>

(* The compiler may use the pointer it tested or read it once more; by then *)
(* the thread may have cleared it, and freeing a null context ends the      *)
(* process.                                                                 *)
UnloadFree ==
  /\ GameAt("freeing")
  /\ \/ \E t \in {held, redisAsyncContext} \ {None} : redisAsyncFree(t)
     \/ redisAsyncContext = None /\ crashed' = TRUE /\ UNCHANGED <<ctx, freeing, pub>>
  /\ game' = "unhook" /\ held' = None
  /\ UNCHANGED <<token, pc, link, loaded, env>>

(* Hook and command removed, FreeLibrary. A live dispatch thread either     *)
(* keeps the module mapped (its runtime holds a reference) or is left       *)
(* without code.                                                            *)
UnloadFinish ==
  /\ GameAt("unhook")
  /\ game' = "idle" /\ loaded' = FALSE
  /\ Touches(\E t \in Threads : Alive(t))
  /\ UNCHANGED <<token, dispatch, pub, held, env>>

GameStep == HookSend \/ HookReply \/ UnloadRead \/ UnloadFree \/ UnloadFinish

--------------------------------------------------------------------------------
(* The surroundings: the Redis server and its connections; the operator     *)
(* starts a crashed server again.                                           *)

Lost(p) == IF pub[p] = "ok" THEN "broken" ELSE pub[p]

RedisDown ==
  /\ redisUp /\ ~stable
  /\ redisUp' = FALSE
  /\ link' = [t \in Threads |-> "down"]
  /\ pub' = [p \in Pubs |-> Lost(p)]
  /\ UNCHANGED <<token, pc, ctx, freeing, gameVars, stable, crashed>>

RedisStarts ==
  /\ ~redisUp
  /\ redisUp' = TRUE
  /\ UNCHANGED <<token, dispatch, pub, gameVars, stable, crashed>>

DropAsync(t) ==
  /\ ~stable /\ Live(t) /\ link[t] = "up"
  /\ link' = [link EXCEPT ![t] = "down"]
  /\ UNCHANGED <<token, pc, ctx, freeing, pub, gameVars, env, crashed>>

DropPub(p) ==
  /\ ~stable /\ pub[p] = "ok"
  /\ pub' = [pub EXCEPT ![p] = "broken"]
  /\ UNCHANGED <<token, dispatch, gameVars, env, crashed>>

Stabilise ==
  /\ redisUp /\ ~stable
  /\ stable' = TRUE
  /\ UNCHANGED <<token, dispatch, pub, gameVars, redisUp, crashed>>

Environment ==
  \/ RedisDown \/ RedisStarts \/ Stabilise
  \/ \E t \in Threads : DropAsync(t)
  \/ \E p \in Pubs : DropPub(p)

Restart ==
  /\ crashed /\ crashed' = FALSE
  /\ isWorking' = FALSE /\ redisAsyncContext' = None /\ redisContext' = None
  /\ pc' = [t \in Threads |-> "ended"]
  /\ ctx' = [t \in Threads |-> "none"]
  /\ freeing' = [t \in Threads |-> FALSE]
  /\ link' = [t \in Threads |-> "down"]
  /\ pub' = [p \in Pubs |-> "none"]
  /\ game' = "idle" /\ held' = None /\ loaded' = FALSE
  /\ UNCHANGED env

--------------------------------------------------------------------------------
Next ==
  \/ \E t \in Threads : DispatchStep(t) \/ OnMessage(t)
  \/ Load \/ HookCheck \/ UnloadStop \/ GameStep
  \/ Environment \/ Restart

Spec == Init /\ [][Next]_vars

(* The operating system runs every thread; nobody is obliged to chat, load, *)
(* unload, restart, or keep Redis running.                                  *)
Fairness ==
  /\ \A t \in Threads : WF_vars(DispatchStep(t))
  /\ WF_vars(GameStep)

FairSpec == Spec /\ Fairness

--------------------------------------------------------------------------------
(* The promise this module keeps when reloads are quiet: Subscription, with *)
(* the connected contexts as its subscriptions.                             *)
Promise == INSTANCE Subscription WITH
  Subscribers <- Threads,
  active      <- isWorking,
  subs        <- {t \in Threads : ctx[t] = "connected"}

(* Refinement: connecting, losing, freeing and reloading never hold two     *)
(* subscriptions, never swap one for another, and never carry one from one  *)
(* load over to the next (dispatch 307-328, UnLoad, Load).                  *)
KeepsPromise == Promise!Spec

Subscribed(t) == ctx[t] = "connected"

(* Safety: however threads, reconnects and reloads interleave, no two       *)
(* async contexts are live at once, so a message is delivered once.         *)
(* dispatch() frees a context before it opens the next (lines 309-328).     *)
AtMostOneConnection ==
  \A t, u \in Threads : Live(t) /\ Live(u) => t = u

(* Safety: the publish connection the chat hook may pick up, or is blocked  *)
(* in, is never one that OnRedisDisConnected has freed: the token keeps the *)
(* dangling pointer (line 119), and only isWorking keeps the hook off it.   *)
PublishNeverDangles ==
  /\ isWorking /\ redisContext # None => pub[redisContext] # "freed"
  /\ game = "sending" => pub[held] # "freed"

(* Safety: a dispatch thread that ended left no async context open, for     *)
(* any pattern of loads and unloads.                                        *)
EndedThreadHoldsNothing ==
  \A t \in Threads : ~Alive(t) => ~Live(t)

(* Safety: while the plugin works a dispatch thread is alive to serve it.   *)
WorkingHasDispatcher ==
  isWorking => \E t \in Threads : Alive(t)

(* Liveness: when Redis stays up, a working plugin ends up subscribed       *)
(* (README-en.md:51, retry until the connection is successful).             *)
Resubscribes ==
  (stable /\ isWorking) ~> (~isWorking \/ crashed \/ \E t \in Threads : Subscribed(t))

(* What makes these invariants inductive. For any reloads: a thread holds a *)
(* live context only between connecting and the return of the event loop.   *)
Holding == {"store", "attach", "wait", "onConnect", "callback"}

ContextWhileHolding == \A t \in Threads : Live(t) => pc[t] \in Holding

(* The game thread leaves isWorking set from Load to UnLoad, and not after. *)
GamePhase ==
  /\ isWorking => loaded /\ game \in {"idle", "checked", "sending"}
  /\ loaded /\ game \in {"idle", "checked", "sending"} => isWorking
  /\ game # "idle" => loaded

(* For quiet reloads: one thread at a time, and only UnLoad marks a context. *)
OneThread      == \A t, u \in Threads : Alive(t) /\ Alive(u) => t = u
MarkedByUnload == \A t \in Threads : freeing[t] /\ pc[t] \in Holding => ~isWorking

AnyReloadInv   == TypeOK /\ ContextWhileHolding /\ GamePhase /\ WorkingHasDispatcher
QuietReloadInv == AnyReloadInv /\ OneThread /\ MarkedByUnload /\ PublishNeverDangles

(* Liveness: when Redis stays up, a working plugin ends up with a publish   *)
(* connection that works (README-en.md:51).                                 *)
PublishHeals ==
  (stable /\ isWorking) ~>
    (~isWorking \/ crashed \/ (redisContext # None /\ pub[redisContext] = "ok"))

(* Liveness: an unloaded plugin's dispatch thread ends (README-en.md:19 of  *)
(* src/, "fully support hot loading, hot unloading, and hot reloading").    *)
UnloadEndsDispatch ==
  (~isWorking /\ ~loaded) ~> (loaded \/ crashed \/ \A t \in Threads : ~Alive(t))

(* Safety: a message of another server is displayed once: a working plugin  *)
(* has one subscription (src/README-en.md:19, hot loading and unloading).   *)
DisplayedOnce ==
  isWorking => \A t, u \in Threads : Subscribed(t) /\ Subscribed(u) => t = u
================================================================================
