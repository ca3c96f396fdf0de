-------------------------------- MODULE GameHooks --------------------------------
(****************************************************************************)
(* The framework's hooks of the game (HooksImpl.cpp) with what they drive:  *)
(* the callbacks that plugins and the framework itself have registered      *)
(* (Commands.cpp), Requests on the world's tick, Timer on the game state's  *)
(* timer of one second, the check for changed plugins after it, and the map *)
(* of players. All of it is the game thread's; the threads of the requests  *)
(* run beside it.                                                           *)
(*                                                                          *)
(* A plugin registers a callback for each of the two passes when it is      *)
(* loaded and takes both back when it is unloaded. Nothing takes back a     *)
(* function given to the timer, or a request.                               *)
(****************************************************************************)
EXTENDS Requests, Timer, Players, Commands

CONSTANTS Plugins, None,
          Owner,         \* Owner[x]: plugin whose code job or request x calls
          Casts          \* which plugins, jobs, requests and controllers there may be

ASSUME OwnersAssumption == \A x \in Jobs \cup Reqs : Owner[x] \in Plugins
ASSUME CastsAssumption == \A c \in Casts : c \subseteq Plugins \cup Jobs \cup Reqs \cup Controllers
ASSUME PluginsAssumption ==
  None \notin Plugins /\ {"TimerUpdate", "RequestsUpdate"} \cap Plugins = {}

VARIABLES ticks, timers,   \* on_tick_callbacks_, on_timer_callbacks_
          mapped,          \* plugins whose library is in memory
          where,           \* the game thread: elsewhere, in a pass over callbacks, in
                           \* DetectPluginChanges
          pass,            \* the pass is over ticks, or over timers
          walk,            \* what is left of the pass's copy of the vector
          body,            \* the plugin whose callback runs, or None
          quit,            \* history: plugins that took their timer callback back
          calm,            \* from now on nothing throws and no plugin is unloaded
          cast             \* those that are there; never changes

hookVars == <<ticks, timers, mapped, where, pass, walk, body, quit, calm, cast>>
vars     == <<hookVars, requestVars, timerVars, playerVars>>

Init ==
  /\ RequestsInit /\ TimerInit /\ PlayersInit
  /\ ticks = << >> /\ timers = << >> /\ mapped = {}
  /\ where = "idle" /\ pass = "ticks" /\ walk = << >> /\ body = None /\ calm = FALSE /\ quit = {}
  /\ cast \in Casts

(* A call into a library that is no longer there, or a wild pointer in      *)
(* Timer's loop, ends the process.                                          *)
Gone(x) == Owner[x] \notin mapped
Crashed == \/ wild \/ (body # None /\ body \notin mapped)
           \/ (running # NoJob /\ Gone(running)) \/ (current # NoRequest /\ Gone(current))

(* Code of plugin p may be running: its callback, its function, the         *)
(* callback of its request, or something else the game calls.               *)
InCode(p) ==
  /\ ~Crashed /\ p \in mapped
  /\ \/ where = "idle" \/ body = p
     \/ (running # NoJob /\ Owner[running] = p) \/ (current # NoRequest /\ Owner[current] = p)

(****************************************************************************)
(* What plugins do.                                                         *)
(****************************************************************************)
(* The first use of Timer::Get and of Requests::Get registers their Update. *)
Registered(vec, id) == IF Has(vec, id) THEN vec ELSE AddCommand(vec, id, id)

GiveJob(j) ==
  /\ j \in cast /\ InCode(Owner[j]) /\ Give(j)
  /\ timers' = Registered(timers, "TimerUpdate")
  /\ UNCHANGED <<ticks, mapped, where, pass, walk, body, quit, calm, cast, requestVars, playerVars>>

SendRequest(r) ==
  /\ r \in cast /\ InCode(Owner[r]) /\ CreateRequest(r)
  /\ ticks' = Registered(ticks, "RequestsUpdate")
  /\ UNCHANGED <<timers, mapped, where, pass, walk, body, quit, calm, cast, timerVars, playerVars>>

(* A callback that wants to be called no more. *)
RemoveOnTimerCallback(p) ==
  /\ body = p /\ pass = "timers" /\ InCode(p) /\ Has(timers, p)
  /\ timers' = RemoveCommand(timers, p) /\ quit' = quit \cup {p}
  /\ UNCHANGED <<ticks, mapped, where, pass, walk, body, calm, cast, requestVars, timerVars, playerVars>>

(* Plugin_Init and Plugin_Unload, from a console command or from            *)
(* DetectPluginChanges. The code puts only DetectPluginChanges after the    *)
(* pass; that the console commands plugins.load and plugins.unload come     *)
(* from the game, between passes, and not from a callback that calls        *)
(* ConsoleCommand itself, is an assumption about the plugins.               *)
MutDuringPass == where \in {"idle", "detect"} \/ (where = "walk" /\ pass = "timers" /\ body = None)

MayChangePlugins == where \in {"idle", "detect"}

LoadPlugin(p) ==
  /\ ~Crashed /\ MayChangePlugins /\ p \in cast \ mapped /\ mapped' = mapped \cup {p}
  /\ ticks' = AddCommand(ticks, p, p) /\ timers' = AddCommand(timers, p, p)
  /\ quit' = quit \ {p}
  /\ UNCHANGED <<where, pass, walk, body, calm, cast, requestVars, timerVars, playerVars>>

UnloadPlugin(p) ==
  /\ ~Crashed /\ MayChangePlugins /\ ~calm /\ p \in mapped /\ mapped' = mapped \ {p}
  /\ ticks' = RemoveCommand(ticks, p) /\ timers' = RemoveCommand(timers, p)
  /\ UNCHANGED <<where, pass, walk, body, quit, calm, cast, requestVars, timerVars, playerVars>>

(****************************************************************************)
(* The hooks of Tick and DefaultTimer.                                      *)
(****************************************************************************)
Start(name, callbacks) ==
  /\ ~Crashed /\ where = "idle" /\ where' = "walk" /\ pass' = name /\ walk' = callbacks
  /\ UNCHANGED <<ticks, timers, mapped, body, quit, calm, cast, requestVars, timerVars, playerVars>>

Tick         == Start("ticks", ticks)
DefaultTimer == Start("timers", timers)

Between == ~Crashed /\ where = "walk" /\ body = None /\ step = "rest" /\ update = "rest"

NextCallback ==
  /\ Between /\ walk # << >> /\ walk' = Tail(walk)
  /\ CASE Head(walk).text = "TimerUpdate"    -> BeginUpdate /\ UNCHANGED <<body, requestVars>>
       [] Head(walk).text = "RequestsUpdate" -> Update /\ UNCHANGED <<body, timerVars>>
       [] OTHER -> body' = Head(walk).owner /\ UNCHANGED <<requestVars, timerVars>>
  /\ UNCHANGED <<ticks, timers, mapped, where, pass, quit, calm, cast, playerVars>>

(* The check for changed plugins follows the pass over timers. *)
EndPass ==
  /\ Between /\ walk = << >>
  /\ where' = IF pass = "timers" THEN "detect" ELSE "idle"
  /\ UNCHANGED <<ticks, timers, mapped, pass, walk, body, quit, calm, cast, requestVars, timerVars, playerVars>>

EndDetect ==
  /\ ~Crashed /\ where = "detect" /\ where' = "idle"
  /\ UNCHANGED <<ticks, timers, mapped, pass, walk, body, quit, calm, cast, requestVars, timerVars, playerVars>>

BodyReturns ==
  /\ ~Crashed /\ body # None /\ body' = None
  /\ UNCHANGED <<ticks, timers, mapped, where, pass, walk, quit, calm, cast, requestVars, timerVars, playerVars>>

InTimer ==
  /\ ~Crashed /\ (VisitFreed \/ Visit \/ FunctionReturns \/ EndUpdate)
  /\ UNCHANGED <<hookVars, requestVars, playerVars>>

InRequests ==
  /\ ~Crashed /\ (TakeOver \/ CallBack \/ CallbackReturns \/ EndLoop)
  /\ UNCHANGED <<hookVars, timerVars, playerVars>>

(* An exception leaves the whole hook. *)
Throw ==
  /\ ~Crashed /\ ~calm /\ where' = "idle" /\ walk' = << >>
  /\ \/ body # None /\ body' = None /\ UNCHANGED <<requestVars, timerVars>>
     \/ FunctionThrows /\ UNCHANGED <<body, requestVars>>
     \/ CallbackThrows /\ UNCHANGED <<body, timerVars>>
  /\ UNCHANGED <<ticks, timers, mapped, pass, quit, calm, cast, playerVars>>

(****************************************************************************)
(* The other hooks, time and the requests' threads.                         *)
(****************************************************************************)
PlayerHook(c) ==
  /\ ~Crashed /\ where = "idle" /\ c \in cast
  /\ Login(c) \/ SetPlayerController(c) \/ RemovePlayerController(c)
  /\ UNCHANGED <<hookVars, requestVars, timerVars>>

TimePasses == ~Crashed /\ where = "idle" /\ Elapse /\ UNCHANGED <<hookVars, requestVars, playerVars>>

RequestThread(r) == ~Crashed /\ ThreadStep(r) /\ UNCHANGED <<hookVars, timerVars, playerVars>>

CalmDown == /\ ~calm /\ calm' = TRUE
            /\ UNCHANGED <<ticks, timers, mapped, where, pass, walk, body, quit, cast,
                           requestVars, timerVars, playerVars>>

GameThread == NextCallback \/ EndPass \/ EndDetect \/ BodyReturns \/ InTimer \/ InRequests

Next == \/ \E j \in Jobs : GiveJob(j)
        \/ \E r \in Reqs : SendRequest(r)
        \/ \E p \in Plugins : RemoveOnTimerCallback(p)
        \/ \E p \in Plugins : LoadPlugin(p)
        \/ \E p \in Plugins : UnloadPlugin(p)
        \/ Tick \/ DefaultTimer \/ GameThread \/ Throw
        \/ \E c \in Controllers : PlayerHook(c)
        \/ TimePasses
        \/ \E r \in Reqs : RequestThread(r)
        \/ CalmDown

Spec == Init /\ [][Next]_vars

FairSpec ==
  /\ Spec /\ WF_vars(GameThread) /\ SF_vars(Tick) /\ SF_vars(DefaultTimer) /\ SF_vars(TimePasses)
  /\ \A r \in Reqs : WF_vars(RequestThread(r))

(****************************************************************************)
(* Properties.                                                              *)
(****************************************************************************)
Registrations == {"TimerUpdate", "RequestsUpdate"} \cup Plugins
Callbacks == [text : Registrations, owner : Registrations]

(* Every variable keeps its type. *)
TypeOK ==
  /\ RequestsTypeOK /\ TimerTypeOK /\ PlayersTypeOK
  /\ ticks \in Seq(Callbacks) /\ timers \in Seq(Callbacks) /\ walk \in Seq(Callbacks)
  /\ mapped \cup quit \subseteq Plugins /\ body \in Plugins \cup {None} /\ calm \in BOOLEAN
  /\ where \in {"idle", "walk", "detect"} /\ pass \in {"ticks", "timers"} /\ cast \in Casts

(* A pass never calls into a library that has been freed, although it walks *)
(* a copy of the vector: libraries go only between passes (the comment at   *)
(* HooksImpl.cpp:168).                                                      *)
PassCallsLive == body # None => body \in mapped

(* Once nothing throws, the result of a request reaches its callback.       *)
ResultArrives ==
  \A r \in Reqs : (calm /\ thread[r] = "answered") ~> (r \in called \cup dropped \/ Crashed)

(* Once nothing throws, a recurring function runs as often as was asked     *)
(* for, or again and again.                                                 *)
Recurs ==
  \A j \in {k \in Jobs : ~Kind[k].once} : (calm /\ Pending(j)) ~>
    (Crashed \/ running = j \/ (Limited(j) /\ ran[j] = Kind[j].count))

(* Once nothing throws, a registered callback is called every second        *)
(* (ICommands.h:51), until it is taken back, whatever others register and   *)
(* remove.                                                                  *)
CalledAgain ==
  \A p \in Plugins : (calm /\ p \in mapped \ quit) ~>
    (Crashed \/ p \in quit \/ (body = p /\ pass = "timers"))

(* A delayed function runs after its delay (Timer.h:21).                    *)
DelayedRuns ==
  \A j \in {k \in Jobs : Kind[k].once} : (calm /\ Pending(j)) ~> (ran[j] > 0 \/ Crashed)
==================================================================================
