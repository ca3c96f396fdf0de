# IshunseiARK-Plugins in TLA+

The verification project of the plugin collection in `src/`: TLA+ modules
translated from the C++ source, TLC configurations that check them on small
instances, and TLAPS proofs of the results that matter most for every size.
Run everything from this directory, e.g.
`tlc -config RedisLinkLive.cfg MCRedisLink` and `tlapm RedisLinkProofs.tla`.
Below, *C* is `src/CrossServerChat/CrossServerChat.h`, *R* is
`CrossServerChatRedis.h` and *G* is `CrossServerChatConfig.h` beside it, and
*F* is `src/Framework-ArkServerApi/version/Core/Private`.

## 1. The system

An ARK game server process loads `version.dll`, the ArkServerApi framework. It
patches game functions (hooks) and loads plugins, which are DLLs with a
`Plugin_Init` and a `Plugin_Unload`. Four plugins are in the repository: chat
across the servers of a cluster (CrossServerChat), and three that answer chat
commands. Almost everything runs on the game thread. The exceptions are the
detached *dispatch* thread of CrossServerChat, which talks to Redis, and the
framework's threads for HTTP requests. The operator installs, updates, reloads
and removes plugins while the server runs.

| Component | Source | State | Operations |
|---|---|---|---|
| Redis link | *R* `dispatch`, `OnRedisConnected`, `OnRedisDisConnected`; *C* `Load`, `UnLoad` | `CurrentPluginToken` {isWorking, redisAsyncContext, redisContext}; one hiredis context per turn of the loop | connect, subscribe, lose, free, sleep, publish, load, unload |
| Chat configuration | *G* `from_json`, `ReadServerName`, `ReadConfig` | `CurrentPluginConfig` | read, refuse, assign, look up a player |
| Chat relay | *C* `HandlerPlayerMessage`, the `ClientChatMessage` hook, Reload; *R* `OnRedisMessage` | the message being sent to its recipients, the channel, the message being relayed | intercept, publish, receive, format, deliver |
| Hooks | *F*`/Hooks.cpp` | per function a vector of detours; the patched code | `SetHook`, `DisableHook` |
| Commands | *F*`/Commands.h`, `.cpp` | vectors of chat, console and RCON commands, tick, timer and chat callbacks | add, remove, look up and call |
| Plugin manager | *F*`/PluginManager/PluginManager.cpp`, `Ark/ArkBaseApi.cpp` | `loaded_plugins_`, the DLL files, the timer | load all, load, unload, automatic reload |
| Command plugins | `Suicide.h`, `DinosaurTracker.h`, `LostPackagesFinder.h` | `config`, their commands | Load, UnLoad, Reload, the commands |
| Timer | *F*`/Tools/Timer.cpp` | vector of timed callbacks | delay, repeat, update |
| Requests | *F*`/Tools/Requests.cpp` | finished HTTP requests waiting for a tick | create, update |
| ApiUtils, game hooks | *F*`/Ark/ApiUtils.cpp`, `Ark/HooksImpl.cpp` | player id to controller, last chat time | login, logout, chat |

How they interact, what is hard about each, and what makes it correct:

- **Redis link.** The dispatch thread and the game thread share the token with
  no lock or atomic. hiredis frees a context in several ways (failed connect,
  lost peer, `redisAsyncFree`, a mark left for after a callback), and `dispatch`
  frees it once more. `Load` overwrites the token although the previous detached
  thread may be alive. Correct: a working plugin gets subscribed again whatever
  happened, has one subscription, publishes only on a connection that exists,
  and an unloaded one leaves no thread or connection behind.
- **Relay.** The game calls the hook once per recipient; the copy for the sender
  publishes. The Redis thread shows a relayed message by calling the same hooked
  function. `replaceLocalMessage` is read at the hook and again when the message
  returns; Reload assigns the configuration on the other thread. Correct: every
  message is published once, reaches its audience and nobody else, once, and
  local chat survives a broken Redis or configuration.
- **Hooks.** The detours on a function form a chain of patched entries and
  trampolines. `DisableHook` takes the whole chain apart and sets the rest again,
  possibly while one of the detours is running. Correct: the chain always goes
  through exactly the hooks in force, and a running detour can call on.
- **Plugins and their commands.** `LoadLibrary` counts references, `Plugin_Init`
  and `Plugin_Unload` may throw half-way, a `Reload` removes commands by the
  configuration in force and adds those of the new file; an update is unloading,
  copying, removing the delivered file, loading, and each may fail. Correct: no
  command of one plugin alone leads into freed code, no update is lost, no plugin
  loses its commands by what is done to another that does not have them, a plugin
  updated under good conditions runs again. Nothing keeps two plugins from being
  given the same command, and removal goes by the text alone.
- **Timer, Requests, callbacks, ApiUtils.** Vectors that grow or shrink while
  they are walked; results that arrive in any order; a map entry that outlives
  or is erased too early for a player's controller.

The complete list of hazards, each at its line, is in `PROJECT.json`.

## 2. Modules

| Module | Models | Composes |
|---|---|---|
| `RedisLink` | the token, the dispatch threads, hiredis and libevent as they use them, the publishing hook, Load, UnLoad | implements `Subscription` |
| `Subscription` | abstract: at most one subscription, given up before the next, none carried over to the next activation | |
| `ChatSettings` | configuration as operators: a file to a configuration, a player to its settings | |
| `ChatRelay` | several servers: hook, Reload, Redis callback, the channel | extends `ChatSettings`, implements `ChatBoard` |
| `ChatBoard` | abstract: a line is shown at most once to each player of its audience, which for a muted player is the player alone; `HomeSpec` is what is left of it when the game lets a muted player be overheard | |
| `HookChain` | `SetHookInternal`, `DisableHook` and the code they patch, calls by the game thread and others | implements `HookList` |
| `HookList` | abstract: detours in a list, the last set is called first | |
| `Commands` | a vector of commands as operators | |
| `PluginHost` | the plugin manager, `plugins.load`/`unload`, Load/UnLoad/Reload of the command plugins, the operator's files, crashes | extends `Commands` |
| `Timer` | the vector of timed functions, its growth, and `Update`'s loop over it | |
| `Requests` | the threads of HTTP requests, the mutex, `Update`'s loop over the results | implements `Mailbox` |
| `Mailbox` | abstract: results are handed over in the order of arrival, each once, and lost only behind a callback that throws | |
| `Players` | the map of player controllers, controllers coming and going | |
| `GameHooks` | the game thread in the framework's hooks: passes over tick and timer callbacks, the check for plugins after them, exceptions, plugins loaded and unloaded | extends `Timer`, `Requests`, `Players`, `Commands` |
| `MC...` | instances for TLC | |
| `...Proofs`, `SequenceLemmas` | the theorems, and the lemmas on sequences they share | |

### RedisLink

The token is three variables; `pc[t]` is where dispatch thread `t` stands in the
loop of *R* 307-348, `ctx[t]` the hiredis context of its current turn, `pub` the
publish connections by address, `game`/`held` the game thread inside the hook or
`UnLoad` and the pointer it carries. One action is one access to the token, one
callback or one hiredis call: `WhileWorking`, `AsyncConnect` or
`AsyncConnectError`, `StoreContext`, `Attach`, then the callbacks of the event
loop (`ConnectDone`, `OnRedisConnected`, `ConnectFailed`, `OnMessage`,
`CallbackReturns`, `Disconnected`, `LoopDrained`), `ClearContext`, `Release`,
`Sleep`. The hook is `HookCheck`, `HookSend`, `HookReply`: the blocking
`redisCommand` leaves room for anything in between. `UnLoad` is `UnloadStop`,
`UnloadRead`, `UnloadFree`, `UnloadFinish`; the pointer is read for the test and
again for the call (*C* 188, 190), so what is freed may be another than was tested,
or null. The environment takes Redis or a
connection down; `stable` says it does so no more.

Using what hiredis has freed is undefined, so such a step either goes unnoticed
or ends the process (`Touches`); `Restart` starts the server again. `Attach`
stands for the calls from the event base to the queued SUBSCRIBE, none of which
touches the token.

### ChatSettings, ChatRelay

A configuration keeps what decides about messages: the flags, the server name,
each player's and group's `disabled`, and whether the format has a placeholder.
`ClientChatMessage` is the whole hook for one recipient: `PassedOn`, `Publishes`,
`PublishOn`, `ShowOnFailure` and `Original` are its branches. `StartReload` and
`AssignConfig` are the two ends of the copy into `CurrentPluginConfig`; a use of
it in between may end the process (`Crash`). A file the reader refuses raises an
exception nobody catches: the game goes on as before or dies (`RefuseReload`).
`OnMessage`, `Format` and `Deliver` are the parts of `OnRedisMessage`: what is
wanted is decided with one look at the configuration, the text is made with
another, and the message is then shown player by player.
A publish is one step here; `RedisLink` splits it. `terms[m]` is the configuration
of the sender's server when message `m` was said: no variable of the code but a
history, so that properties can say what a message was said under.

The documentation says that muted users can only see their own messages, and so
does `ChatBoard`. The code does not keep it: the hook hands a muted player's line
to the game for every recipient (*C* 37-43, 68-74). Run `chat_muted` shows that,
and `KeepsBoard` is about what the code does keep, `HomeSpec`: besides the promise
a muted line may reach those the game itself addresses, and nobody else.

### HookChain

`jump[a]` is what the entry of function `a` was patched to jump to, and
`original[d]` whose body the trampoline of detour `d` runs. `Attach` is the
successful `DetourAttach` with its commit and the assignment that follow each
other; `DisableHook` is the one transaction that detaches everything, and
`Enable` one turn of the loop that sets the rest again. What `SetHookInternal`
returns there is not looked at: a hook that Detours refuses is forgotten by the
vector although its owner still counts on it (`lost`), and its later
`DisableHook` finds nothing (`DisableLost`). Calls are followed entry by entry
(`Follow`), so hooks may change between any two, by the detour that is running;
another thread may be anywhere. In `HookList` the same loss is the step `Lose`:
a lost hook is called no more, and if it was running it cannot call on.

### Commands, PluginHost

`refs` counts `LoadLibrary` against `FreeLibrary`; `config`, `chat` and `console`
are the plugins' globals and the command vectors, in order; an entry's callback
is reduced to the plugin whose code it is. `LoadPlugin` and `UnloadPlugin` are
the manager's functions with the plugin's `Load` and `UnLoad` inside, each with
the place where it may throw: the file cannot be read, or the command lists hold
a missing key or a wrong item, after some commands. The timer's walk over the
directories is one action per file operation (`Visit`, `Copy`, `RemoveNew`,
`Load`), since the process may die between two; the walk at the start shares
them. `Die` is any end of the process, an escaped exception included.
A `Plugin_Init` that succeeds is still followed by the entry of `loaded_plugins_`,
which throws on a wrongly typed PluginInfo.json; the plugins in `BadInfo` may have
one (`Misdescribed`). Their commands and library stay, unknown to the manager.
Commands are added without a look at who has them and removed by text, so
`OwnTexts` are the ones only one plugin may ever be given, and `AlsoOf` says that
another has a command in its configuration in force.
`sound` says that from now on files are in order and nobody interferes.
The three plugins differ in the names and number of their lists only.

### Timer, Requests, Players, GameHooks

`Timer`: `timer_funcs` and `capacity` are the vector; `at`, `end` and `moved` are
the loop of `Update` (`Timer.cpp` 71-102), whose iterators were taken before any
function ran. `Give` is `DelayExecuteInternal` and `RecurringExecuteInternal`;
the vector grows by half as the library's does, and when it grows under the loop
the rest of the loop reads the old buffer (`VisitFreed`): pointers that were
moved out, which are null, or anything. `Visit` is one turn with its four
branches, `FunctionReturns` and `FunctionThrows` its end, `EndUpdate` the
`remove_if`. An entry keeps the time it has still to wait; `Elapse` lets the time
pass at which some entry comes nearer.

`Requests`: `thread[r]` is the thread of request `r`, from the call over
`Answered` and `WriteLock` to `WriteRequest`'s push under the mutex. `Update` is
the test without the lock, `TakeOver` the swap under it, then `CallBack`,
`CallbackReturns` or `CallbackThrows`, and `EndLoop`.

`Players`: `SetPlayerController` and `RemovePlayerController` are the two
functions of `ApiUtils.cpp`, called by the hooks of Possess, of
ServerReceivedPlayerControllerAck and of Logout.

`GameHooks`: `where`, `pass`, `walk` and `body` are the game thread in
`Hook_UWorld_Tick` and `Hook_AGameState_DefaultTimer`: a pass walks a copy of the
vector of callbacks (`NextCallback`), two of which are the `Update` of `Timer` and
of `Requests`, and after a pass over timers plugins may be exchanged
(`EndPass`, `EndDetect`). Code of a plugin runs in its callbacks, in functions
and request callbacks it gave away, and in hooks of its own; there it may use the
timer, send requests, or take its callback back (`InCode`). `Throw` is an
exception that leaves the whole hook. Nothing takes back a function or a request
of an unloaded plugin; running one ends the process (`Crashed`). `calm` says that
from now on nothing throws and no plugin is unloaded; `cast` fixes which plugins,
functions, requests and controllers take part in a behaviour.

## 3. Runs

| Run | Instance | Shows |
|---|---|---|
| `link_live` | 1 thread, 3 publish connections, quiet reloads, fairness | the hook never uses a freed connection, an ended thread holds none, a working plugin has a thread, `Resubscribes`, and `Subscription` is implemented |
| `link_fast_reload` | 2 threads, 3 publish connections, loads at any time | **violated** `DisplayedOnce`: a Load before the old thread has seen UnLoad gives two subscriptions |
| `link_publish_heals` | as `link_live` | **violated** `PublishHeals`: a publish connection lost on its own is never made again |
| `link_unload` | as `link_live` | **violated** `UnloadEndsDispatch`: UnLoad between loop test and store misses the new context |
| `chat` | 2 servers, 3 players, reloads of two files under `SettledStep`, connections lost, unloads, 1 message | `PublishedOnce`, `LocalUnaffected`, a player's settings are the documented ones (`FollowsDocumentation`), and what is left of `ChatBoard` is implemented |
| `chat_reach` | the same players, sound connections, 2 messages | every message reaches those it is due to |
| `chat_muted` | the same players, sound connections, no reloads, 1 message | **violated** `MutedUnheard`: the other players of its server see a muted player's line, with `ReplaceLocalMessage` or without |
| `hooks` | 4 detours, 2 threads, hooks may fail to attach again | one chain, no detour twice or forgotten, a detour can call on, and `HookList` is implemented |
| `plugin_host` | 2 plugins that share a command, one with four states of its file, one with a bad PluginInfo.json, 2 versions, 2 references | `CommandsLive`, `KeepsAnswering`, `NoUpdateLost`, `UpdateRuns` |
| `plugin_stuck` | the same | **violated** `ReloadTakesFile`: after one bad file no Reload or unload works |
| `game_hooks` | eight casts of 2 plugins, 5 kinds of timed functions, 2 requests, 2 controllers of a player; fairness | a pass never calls freed code, no function runs too often or is dropped without reason, recurring functions and callbacks go on, results arrive once and in order, the map leads to live controllers |
| `timer_loses` | a plugin with three functions | **violated** `DelayedRuns`: a function given to the timer while another runs makes the vector move; the delayed functions behind it are removed unrun |

**Why the bounds are enough.** `link_live` needs one thread identity because a
quiet Load uses one again that ended. Two threads are the smallest overlap of
fast reloads, and three publish connections are those that can be referenced at
once: in the token, in the hands of the game thread, and a new one
(`PubsAssumption`). In the chat runs server `s1` has two players, so there are
copies for the sender and for another, both in two groups in either order; `s2`
receives. In `chat` a reload may give either server a file that mutes its
players, lists one of their groups twice, makes both servers of one name and
switches `ReplaceLocalMessage` on, or a file without a name, which `s2` takes and
`s1` refuses because its profile has no name either. In `chat_reach` files with
and without `ReplaceLocalMessage`, with the same and with different server names
are combined. One message is enough where properties are about one message;
`chat_reach` has two, so that one may be queued behind another. Four detours let one be disabled in the middle, and with one on either
side of it, while another is running. In `game_hooks` all parts at once would be
too many; each cast of `MCCasts` puts together what may meet: functions that
outgrow the buffer while others are due, a delay of nothing, two plugins whose
callbacks change the vectors, a plugin with two requests, a function beside a
request, and a player's old and new controller. The three functions of a cast are
the least with which a vector grows under the loop and one is still behind it. In
`plugin_host` the second reference to a library exists only after a failed start,
and a third adds nothing but another duplicate; one update per plugin meets every
combination with the other plugin's state. An edit of a file shows only where the
file is read, so `Edit` is enabled only there; a bad PluginInfo.json is left to
one plugin to keep the run short. In `chat` the action constraint `SettledStep`
leaves out one kind of reload, which breaks `KeepsBoard` (section 5): one that
changes the server's name or `ReplaceLocalMessage` while a message of the server's
own players is on its way back to it over the channel. All other reloads are
taken at any moment. The constants `MaxMessages`, `MaxVersion` and
`MaxRefs` are the only bounds in guards.

**Fairness.** `RedisLink`: each dispatch thread takes its own steps and the game
thread finishes what it began; the operating system runs both. Messages, loads,
unloads, and Redis itself are under no obligation; `Resubscribes` and
`PublishHeals` assume only that Redis ends up staying up (`stable`).
`ChatRelay`: both threads of a server that lives go on. `PluginHost`: the game
thread goes on, and the game calls `DefaultTimer` as long as it runs; `UpdateRuns`
assumes nothing is out of order after `sound`. `GameHooks`: the game thread and
each request's thread go on (weak fairness); the game calls Tick and
DefaultTimer, and lets time pass, again and again (strong fairness: between two
of its calls anything else may have the thread). Plugins are under no obligation.
Its liveness is promised from `calm` on, since an exception or an unload may undo
anything, and until a use of freed code ends the process.

**Deadlock** is checked for `RedisLink`. In the other modules it is switched off:
a chat with no messages left, dead servers, a crashed game or a plugin host with
nothing to do may stop.

## 4. Proofs

Proved for every number of threads, connections, detours, functions, requests,
plugins, controllers, servers and players, from the named assumptions on the
constants:

- `RedisLinkProofs`. `AnyReloadInv` (types, `ContextWhileHolding`: a thread holds
  a live context only between the connect and the return of the event loop,
  `GamePhase`: `isWorking` is set from Load to UnLoad, and `WorkingHasDispatcher`)
  is inductive for any reloads. It gives `TypeCorrect`, `EndedHoldsNothing` and
  `Dispatched`. With `QuietReload` it is strengthened to `QuietReloadInv`: one
  thread at a time, only UnLoad marks a context for freeing (so a connection is
  closed with status OK, the case that frees the publish connection, only when the
  hook will not look at it), and `PublishNeverDangles`. It gives
  `OneConnection`, `PublishSafe` and `Implements`, the refinement to
  `Subscription`. Without quiet reloads the last three are false, as
  `link_fast_reload` shows.
- `HookChainProofs`. `IInv` is `TypeOK`, `Chain`, `Once`, `Accounted` and
  `Freed`; attaching extends the chain because the detour is nowhere in it. It
  gives `ChainAlways`, `OnceAlways`, `AccountedAlways` and `HooksTyped`.
  `CallsSafe` adds `GameInv`: the detour running on the game thread remains in
  the vector or among those to be set again, because it does not disable itself.
- `HookListProofs`. `ChainImplementsList`: the chain implements `HookList`.
  `ListInv` adds `Entering`: a call on its way through the patched entries is
  headed for the newest detour. What a call has still to run is what lies below
  the running detour in the vector, and the lemmas on `Below` say how that
  changes when a detour is added, disabled or lost.
- `GameHooksProofs`. `RequestsTyped`, and `RequestsImplements`, the refinement to
  `Mailbox`: results taken over exist only while `Update` is in its loop
  (`TakenInLoop`), so taking over leaves the mailbox as it is.
- `TimerProofs`. `NeverTooOftenAlways` and `DropsAreRight` need to know how an
  entry's count relates to the runs its function had (`CountsLeft`), that a
  function has one entry (`OneEntry`), that a delayed one that ran is still due
  and behind the loop's place, so that `remove_if` takes it (`RanOnce`,
  `Passed`); unless an exception left the loop before that.
- Also in `GameHooksProofs`, `Composition`: seen through its own variables, each step of
  `GameHooks` is a step of `Requests`, of `Timer` and of `Players`; hence
  `HooksKeepPromises`, and `FindsLiveAlways` for the map. `PassCallsLiveAlways`
  rests on `Leads` and `OnceEach`: what is in the vectors, or left of the copy
  being walked, leads to libraries in memory, and since no callback is registered
  twice, one removal takes it out.
- `ChatRelayProofs`. `PublishedOnceAlways` rests on `Unpublished`: while the
  sender's own copy of a message waits, on the one server that has it, the
  message is not on the channel. `RelayTyped` gives `TypeOK`.
  `LocalUnaffectedAlways`, for any reloads, is about messages said where
  `ReplaceLocalMessage` is off; it needs that a message is dealt with under the
  terms it was said under (`Termed`, `InForce`: a reload waits for the game thread),
  and that the server's name is never empty, which the acceptance of files ensures
  (`Configured`). `DocumentationFollowed` compares what the walk over a player's
  groups finds with `Documented`, which looks at the places of the entries in the
  file and not at the maps the code makes of it: after each turn of the loop it has
  the last of the groups seen so far, in the order of the file (`BestAmong`), since
  an entry's priority is its place (`Ranked`). It is said of players and groups the
  file lists once (`ListedOnce`); for others the code keeps the first entry, the
  documentation the last. So in every state the settings in use are the documented
  ones for some whole file, reloaded ones as well.
  `BoardKept`, the refinement to `ChatBoard!HomeSpec`, holds as long as reloads
  are settled (`[]ReloadsSettled`): a server's name and `ReplaceLocalMessage`
  stay while messages of its own players are on their way back, everything else may
  change at any time. With other reloads it is false: the hook and the callback
  would decide differently about one message. `BoardInv` adds to the above: a
  message in a queue comes back to the name and the `ReplaceLocalMessage` it was said
  under (`Agreed`); what is on the channel was said openly by a player who was not
  muted (`Opened`); a message is in a queue once, and neither being shown there
  nor seen over the channel already (`Queued`, `Served`); one that is shown on its
  own server over the channel replaces the direct display (`Relayed`); and a player
  who saw it directly, on a server that replaces local messages, saw one that
  will not be published, because the hook passed it on or its sender's copy has
  been dealt with (`Direct`, `Committed`). `PromiseKept` is the whole of
  `ChatBoard!Spec` for behaviours in which no muted player says anything.
- `PluginHostProofs`. `NoUpdateLostAlways`: between the copy and the removal the
  delivered file and the installed one are the same version, wherever the process
  dies.
  `HostInv` gives `HostTyped`, `CommandsLiveAlways` and `KeepsAnsweringAlways`.
  That every command leads to a library in memory is not inductive. One must know
  that each entry is a text its plugin may be given, and that the plugin is in
  memory if no other may be given it (`Owners`); that the listed plugins
  are distinct and in memory (`Loads`); that a plugin whose library the next
  unload frees has no command more often than its configuration lists it, so that
  unloading, which removes one entry per text, leaves none (`Listed`: commands a
  failed start left behind belong to a library that start keeps referenced; the
  same for its console command); and
  that the walk loads a plugin only when none of it is mapped (`WalkInv`). So the
  lemmas count the entries with a text after several commands were added
  (`AddMany`) and removed (`RemoveMany`), by induction over the loop.
  `CommandsLiveAlways` is about commands one plugin alone may be given, and all
  console commands; `KeepsAnsweringAlways` about every command, shared or not: it
  names the plugins that may take one away, those whose configuration in force
  has it.
- `SequenceLemmas` has what vectors do, and induction over the turns of a loop
  (`LoopInduction`), with the set of turns after which the invariant holds as a
  value instead of an operator; `LoopRuns` says that a loop written as a recursive
  function has a value after each turn.

Only model-checked: every liveness property (`Resubscribes`, `Reach`,
`UpdateRuns`, `ResultArrives`, `Recurs`, `CalledAgain`), since fairness is beyond
the prover. The properties of the runs that expect a violation are false.

## 5. What is assumed, and left out

- The release build (`NDEBUG`): debug output is left out.
- Data races on the token are modelled at the granularity of its fields; on the
  configuration as "either value, or a crash". Freed memory: unnoticed, or a crash.
- An exception that leaves a plugin's console command is caught by nobody in the
  repository: the game survives or not.
- A DLL's file is not deleted, and `FreeLibrary` succeeds; the operator delivers an
  update when the last one has been taken. Command texts are compared without
  regard to case: texts that differ only in case are one text in `PluginHost`.
- Plugins do not use the manager's console commands (`plugins.load`,
  `plugins.unload`) from inside a callback (`MayChangePlugins`). Nothing in the
  code prevents it; `PassCallsLive` rests on it.
- The world exists when players chat; players do not join or leave; user ids in
  messages are numbers.
- Time is not modelled, only order: neither the pause of one second nor the
  blocking of the game thread by PUBLISH is measured. In `Timer` no time passes
  within one `Update`, and the clock is not set back.
- A vector grows by half, as that of the compiler the project is built with.
- A function of the timer is given to it once; the asynchronous variant of
  `RecurringExecute` runs on a thread of its own and touches nothing modelled.
- A POST whose two lists differ in length is refused before anything happens.
- The game knows a player's id when it logs the player out.

Not modelled: the PDB and offset readers, the logger and `version.cpp` (read or
write files once, no state that interacts), the vendored libraries except for
the callbacks that `RedisLink` needs, the Atlas copies of the Ark files, the
plugins' game actions (the engine's state), the text of messages
(`FormatMessageByTag`, icons, emoji).

Further differences seen while modelling, for which there is no run:

- An error that `redisAsyncConnect` reports at once is retried without a pause
  (*R* 314), though the documentation says every second.
- `dispatch` calls `redisAsyncFree` on a context that hiredis has freed by itself
  in every disconnect (*R* 327, action `Release`).
- Each reconnect forgets the previous publish connection; after an error it is
  never freed (*R* 87).
- A `ReplaceLocalMessage` that a Reload switches between the hook and the return
  of a message has it shown twice, or not at all (*R* 168).
- Without a publish connection the sender sees its own message at once, even where
  local messages are replaced (*C* 60).
- A group listed twice counts at its first place (`map.insert`, *G* 131), though the
  documentation says that the one nearest the bottom wins; a player listed twice
  likewise. `FollowsDocumentation` and its theorem exempt exactly these.
- Two plugins given the same command: unloading or reloading one removes the first
  entry with that text, which may be the other's (*F*`/Commands.h` 82). The other
  no longer answers (`AlsoOf` in `KeepsAnswering`), and an entry of the first may
  stay after its library is freed, so that the command runs freed code
  (`CommandsLive` is about `OwnTexts` for that reason).
- A plugin whose PluginInfo.json is wrongly typed runs but is not in
  `loaded_plugins_`: it cannot be unloaded, nor its file replaced by an update, before
  the server is restarted (`Misdescribed`).
- `DisableHook` returns true although another hook could not be set again
  (*F*`/Hooks.cpp` 129), and frees trampolines another thread may be about to call.
- A `Plugin_Init` that throws leaves its library mapped: the next update of it
  cannot be copied before the server is restarted.
- Functions given to the timer, and requests on their way, are not taken back
  when their plugin is unloaded: they run freed code (`Crashed` in `GameHooks`).
- When a player comes back before the old controller is logged out, that logout
  erases the entry of the new one: the player is not found until the next Possess
  (*F*`/Ark/ApiUtils.cpp` 71). `FindsLive` only says the map never leads astray.
- A POST request with empty lists calls `pop_back` on an empty body.
- Page 0 of DinosaurTracker's list starts at a negative index.

The mapped lines are a small share of the repository because most of it is
vendored or generated: SQLite, MySQL and OpenSSL headers, a JSON library, and the
declarations of the game's classes. The code that the project's own authors wrote
and that does something is about 4 800 lines.

## 6. Plan

Done: `RedisLink` with `Subscription`; `ChatSettings`, `ChatRelay`, `ChatBoard`;
`HookChain`, `HookList`; `Commands`, `PluginHost`; `Timer`, `Requests` with
`Mailbox`, `Players`, and `GameHooks`, which composes them; the proofs of
section 4.

Left, in this order:

1. Hooks and libraries in one module: a plugin whose `DisableHook` fails, or that
   is unloaded while one of its detours runs.
2. The chat hook of the framework: the spam check, chat commands, and the chat
   message callbacks (`Commands.cpp` 115-131); RCON commands.
3. Pure operators against reference definitions: the paging of DinosaurTracker
   at its limits, `LoopReplace`, the format tags of the chat.
