------------------------------- MODULE PluginHost -------------------------------
(****************************************************************************)
(* The plugin manager of one server with the plugins that add chat commands *)
(* (Suicide, DinosaurTracker, LostPackagesFinder): loading at the start,    *)
(* plugins.load and plugins.unload, each plugin's Reload command, and the   *)
(* timer's check for updated libraries. All of it runs on the game thread;  *)
(* the operator changes files, and the process may die, between its steps.  *)
(*                                                                          *)
(* A plugin's config.json is reduced to the commands it lists. A file may   *)
(* be unreadable, or throw where the list is walked: a missing key, or an   *)
(* item that is not a string. What is walked before that is in texts.       *)
(****************************************************************************)
EXTENDS Commands, FiniteSets

CONSTANTS
  Plugins,      \* the plugin directories
  Contents,     \* Contents[p]: what config.json of p may be: Unreadable, or
                \* a file [texts, throws]
  BadInfo,      \* the plugins whose PluginInfo.json may be bad: its
                \* "Dependencies" are no list of names
  Unreadable,   \* a config.json that is missing or no JSON
  None,         \* a null configuration
  MaxVersion,   \* bound: versions of a plugin's library the operator delivers
  MaxRefs       \* bound: how often a plugin that fails to start is tried again

(* The commands a plugin may be given. Some may be given to another plugin  *)
(* too: nothing in the code prevents it. Texts that FString takes for equal *)
(* (it ignores case) are one text here.                                     *)
TextsOf(p)  == UNION {Range(c.texts) : c \in Contents[p] \ {Unreadable}}
OwnTexts(p) == TextsOf(p) \ UNION {TextsOf(q) : q \in Plugins \ {p}}

ASSUME ContentsAssumption ==
  \A p \in Plugins : \A c \in Contents[p] :
    c # None /\ (c = Unreadable \/ c \in [texts : Seq(STRING), throws : BOOLEAN])
ASSUME BoundsAssumption == MaxVersion \in Nat \ {0} /\ MaxRefs \in Nat \ {0}

VARIABLES
  dll, newDll,  \* version in <plugin>.dll and in <plugin>.dll.ArkApi (0: no file)
  file,         \* config.json on disk
  refs,         \* LoadLibrary calls not yet matched by FreeLibrary
  config,       \* the plugin's global "config"
  loaded,       \* loaded_plugins_
  chat, console,   \* the command vectors; p stands for the text "p.Reload"
  pc, cur, todo,   \* where the game thread is in its walk over the directories
  starting,     \* the walk is LoadAllPlugins, else DetectPluginChanges
  sound         \* from now on files are in order and the operator leaves it alone

disk   == <<dll, newDll>>
memory == <<refs, config, loaded, chat, console>>
thread == <<pc, cur, todo, starting>>
vars   == <<disk, file, memory, thread, sound>>

Fresh ==
  /\ refs' = [p \in Plugins |-> 0] /\ config' = [p \in Plugins |-> None]
  /\ loaded' = << >> /\ chat' = << >> /\ console' = << >>
  /\ pc' = "visit" /\ todo' = Plugins /\ starting' = TRUE /\ cur' = None

Init ==
  /\ dll = [p \in Plugins |-> 1] /\ newDll = [p \in Plugins |-> 0]
  /\ file \in [Plugins -> UNION {Contents[p] : p \in Plugins}]
  /\ \A p \in Plugins : file[p] \in Contents[p]
  /\ refs = [p \in Plugins |-> 0] /\ config = [p \in Plugins |-> None]
  /\ loaded = << >> /\ chat = << >> /\ console = << >>
  /\ pc = "visit" /\ todo = Plugins /\ starting = TRUE /\ cur = None
  /\ sound = FALSE

IsLoaded(p) == Contains(loaded, p)
Misdescribed(p) == ~sound /\ p \in BadInfo

(****************************************************************************)
(* The manager's and the plugins' own functions.                            *)
(****************************************************************************)
(* LoadPlugin: nothing happens to a plugin already loaded, or when its      *)
(* library does not load or asks for a newer API. Else Plugin_Init reads    *)
(* config.json and adds the commands; if it throws, the library stays. So   *)
(* it does, with all commands, if the entry of loaded_plugins_ cannot be    *)
(* made then, because of a bad PluginInfo.json.                             *)
MutNoLoadedTest(p) ==
  \/ ~sound /\ UNCHANGED memory
  \/ /\ refs' = [refs EXCEPT ![p] = @ + 1]
     /\ IF file[p] = Unreadable THEN UNCHANGED <<config, chat, console, loaded>>
        ELSE /\ config' = [config EXCEPT ![p] = file[p]]
             /\ chat' = AddAll(chat, file[p].texts, p)
             /\ IF file[p].throws THEN UNCHANGED <<console, loaded>>
                ELSE /\ console' = AddCommand(console, p, p)
                     /\ loaded' = Append(loaded, p) \/ (Misdescribed(p) /\ UNCHANGED loaded)

LoadPlugin(p) ==
  \/ (IsLoaded(p) \/ ~sound) /\ UNCHANGED memory
  \/ /\ ~IsLoaded(p)
     /\ refs' = [refs EXCEPT ![p] = @ + 1]
     /\ IF file[p] = Unreadable THEN UNCHANGED <<config, chat, console, loaded>>
        ELSE /\ config' = [config EXCEPT ![p] = file[p]]
             /\ chat' = AddAll(chat, file[p].texts, p)
             /\ IF file[p].throws THEN UNCHANGED <<console, loaded>>
                ELSE /\ console' = AddCommand(console, p, p)
                     /\ loaded' = Append(loaded, p) \/ (Misdescribed(p) /\ UNCHANGED loaded)

(* UnloadPlugin of a loaded plugin: Plugin_Unload takes the commands of the *)
(* configuration in force away; if it throws, the plugin remains loaded.    *)
UnloadPlugin(p) ==
  /\ chat' = RemoveAll(chat, config[p].texts)
  /\ IF config[p].throws THEN UNCHANGED <<refs, config, loaded, console>>
     ELSE /\ console' = RemoveCommand(console, p)
          /\ refs' = [refs EXCEPT ![p] = @ - 1]
          /\ config' = [config EXCEPT ![p] = IF refs[p] = 1 THEN None ELSE @]
          /\ loaded' = RemoveFirst(loaded, p)

(****************************************************************************)
(* The walk over the plugin directories, at the start and on the timer.     *)
(****************************************************************************)
GoTo(label, p) == pc' = label /\ cur' = p
GoOn           == pc' = "visit" /\ cur' = None   \* to the next directory

Visit(p) ==
  /\ pc = "visit" /\ p \in todo
  /\ todo' = todo \ {p}
  /\ \/ starting /\ newDll[p] # 0 /\ GoTo("copy", p) /\ UNCHANGED memory
     \/ starting /\ newDll[p] = 0 /\ GoTo("load", p) /\ UNCHANGED memory
     \/ /\ ~starting /\ newDll[p] # 0 /\ IsLoaded(p)
        /\ UnloadPlugin(p)
        /\ IF config[p].throws THEN GoOn ELSE GoTo("copy", p)
     \/ ~starting /\ ~(newDll[p] # 0 /\ IsLoaded(p)) /\ GoOn /\ UNCHANGED memory
  /\ UNCHANGED <<disk, file, starting, sound>>

(* A library that is still mapped cannot be overwritten. *)
MutIgnoresFailure ==
  /\ pc = "copy" /\ GoTo("remove", cur)
  /\ \/ refs[cur] = 0 /\ dll' = [dll EXCEPT ![cur] = newDll[cur]]
     \/ (refs[cur] > 0 \/ ~sound) /\ UNCHANGED dll
  /\ UNCHANGED <<newDll, file, memory, todo, starting, sound>>

Copy ==
  /\ pc = "copy"
  /\ \/ /\ refs[cur] = 0
        /\ dll' = [dll EXCEPT ![cur] = newDll[cur]] /\ GoTo("remove", cur)
     \/ (refs[cur] > 0 \/ ~sound) /\ GoOn /\ UNCHANGED dll
  /\ UNCHANGED <<newDll, file, memory, todo, starting, sound>>

(* Mutant: the plugin is left to a later check, as a comment once planned.  *)
MutLoadsLater ==
  /\ pc = "remove" /\ GoOn
  /\ newDll' = [newDll EXCEPT ![cur] = 0]
  /\ UNCHANGED <<dll, file, memory, todo, starting, sound>>

RemoveNew ==
  /\ pc = "remove"
  /\ \/ newDll' = [newDll EXCEPT ![cur] = 0] /\ GoTo("load", cur)
     \/ ~sound /\ GoOn /\ UNCHANGED newDll
  /\ UNCHANGED <<dll, file, memory, todo, starting, sound>>

Load ==
  /\ pc = "load" /\ GoOn
  /\ LoadPlugin(cur)
  /\ UNCHANGED <<disk, file, todo, starting, sound>>

(* At the start the framework's own commands are registered now. *)
EndWalk ==
  /\ pc = "visit" /\ todo = {}
  /\ GoTo("idle", None) /\ starting' = FALSE
  /\ UNCHANGED <<disk, file, memory, todo, sound>>

DetectPluginChanges ==
  /\ pc = "idle" /\ pc' = "visit" /\ todo' = Plugins
  /\ UNCHANGED <<disk, file, memory, cur, starting, sound>>

(****************************************************************************)
(* The operator's commands.                                                 *)
(****************************************************************************)
LoadCommand(p) ==
  /\ pc = "idle" /\ ~sound /\ refs[p] < MaxRefs
  /\ LoadPlugin(p)
  /\ UNCHANGED <<disk, file, thread, sound>>

UnloadCommand(p) ==
  /\ pc = "idle" /\ ~sound /\ IsLoaded(p)
  /\ UnloadPlugin(p)
  /\ UNCHANGED <<disk, file, thread, sound>>

(* p.Reload: the commands in force are taken away, the file is read and its *)
(* commands are added. An exception leaves it where it is thrown; the game  *)
(* may die of it (Die) or not.                                              *)
MutReadsFirst(p) ==
  /\ pc = "idle" /\ ~sound /\ Has(console, p)
  /\ IF file[p] = Unreadable \/ file[p].throws THEN UNCHANGED <<chat, config>>
     ELSE /\ config' = [config EXCEPT ![p] = file[p]]
          /\ chat' = AddAll(RemoveAll(chat, file[p].texts), file[p].texts, p)
  /\ UNCHANGED <<disk, file, refs, loaded, console, thread, sound>>

Reload(p) ==
  /\ pc = "idle" /\ ~sound /\ Has(console, p)
  /\ LET kept == RemoveAll(chat, config[p].texts) IN
     IF config[p].throws \/ file[p] = Unreadable
     THEN chat' = kept /\ UNCHANGED config
     ELSE config' = [config EXCEPT ![p] = file[p]] /\ chat' = AddAll(kept, file[p].texts, p)
  /\ UNCHANGED <<disk, file, refs, loaded, console, thread, sound>>

(****************************************************************************)
(* The files and the process.                                               *)
(****************************************************************************)
(* An edit shows only where the file is read, so it is made only there. *)
Edit(p) ==
  /\ ~sound /\ pc \in {"idle", "load"}
  /\ \E c \in Contents[p] : c # file[p] /\ file' = [file EXCEPT ![p] = c]
  /\ UNCHANGED <<disk, memory, thread, sound>>

(* The operator delivers a new library, and the next only when that one has *)
(* been taken.                                                              *)
Newest(p) == IF newDll[p] # 0 THEN newDll[p] ELSE dll[p]

Deliver(p) ==
  /\ newDll[p] = 0 /\ Newest(p) < MaxVersion
  /\ newDll' = [newDll EXCEPT ![p] = Newest(p) + 1]
  /\ UNCHANGED <<dll, file, memory, thread, sound>>

(* The process dies, for any reason, and is started again. *)
Die ==
  /\ ~sound /\ Fresh
  /\ UNCHANGED <<disk, file, sound>>

Good(c) == c # Unreadable /\ ~c.throws

Settle ==
  /\ ~sound /\ sound' = TRUE
  /\ \A p \in Plugins : Good(file[p])
  /\ UNCHANGED <<disk, file, memory, thread>>

Next == \/ \E p \in Plugins : Visit(p)
        \/ Copy \/ RemoveNew \/ Load \/ EndWalk \/ DetectPluginChanges
        \/ \E p \in Plugins : LoadCommand(p)
        \/ \E p \in Plugins : Reload(p)
        \/ \E p \in Plugins : UnloadCommand(p)
        \/ \E p \in Plugins : Edit(p)
        \/ \E p \in Plugins : Deliver(p)
        \/ Die \/ Settle

Spec == Init /\ [][Next]_vars

(* The game thread goes on, and with it the timer. *)
GameThread == \/ \E p \in Plugins : Visit(p)
              \/ Copy \/ RemoveNew \/ Load \/ EndWalk \/ DetectPluginChanges

FairSpec == Spec /\ WF_vars(GameThread)

(****************************************************************************)
(* Properties.                                                              *)
(****************************************************************************)
Commanded(vec) == \A i \in DOMAIN vec : vec[i].owner \in Plugins

(* Every variable keeps its type; a plugin is loaded once, from a library   *)
(* that is mapped and whose configuration was read.                         *)
TypeOK ==
  /\ dll \in [Plugins -> 1..MaxVersion] /\ newDll \in [Plugins -> 0..MaxVersion]
  /\ \A p \in Plugins : file[p] \in Contents[p]
  /\ refs \in [Plugins -> 0..MaxRefs]
  /\ \A p \in Plugins : config[p] \in Contents[p] \cup {None}
  /\ loaded \in Seq(Plugins) /\ IsInjective(loaded)
  /\ \A i \in DOMAIN loaded : refs[loaded[i]] > 0 /\ config[loaded[i]] # None
  /\ Commanded(chat) /\ Commanded(console)
  /\ pc \in {"idle", "visit", "copy", "remove", "load"}
  /\ pc \in {"copy", "remove", "load"} => cur \in Plugins
  /\ todo \subseteq Plugins /\ starting \in BOOLEAN /\ sound \in BOOLEAN

(* No command leads into a library that has been freed, whichever reloads,  *)
(* loads and unloads failed half-way before. (A chat command another plugin *)
(* may be given too is exempt: each of the two removes the other's entry.)  *)
CommandsLive ==
  /\ \A i \in DOMAIN chat : chat[i].text \in OwnTexts(chat[i].owner) => refs[chat[i].owner] > 0
  /\ \A i \in DOMAIN console : refs[console[i].owner] > 0

(* A running plugin answers to a command of its configuration.              *)
Answers(p, text) ==
  /\ IsLoaded(p)
  /\ text \in Range(config[p].texts) => \E i \in DOMAIN chat : chat[i] = [text |-> text, owner |-> p]

(* It stops to only through its own unload, its own broken file, or another *)
(* plugin whose configuration in force has the same command: nothing else   *)
(* that is done to another plugin takes a command away.                     *)
AlsoOf(p, text) == \E q \in Plugins \ {p} : config[q] # None /\ text \in Range(config[q].texts)

KeepsAnswering ==
  [][\A p \in Plugins : \A text \in TextsOf(p) :
       Answers(p, text) /\ ~Answers(p, text)' /\ IsLoaded(p)'
         => file[p] = Unreadable \/ config[p].throws \/ AlsoOf(p, text)]_vars

(* An update is not lost: no failure, and no crash, between unloading the   *)
(* plugin and removing the delivered file leaves the server with less than  *)
(* the newest version on disk.                                              *)
NoUpdateLost == [][\A p \in Plugins : Newest(p)' >= Newest(p)]_vars

(* When nothing is out of order, an updated library ends up installed and   *)
(* running in place of a plugin that had been loaded cleanly.               *)
Clean(p) == IsLoaded(p) /\ refs[p] = 1 /\ ~config[p].throws

UpdateRuns ==
  \A p \in Plugins : (sound /\ Clean(p) /\ newDll[p] # 0) ~> (IsLoaded(p) /\ newDll[p] = 0)

(* A Reload puts the file in force (README-en.md:22 of src/), if the file   *)
(* is good.                                                                 *)
ReloadTakesFile ==
  [][\A p \in Plugins : Reload(p) /\ Good(file[p]) => config'[p] = file[p]]_vars
=================================================================================
