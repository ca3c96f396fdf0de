-------------------------------- MODULE ChatRelay -------------------------------
(****************************************************************************)
(* Chat across the servers of a cluster. On each server the game thread     *)
(* sends a player's message to its recipients one by one, and the plugin's  *)
(* hook on ClientChatMessage decides for each whether it is shown; for the  *)
(* sender itself the hook publishes the message on a Redis channel. The     *)
(* plugin's Redis thread takes the messages of the channel and shows them   *)
(* to every player of its server, through the same hooked function.         *)
(*                                                                          *)
(* The connections are reduced to what a message notices of them (RedisLink *)
(* models how they are made and lost).                                      *)
(****************************************************************************)
EXTENDS ChatSettings, FiniteSets

CONSTANTS Players, Servers,
          ServerOf,        \* [Players -> Servers]
          GroupsOf,        \* [Players -> Seq(group names)], GetPlayerGroups
          UsePermissions,  \* the plugin depends on the Permissions plugin
          StartFiles,      \* [Servers -> the config.json the plugin may be loaded with]
          Files,           \* the contents an operator may give config.json later
          Profile,         \* [Servers -> name in the server manager's profile]
          Outsider, OutsiderName,  \* a third party that publishes, as a server of that name
          Failures,        \* connections may be lost
          MaxMessages      \* bound: messages sent in a behaviour

ASSUME PlayersAssumption == Outsider \notin Players /\ ServerOf \in [Players -> Servers]
ASSUME StartAssumption ==
  \A s \in Servers : \A file \in StartFiles[s] :
    Accepted(file, Profile[s])
ASSUME BoundAssumption == MaxMessages \in Nat
ASSUME NamesAssumption ==
  /\ OutsiderName \in STRING /\ Profile \in [Servers -> STRING]
  /\ \A file \in Files \cup UNION {StartFiles[s] : s \in Servers} : file.serverName \in STRING
ASSUME GroupsAssumption ==
  /\ GroupsOf \in [Players -> Seq(STRING)]
  /\ \A file \in Files \cup UNION {StartFiles[s] : s \in Servers} :
       /\ file.groups \in Seq([key : STRING, settings : [disabled : BOOLEAN, braces : BOOLEAN]])
       /\ file.players \in Seq([key : Players, settings : [disabled : BOOLEAN, braces : BOOLEAN]])

VARIABLES config,   \* config[s]: CurrentPluginConfig
          writing,  \* writing[s]: the configuration being copied into it, or << >>
          working,  \* servers whose plugin's token.isWorking holds
          crashed,  \* servers whose process was killed by a use of freed memory or an
                    \* exception nobody caught
          chat,     \* chat[s]: message the game thread is sending, recipients to go
          relay,    \* relay[s]: message the Redis thread handles, recipients to go
          queue,    \* queue[s]: what Redis sent on the subscription, not yet handled
          sub,      \* sub[s]: "none", "connected" or "subscribed"
          pub,      \* pub[s]: token.redisContext: "none", "ok", "broken" or "err"
          sent,     \* all messages sent, a message is an index into it
          log,      \* all that was published, in order
          shown,    \* shown[p]: [id, relayed] in the order p saw them
          terms     \* terms[m]: the configuration of the sender's server when message m
                    \* was said, << >> for a third party's: a history, for the properties

link == <<sub, pub, queue>>
vars == <<config, writing, working, crashed, chat, relay, link, sent, log, shown, terms>>

Local(s) == {p \in Players : ServerOf[p] = s}
Idle == [id |-> 0, todo |-> {}, stage |-> "idle"]
Quiet == [id |-> 0, todo |-> {}]

Init == /\ config \in [Servers -> UNION {{ReadConfig(file, Profile[s]) :
                                         file \in StartFiles[s]} : s \in Servers}]
        /\ \A s \in Servers : \E file \in StartFiles[s] :
             config[s] = ReadConfig(file, Profile[s])
        /\ writing = [s \in Servers |-> << >>]
        /\ working = Servers /\ crashed = {}
        /\ chat = [s \in Servers |-> Quiet]
        /\ relay = [s \in Servers |-> Idle]
        /\ queue = [s \in Servers |-> << >>]
        /\ sub = [s \in Servers |-> "subscribed"] /\ pub = [s \in Servers |-> "ok"]
        /\ sent = << >> /\ log = << >> /\ terms = << >>
        /\ shown = [p \in Players |-> << >>]

SettingsOf(s, p) ==
  Settings(config[s], UsePermissions, p, IF p \in Players THEN GroupsOf[p] ELSE << >>)

(* The process of s is gone, and its connections with it.                   *)
Killed(s) ==
  /\ crashed' = crashed \cup {s}
  /\ sub' = [sub EXCEPT ![s] = "none"] /\ queue' = [queue EXCEPT ![s] = << >>]

(* The whole game thread of s is at rest: between ticks. *)
AtRest(s) == s \notin crashed /\ chat[s].todo = {} /\ writing[s] = << >>

Display(p, id, relayed) == shown' = [shown EXCEPT ![p] = Append(@, [id |-> id, relayed |-> relayed])]

(****************************************************************************)
(* Game thread.                                                             *)
(****************************************************************************)
(* A player speaks. The engine addresses everyone on the server with a      *)
(* global message, and those near by with a local one.                      *)
Speak(p) ==
  /\ Len(sent) < MaxMessages /\ AtRest(ServerOf[p])
  /\ \E global \in BOOLEAN, to \in SUBSET Local(ServerOf[p]) :
       /\ p \in to /\ (global => to = Local(ServerOf[p]))
       /\ sent' = Append(sent, [from |-> p, global |-> global, to |-> to])
       /\ chat' = [chat EXCEPT ![ServerOf[p]] = [id |-> Len(sent'), todo |-> to]]
  /\ terms' = Append(terms, config[ServerOf[p]])
  /\ UNCHANGED <<config, writing, working, crashed, relay, link, log, shown>>

(* What Redis does with a PUBLISH: to each subscriber, in one order for all. *)
Publish(id, name) ==
  /\ log' = Append(log, [id |-> id, name |-> name])
  /\ queue' = [t \in Servers |->
                 IF sub[t] = "subscribed" THEN Append(queue[t], [id |-> id, name |-> name])
                 ELSE queue[t]]

(* redisCommand in the hook: the publish connection is absent or in error;  *)
(* it works; it was lost and the command finds out; or the reply is lost.   *)
NoConnection(s) == pub[s] \in {"none", "err"}

PublishOn(s, id) ==
  \/ pub[s] = "ok" /\ Publish(id, config[s].serverName) /\ UNCHANGED pub
  \/ pub[s] = "broken" /\ pub' = [pub EXCEPT ![s] = "err"] /\ UNCHANGED <<log, queue>>
  \/ /\ Failures /\ pub[s] = "ok"
     /\ Publish(id, config[s].serverName) /\ pub' = [pub EXCEPT ![s] = "err"]

(* HandlerPlayerMessage leaves the message to the game before it looks at   *)
(* who the recipient is: the plugin does not work, the sender is muted, or  *)
(* the message is local.                                                    *)
PassedOn(s, m) ==
  s \notin working \/ SettingsOf(s, sent[m].from).disabled \/ ~sent[m].global

(* Only the sender's own copy of the message is published.                  *)
MutEveryonePublishes(m, r) == TRUE

Publishes(m, r) == r = sent[m].from

(* Without a publish connection the sender is shown its message.            *)
MutFailureHides(r, m) == UNCHANGED shown

ShowOnFailure(r, m) == Display(r, m, FALSE)

Original(s, r, m) ==
  IF config[s].replaceLocal THEN UNCHANGED shown ELSE Display(r, m, FALSE)

(* The hook for recipient r; Display is its call of the original function.  *)
ClientChatMessage(s, r) ==
  LET m == chat[s].id
      blank == s \in working /\ config[s].serverName = NoName
  IN /\ s \notin crashed /\ r \in chat[s].todo
     /\ chat' = [chat EXCEPT ![s].todo = @ \ {r}]
     /\ IF ~blank /\ ~PassedOn(s, m) /\ Publishes(m, r)
        THEN \/ NoConnection(s) /\ ShowOnFailure(r, m) /\ UNCHANGED <<pub, log, queue>>
             \/ PublishOn(s, m) /\ Original(s, r, m)
        ELSE /\ CASE blank -> UNCHANGED shown
                  [] ~blank /\ PassedOn(s, m) -> Display(r, m, FALSE)
                  [] OTHER -> Original(s, r, m)
             /\ UNCHANGED <<pub, log, queue>>
     /\ UNCHANGED <<config, writing, working, crashed, relay, sub, sent, terms>>

(* The Reload console command, on the game thread: the file is read, then   *)
(* assigned member by member while the Redis thread may be reading.         *)
StartReload(s) ==
  /\ AtRest(s) /\ s \in working
  /\ \E file \in Files :
       /\ Accepted(file, Profile[s])
       /\ writing' = [writing EXCEPT ![s] = ReadConfig(file, Profile[s])]
  /\ UNCHANGED <<config, working, crashed, chat, relay, link, sent, log, shown, terms>>

(* The exception of a file that is not accepted leaves the plugin and the   *)
(* framework uncaught: the game may survive it, with the configuration it   *)
(* had, or not.                                                             *)
RefuseReload(s) ==
  /\ AtRest(s) /\ s \in working
  /\ \E file \in Files : ~Accepted(file, Profile[s])
  /\ Killed(s)
  /\ UNCHANGED <<config, writing, working, chat, relay, pub, sent, log, shown, terms>>

AssignConfig(s) ==
  /\ s \notin crashed /\ writing[s] # << >>
  /\ config' = [config EXCEPT ![s] = writing[s]]
  /\ writing' = [writing EXCEPT ![s] = << >>]
  /\ UNCHANGED <<working, crashed, chat, relay, link, sent, log, shown, terms>>

(* UnLoad; the subscription may outlive it (RedisLink shows how). *)
Unload(s) ==
  /\ Failures /\ AtRest(s) /\ working' = working \ {s}
  /\ \/ sub' = [sub EXCEPT ![s] = "none"] /\ queue' = [queue EXCEPT ![s] = << >>]
     \/ UNCHANGED <<sub, queue>>
  /\ UNCHANGED <<config, writing, crashed, chat, relay, pub, sent, log, shown, terms>>

(****************************************************************************)
(* Redis thread.                                                            *)
(****************************************************************************)
(* OnRedisMessage up to the filter: messages of a server of the same name   *)
(* are not for this one, unless it shows all messages through the relay.    *)
(* While the configuration is being assigned either value may be read.      *)
MutKeepOwn(c, entry) == TRUE

Wanted(c, entry) == c.replaceLocal \/ c.serverName # entry.name

Readable(s) == {config[s]} \cup (IF writing[s] = << >> THEN {} ELSE {writing[s]})

OnMessage(s) ==
  /\ s \notin crashed /\ relay[s].stage = "idle" /\ queue[s] # << >>
  /\ queue' = [queue EXCEPT ![s] = Tail(@)]
  /\ \/ /\ s \in working
        /\ \E c \in Readable(s) : Wanted(c, Head(queue[s]))
        /\ relay' = [relay EXCEPT ![s] = [id |-> Head(queue[s]).id, todo |-> {}, stage |-> "format"]]
     \/ /\ \/ s \notin working
           \/ \E c \in Readable(s) : ~Wanted(c, Head(queue[s]))
           \/ sent[Head(queue[s]).id].from = Outsider     \* not a well formed line
        /\ UNCHANGED relay
  /\ UNCHANGED <<config, writing, working, crashed, chat, sub, pub, sent, log, shown, terms>>

(* The rest of OnRedisMessage but for the display: the receiving server's   *)
(* own settings for the sender; without a placeholder the message is        *)
(* dropped. In a map that is being assigned anything may be found.          *)
Format(s) ==
  /\ s \notin crashed /\ relay[s].stage = "format"
  /\ \E braces \in IF writing[s] = << >> THEN {SettingsOf(s, sent[relay[s].id].from).braces}
                   ELSE BOOLEAN :
       relay' = [relay EXCEPT ![s] =
                   IF braces /\ Local(s) # {} THEN [@ EXCEPT !.stage = "deliver", !.todo = Local(s)]
                   ELSE Idle]
  /\ UNCHANGED <<config, writing, working, crashed, chat, link, sent, log, shown, terms>>

(* One turn of the loop over the player controllers: ClientChatMessage with *)
(* an empty UserId, which the hook hands straight to the original. A hook   *)
(* without that test would fail to read a number from the id and show       *)
(* nothing.                                                                 *)
MutNoEmptyTest(s, r) ==
  /\ s \notin crashed /\ relay[s].stage = "deliver" /\ r \in relay[s].todo
  /\ IF s \in working THEN UNCHANGED shown ELSE Display(r, relay[s].id, TRUE)
  /\ relay' = [relay EXCEPT ![s] = IF @.todo = {r} THEN Idle ELSE [@ EXCEPT !.todo = relay[s].todo \ {r}]]
  /\ UNCHANGED <<config, writing, working, crashed, chat, link, sent, log, terms>>

MutNeverIdle(s, r) ==
  /\ s \notin crashed /\ relay[s].stage = "deliver" /\ r \in relay[s].todo
  /\ Display(r, relay[s].id, TRUE)
  /\ relay' = [relay EXCEPT ![s].todo = @ \ {r}]
  /\ UNCHANGED <<config, writing, working, crashed, chat, link, sent, log, terms>>

Deliver(s, r) ==
  /\ s \notin crashed /\ relay[s].stage = "deliver" /\ r \in relay[s].todo
  /\ Display(r, relay[s].id, TRUE)
  /\ relay' = [relay EXCEPT ![s] = IF @.todo = {r} THEN Idle ELSE [@ EXCEPT !.todo = relay[s].todo \ {r}]]
  /\ UNCHANGED <<config, writing, working, crashed, chat, link, sent, log, terms>>

(* The Redis thread read a freed node of a map, or ran code of an unloaded  *)
(* plugin.                                                                  *)
Crash(s) ==
  /\ s \notin crashed /\ relay[s].stage # "idle"
  /\ writing[s] # << >> \/ s \notin working
  /\ Killed(s)
  /\ UNCHANGED <<config, writing, working, chat, relay, pub, sent, log, shown, terms>>

(****************************************************************************)
(* Connections.                                                             *)
(****************************************************************************)
(* OnRedisConnected makes the publish connection, before the SUBSCRIBE that *)
(* was queued is written.                                                   *)
Connect(s) ==
  /\ s \in working \ crashed /\ sub[s] = "none" /\ relay[s].stage = "idle"
  /\ sub' = [sub EXCEPT ![s] = "connected"]
  /\ \E p \in {"ok", "err"} : pub' = [pub EXCEPT ![s] = p]
  /\ UNCHANGED <<config, writing, working, crashed, chat, relay, queue, sent, log, shown, terms>>

Subscribe(s) ==
  /\ sub[s] = "connected" /\ sub' = [sub EXCEPT ![s] = "subscribed"]
  /\ UNCHANGED <<config, writing, working, crashed, chat, relay, queue, pub, sent, log, shown, terms>>

(* The subscription is lost, with what was on its way. *)
LoseSub(s) ==
  /\ Failures /\ sub[s] # "none"
  /\ sub' = [sub EXCEPT ![s] = "none"] /\ queue' = [queue EXCEPT ![s] = << >>]
  /\ UNCHANGED <<config, writing, working, crashed, chat, relay, pub, sent, log, shown, terms>>

LosePub(s) ==
  /\ Failures /\ pub[s] = "ok" /\ pub' = [pub EXCEPT ![s] = "broken"]
  /\ UNCHANGED <<config, writing, working, crashed, chat, relay, sub, queue, sent, log, shown, terms>>

(* A third party publishes; nobody on the servers is its local recipient.   *)
ThirdParty ==
  /\ Len(sent) < MaxMessages
  /\ sent' = Append(sent, [from |-> Outsider, global |-> TRUE, to |-> {}])
  /\ Publish(Len(sent'), OutsiderName)
  /\ terms' = Append(terms, << >>)
  /\ UNCHANGED <<config, writing, working, crashed, chat, relay, sub, pub, shown>>

Next == \/ \E p \in Players : Speak(p)
        \/ \E p \in Players : ClientChatMessage(ServerOf[p], p)
        \/ \E p \in Players : Deliver(ServerOf[p], p)
        \/ \E s \in Servers : StartReload(s)
        \/ \E s \in Servers : RefuseReload(s)
        \/ \E s \in Servers : AssignConfig(s)
        \/ \E s \in Servers : Unload(s)
        \/ \E s \in Servers : OnMessage(s)
        \/ \E s \in Servers : Format(s)
        \/ \E s \in Servers : Crash(s)
        \/ \E s \in Servers : Connect(s)
        \/ \E s \in Servers : Subscribe(s)
        \/ \E s \in Servers : LoseSub(s)
        \/ \E s \in Servers : LosePub(s)
        \/ ThirdParty

Spec == Init /\ [][Next]_vars

(* Both threads of a running server keep going.                             *)
Fairness ==
  /\ \A p \in Players : /\ WF_vars(ClientChatMessage(ServerOf[p], p))
                        /\ WF_vars(Deliver(ServerOf[p], p))
  /\ \A s \in Servers : WF_vars(AssignConfig(s)) /\ WF_vars(OnMessage(s)) /\ WF_vars(Format(s))

FairSpec == Spec /\ Fairness

(****************************************************************************)
(* Properties.                                                              *)
(****************************************************************************)
(* Every variable keeps its type, the hook and the callback never handle a  *)
(* message that was not sent, and a server name is never empty.             *)
TypeOK ==
  /\ \A s \in Servers : config[s].serverName # NoName
  /\ working \subseteq Servers /\ crashed \subseteq Servers
  /\ \A s \in Servers : /\ chat[s].todo # {} => chat[s].id \in DOMAIN sent
                        /\ chat[s].todo \cup relay[s].todo \subseteq Local(s)
                        /\ relay[s].stage \in {"idle", "format", "deliver"}
                        /\ relay[s].stage # "idle" => relay[s].id \in DOMAIN sent
                        /\ relay[s].stage = "deliver" <=> relay[s].todo # {}
                        /\ queue[s] \in Seq([id : DOMAIN sent, name : STRING])
  /\ sub \in [Servers -> {"none", "connected", "subscribed"}]
  /\ pub \in [Servers -> {"none", "ok", "broken", "err"}]
  /\ Len(sent) <= MaxMessages

(* The settings the documentation promises a player, by the places in the   *)
(* file: those of its entry under Players, else of the entry nearest the    *)
(* bottom of Groups whose group it belongs to, else the default ones.       *)
HeldBy(p) == IF UsePermissions /\ p \in Players THEN Range(GroupsOf[p]) ELSE {}

PlayerEntries(file, p) == {i \in DOMAIN file.players : file.players[i].key = p}
GroupEntries(file, p)  == {i \in DOMAIN file.groups : file.groups[i].key \in HeldBy(p)}

Bottom(entries) == CHOOSE i \in entries : \A j \in entries : j <= i

Documented(file, p) ==
  LET named == PlayerEntries(file, p)
      held  == GroupEntries(file, p)
  IN CASE named # {} -> file.players[Bottom(named)].settings
       [] named = {} /\ held # {} -> file.groups[Bottom(held)].settings
       [] OTHER -> file.default

(* Nothing that counts for p is listed twice. Where it is, the code keeps   *)
(* the first entry and the documentation's rule fails.                      *)
ListedOnce(file, p) ==
  /\ \A i, j \in PlayerEntries(file, p) : i = j
  /\ \A i, j \in GroupEntries(file, p) : file.groups[i].key = file.groups[j].key => i = j

(* At the start and after every reload the configuration in force is that   *)
(* of a whole file, and the hook's walk over a player's groups finds the    *)
(* settings that are documented for the file, in whatever order the         *)
(* Permissions plugin gives the groups, unless it lists one of them twice.  *)
FollowsDocumentation ==
  \A s \in Servers :
    LET read == {file \in StartFiles[s] \cup Files : config[s] = ReadConfig(file, Profile[s])}
    IN /\ read # {}
       /\ \A file \in read : \A p \in Players :
            ListedOnce(file, p) => SettingsOf(s, p) = Documented(file, p)

(* Messages of players who were muted when they spoke. *)
Silenced(m) ==
  /\ sent[m].from \in Players
  /\ Settings(terms[m], UsePermissions, sent[m].from, GroupsOf[sent[m].from]).disabled

Times(p, m) == Cardinality({i \in DOMAIN shown[p] : shown[p][i].id = m})
Directly(p, m) == \E i \in DOMAIN shown[p] : shown[p][i] = [id |-> m, relayed |-> FALSE]

(* A message goes out on the channel once although the hook sees a copy of  *)
(* it for every player of the server.                                       *)
PublishedOnce == \A i, j \in DOMAIN log : log[i].id = log[j].id => i = j

(* A message said where local messages are not replaced is displayed by the *)
(* game as if there were no plugin, whatever Redis and the operator do:     *)
(* every recipient the engine has reached has seen it.                      *)
LocalUnaffected ==
  \A m \in DOMAIN sent : \A p \in sent[m].to :
    LET s == ServerOf[p]
        reached == m # chat[s].id \/ p \notin chat[s].todo
    IN reached /\ ~terms[m].replaceLocal => Directly(p, m)

(* The documentation: muted users can only see their own messages, that is  *)
(* nobody else sees them.                                                   *)
MutedUnheard ==
  \A m \in DOMAIN sent : Silenced(m) => \A p \in Players \ {sent[m].from} : Times(p, m) = 0

(* The plugin keeps what is left of the promise of ChatBoard when the game  *)
(* shows a muted player's lines to those it addresses: a message is         *)
(* displayed at most once, and, overhearing apart, only to its audience.    *)
Board == INSTANCE ChatBoard WITH
           silent <- {m \in DOMAIN sent : Silenced(m)},
           screen <- [p \in Players |-> [i \in DOMAIN shown[p] |-> shown[p][i].id]]
KeepsBoard == Board!HomeSpec

(* What it keeps it under: a reload that changes the server's name or       *)
(* ReplaceLocalMessage finds no message of the server's own players on its  *)
(* way back over the channel. All else may change at any time.              *)
Returning(s) == \E i \in DOMAIN queue[s] :
                  LET from == sent[queue[s][i].id].from
                  IN  from \in Players /\ ServerOf[from] = s

SameRelay(c, d) == c.replaceLocal = d.replaceLocal /\ c.serverName = d.serverName

ReloadsSettled ==
  \A s \in Servers : writing[s] # << >> /\ Returning(s) => SameRelay(writing[s], config[s])

(* With sound connections a message that may cross servers reaches every    *)
(* player: by the game or over the channel on its own server, over the      *)
(* channel on a server of another name.                                     *)
Due(m, p) ==
  LET from == sent[m].from
      here == config[ServerOf[p]]
  IN /\ from \in Players /\ sent[m].global /\ ~Silenced(m)
     /\ \/ ServerOf[from] = ServerOf[p] /\ ~here.replaceLocal
        \/ /\ SettingsOf(ServerOf[p], from).braces
           /\ here.replaceLocal \/ here.serverName # terms[m].serverName

Reach == \A p \in Players : \A m \in 1..MaxMessages :
           (m \in DOMAIN sent /\ Due(m, p)) ~> (m \in DOMAIN sent /\ Times(p, m) >= 1)
================================================================================
