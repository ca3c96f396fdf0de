----------------------------- MODULE ChatRelayProofs ----------------------------
(****************************************************************************)
(* For every cluster, every set of configurations and any failures: types,  *)
(* PublishedOnce, LocalUnaffected and FollowsDocumentation; and as long as  *)
(* the reloads settle before the next message is said, the refinement of    *)
(* ChatBoard: to HomeSpec always, to its promise Spec while no muted player *)
(* speaks where local lines are left to the game.                           *)
(* Unpublished says why a message goes out once: while the sender's own     *)
(* copy waits, on the one server that has it, the message is not on the     *)
(* channel.                                                                 *)
(****************************************************************************)
EXTENDS ChatRelay, SequenceLemmas

Line == [from : Players \cup {Outsider}, global : BOOLEAN, to : SUBSET Players]
Entry == [id : Nat, name : STRING]
Seen == [id : Nat, relayed : BOOLEAN]

Shape ==
  /\ DOMAIN config = Servers /\ DOMAIN writing = Servers
  /\ working \subseteq Servers /\ crashed \subseteq Servers
  /\ chat \in [Servers -> [id : Nat, todo : SUBSET Players]]
  /\ relay \in [Servers -> [id : Nat, todo : SUBSET Players,
                            stage : {"idle", "format", "deliver"}]]
  /\ queue \in [Servers -> Seq(Entry)]
  /\ sub \in [Servers -> {"none", "connected", "subscribed"}]
  /\ pub \in [Servers -> {"none", "ok", "broken", "err"}]
  /\ sent \in Seq(Line) /\ log \in Seq(Entry)
  /\ shown \in [Players -> Seq(Seen)]
  /\ Len(sent) <= MaxMessages

(* Every configuration comes from an accepted file.                         *)
From(c, file, s) == c = ReadConfig(file, Profile[s]) /\ Accepted(file, Profile[s])

Configured ==
  \A s \in Servers :
    /\ \E file \in StartFiles[s] \cup Files : From(config[s], file, s)
    /\ writing[s] # << >> => \E file \in StartFiles[s] \cup Files : From(writing[s], file, s)

(* What the threads handle has been sent, and goes to players of the server. *)
Handling ==
  \A s \in Servers :
    /\ chat[s].todo # {} => chat[s].id \in 1..Len(sent)
    /\ chat[s].todo \cup relay[s].todo \subseteq Local(s)
    /\ relay[s].stage # "idle" => relay[s].id \in 1..Len(sent)
    /\ relay[s].stage = "deliver" <=> relay[s].todo # {}
    /\ \A i \in 1..Len(queue[s]) : queue[s][i].id \in 1..Len(sent)

Logged == \A i \in 1..Len(log) : log[i].id \in 1..Len(sent)

Unpublished ==
  \A s \in Servers : \A r \in chat[s].todo :
    r = sent[chat[s].id].from => \A i \in 1..Len(log) : log[i].id # chat[s].id

(* Every message has its terms, and until all its recipients are served     *)
(* they are in force on its server: a reload waits for the game thread.     *)
Termed == terms = [m \in 1..Len(sent) |-> terms[m]]

InForce ==
  \A s \in Servers : chat[s].todo # {} =>
    config[s] = terms[chat[s].id] /\ writing[s] = << >>

ChatTypes == Shape /\ Configured /\ Handling

RelayInv == ChatTypes /\ Termed /\ InForce /\ Logged /\ Unpublished /\ PublishedOnce

USE PlayersAssumption, StartAssumption, BoundAssumption, NamesAssumption

(* The parts of the configuration read from a file.                         *)
LEMMA ReadConfigHas ==
  ASSUME NEW file, NEW profile
  PROVE  LET c == ReadConfig(file, profile) IN
         /\ c.serverName = ServerName(file, profile)
         /\ c.default = file.default
         /\ c.players = PlayerMap(file.players) /\ c.groups = GroupMap(file.groups)
BY DEF ReadConfig, Parse

(* The name of a server is never empty.                                     *)
LEMMA Named ==
  ASSUME Configured, NEW s \in Servers
  PROVE  config[s].serverName \in STRING \ {NoName}
<1>1. PICK file \in StartFiles[s] \cup Files : From(config[s], file, s)
  BY DEF Configured
<1>2. file.serverName \in STRING /\ Profile[s] \in STRING
  OBVIOUS
<1>3. config[s].serverName = ServerName(file, Profile[s])
  BY <1>1, ReadConfigHas DEF From
<1> QED
  BY <1>1, <1>2, <1>3 DEF From, Accepted, ServerName

(* A Line that is sent takes the next number, the others keep theirs.       *)
LEMMA SentAppend ==
  ASSUME Shape, NEW line \in Line, sent' = Append(sent, line)
  PROVE  /\ sent' \in Seq(Line) /\ Len(sent') = Len(sent) + 1
         /\ sent'[Len(sent')] = line /\ \A m \in 1..Len(sent) : sent'[m] = sent[m]
BY DEF Shape

(* A PUBLISH adds one entry to the channel and at most that to each queue.  *)
LEMMA PublishAdds ==
  ASSUME Shape, NEW id \in Nat, NEW name \in STRING, Publish(id, name)
  PROVE  /\ log' \in Seq(Entry) /\ Len(log') = Len(log) + 1
         /\ log'[Len(log')] = [id |-> id, name |-> name]
         /\ \A i \in 1..Len(log) : log'[i] = log[i]
         /\ queue' \in [Servers -> Seq(Entry)]
         /\ \A s \in Servers : \A i \in 1..Len(queue'[s]) :
              queue'[s][i].id = id \/ (i \in 1..Len(queue[s]) /\ queue'[s][i] = queue[s][i])
<1> DEFINE entry == [id |-> id, name |-> name]
<1>1. entry \in Entry
  BY DEF Entry
<1> HIDE DEF entry
<1>2. entry.id = id
  BY DEF entry
<1>3. log' = Append(log, entry) /\ log \in Seq(Entry)
  BY DEF Publish, Shape, entry
<1>4. \A s \in Servers : queue'[s] = queue[s] \/ queue'[s] = Append(queue[s], entry)
  BY DEF Publish, entry
<1>5. \A s \in Servers : queue[s] \in Seq(Entry)
  BY DEF Shape
<1>6. DOMAIN queue' = Servers /\ queue' = [s \in Servers |-> queue'[s]]
  BY DEF Publish
<1>7. ASSUME NEW s \in Servers
      PROVE  /\ queue'[s] \in Seq(Entry)
             /\ \A i \in 1..Len(queue'[s]) :
                  queue'[s][i].id = id \/ (i \in 1..Len(queue[s]) /\ queue'[s][i] = queue[s][i])
  <2>1. queue[s] \in Seq(Entry)
    BY <1>5
  <2>2. CASE queue'[s] = queue[s]
    BY <2>1, <2>2
  <2>3. CASE queue'[s] = Append(queue[s], entry)
    <3>1. queue'[s] \in Seq(Entry) /\ Len(queue'[s]) = Len(queue[s]) + 1
      BY <1>1, <2>1, <2>3
    <3>2. ASSUME NEW i \in 1..Len(queue'[s]), queue'[s][i].id # id
          PROVE  i \in 1..Len(queue[s]) /\ queue'[s][i] = queue[s][i]
      <4>1. i # Len(queue[s]) + 1
        BY <1>1, <1>2, <2>1, <2>3, <3>2
      <4> QED
        BY <2>1, <2>3, <3>1, <3>2, <4>1
    <3> QED
      BY <3>1, <3>2
  <2> QED
    BY <1>4, <2>2, <2>3
<1>8. queue' \in [Servers -> Seq(Entry)]
  BY <1>6, <1>7
<1>9. /\ log' \in Seq(Entry) /\ Len(log') = Len(log) + 1
      /\ log'[Len(log')] = entry /\ \A i \in 1..Len(log) : log'[i] = log[i]
  BY <1>1, <1>3
<1> QED
  BY <1>7, <1>8, <1>9 DEF entry

(* What a player sees is added at the end.                                  *)
LEMMA DisplayAdds ==
  ASSUME Shape, NEW p \in Players, NEW id \in Nat, NEW relayed \in BOOLEAN,
         Display(p, id, relayed)
  PROVE  /\ shown' \in [Players -> Seq(Seen)]
         /\ Len(shown'[p]) = Len(shown[p]) + 1
         /\ shown'[p][Len(shown'[p])] = [id |-> id, relayed |-> relayed]
         /\ \A i \in 1..Len(shown[p]) : shown'[p][i] = shown[p][i]
         /\ \A q \in Players \ {p} : shown'[q] = shown[q]
<1> DEFINE line == [id |-> id, relayed |-> relayed]
<1>1. line \in Seen
  BY DEF Seen
<1>2. shown' = [shown EXCEPT ![p] = Append(shown[p], line)]
  BY DEF Display, line
<1> HIDE DEF line
<1>3. shown \in [Players -> Seq(Seen)]
  BY DEF Shape
<1>4. shown[p] \in Seq(Seen)
  BY <1>3
<1>5. Append(shown[p], line) \in Seq(Seen)
  BY <1>1, <1>4
<1>6. shown'[p] = Append(shown[p], line)
  BY <1>2, <1>3
<1>7. shown' \in [Players -> Seq(Seen)]
  BY <1>2, <1>3, <1>5
<1>8. /\ Len(shown'[p]) = Len(shown[p]) + 1 /\ shown'[p][Len(shown'[p])] = line
      /\ \A i \in 1..Len(shown[p]) : shown'[p][i] = shown[p][i]
  BY <1>1, <1>4, <1>6
<1>9. \A q \in Players \ {p} : shown'[q] = shown[q]
  BY <1>2, <1>3
<1> QED
  BY <1>7, <1>8, <1>9 DEF line

(* The hook publishes, or it does not, and the recipient sees at most one   *)
(* line more.                                                               *)
LEMMA HookDoes ==
  ASSUME ChatTypes, NEW r \in Players, ClientChatMessage(ServerOf[r], r)
  PROVE  LET s == ServerOf[r] IN
         /\ UNCHANGED shown \/ Display(r, chat[s].id, FALSE)
         /\ \/ UNCHANGED <<log, queue>>
            \/ Publishes(chat[s].id, r) /\ Publish(chat[s].id, config[s].serverName)
         /\ pub' \in [Servers -> {"none", "ok", "broken", "err"}]
<1> DEFINE s == ServerOf[r]
           m == chat[s].id
<1>1. s \in Servers /\ pub \in [Servers -> {"none", "ok", "broken", "err"}]
  BY DEF ChatTypes, Shape
<1>2. CASE UNCHANGED <<pub, log, queue>>
  BY <1>1, <1>2 DEF ClientChatMessage, ShowOnFailure, Original
<1>3. CASE Publishes(m, r) /\ PublishOn(s, m) /\ Original(s, r, m)
  BY <1>1, <1>3 DEF PublishOn, Original
<1> QED
  BY <1>2, <1>3 DEF ClientChatMessage

(* Types at the start.                                                      *)
LEMMA StartTyped == Init => RelayInv
<1> SUFFICES ASSUME Init PROVE RelayInv
  OBVIOUS
<1>1. Shape
  BY DEF Init, Shape, Idle, Quiet
<1>2. Configured
  <2>1. ASSUME NEW s \in Servers PROVE \E file \in StartFiles[s] \cup Files : From(config[s], file, s)
    <3>1. PICK file \in StartFiles[s] : config[s] = ReadConfig(file, Profile[s])
      BY DEF Init
    <3> QED
      BY <3>1 DEF From
  <2> QED
    BY <2>1 DEF Configured, Init
<1>3. Handling /\ Logged /\ Unpublished /\ PublishedOnce
  BY DEF Init, Handling, Logged, Unpublished, PublishedOnce, Idle, Quiet
<1>4. Termed /\ InForce
  BY DEF Init, Termed, InForce, Quiet
<1> QED
  BY <1>1, <1>2, <1>3, <1>4 DEF RelayInv, ChatTypes

(* The steps of the game thread keep the types.                             *)
LEMMA SpeakTyped ==
  ASSUME ChatTypes, NEW p \in Players, Speak(p)
  PROVE  ChatTypes'
<1> DEFINE s == ServerOf[p]
<1> USE DEF ChatTypes
<1>1. PICK global \in BOOLEAN, to \in SUBSET Local(s) :
        /\ sent' = Append(sent, [from |-> p, global |-> global, to |-> to])
        /\ chat' = [chat EXCEPT ![s] = [id |-> Len(sent'), todo |-> to]]
  BY DEF Speak
<1>2. s \in Servers /\ to \in SUBSET Players
  BY DEF Local
<1>3. [from |-> p, global |-> global, to |-> to] \in Line
  BY <1>2 DEF Line
<1>4. sent' \in Seq(Line) /\ Len(sent') = Len(sent) + 1 /\ Len(sent) \in Nat
  BY <1>1, <1>3, SentAppend DEF Shape
<1>5. Shape'
  BY <1>1, <1>2, <1>4 DEF Shape, Speak, link
<1>6. Configured'
  BY DEF Configured, Speak
<1>7. Handling'
  <2> SUFFICES ASSUME NEW t \in Servers
               PROVE  /\ chat'[t].todo # {} => chat'[t].id \in 1..Len(sent')
                      /\ chat'[t].todo \cup relay'[t].todo \subseteq Local(t)
                      /\ relay'[t].stage # "idle" => relay'[t].id \in 1..Len(sent')
                      /\ relay'[t].stage = "deliver" <=> relay'[t].todo # {}
                      /\ \A i \in 1..Len(queue'[t]) : queue'[t][i].id \in 1..Len(sent')
    BY DEF Handling, Local
  <2>1. UNCHANGED <<relay, queue>>
    BY DEF Speak, link
  <2>2. 1..Len(sent) \subseteq 1..Len(sent')
    BY <1>4
  <2>3. chat'[t].todo # {} => chat'[t].id \in 1..Len(sent')
    BY <1>1, <1>2, <1>4, <2>2 DEF Shape, Handling
  <2>4. chat'[t].todo \subseteq Local(t)
    BY <1>1, <1>2 DEF Shape, Handling
  <2> QED
    BY <2>1, <2>2, <2>3, <2>4 DEF Handling
<1> QED
  BY <1>5, <1>6, <1>7

LEMMA HookTyped ==
  ASSUME ChatTypes, NEW r \in Players, ClientChatMessage(ServerOf[r], r)
  PROVE  ChatTypes'
<1> DEFINE s == ServerOf[r]
           m == chat[s].id
<1>1. /\ s \in Servers /\ r \in chat[s].todo /\ m \in 1..Len(sent) /\ m \in Nat
      /\ config[s].serverName \in STRING
  <2>1. s \in Servers /\ r \in chat[s].todo /\ m \in Nat
    BY DEF ClientChatMessage, ChatTypes, Shape
  <2> QED
    BY <2>1, Named DEF ChatTypes, Handling
<1>2. shown' \in [Players -> Seq(Seen)]
  <2>1. CASE UNCHANGED shown
    BY <2>1 DEF ChatTypes, Shape
  <2>2. CASE Display(r, m, FALSE)
    BY <1>1, <2>2, DisplayAdds DEF ChatTypes
  <2> QED
    BY <2>1, <2>2, HookDoes
<1>3. /\ log' \in Seq(Entry) /\ queue' \in [Servers -> Seq(Entry)]
      /\ \A t \in Servers : \A i \in 1..Len(queue'[t]) : queue'[t][i].id \in 1..Len(sent)
  <2>1. CASE UNCHANGED <<log, queue>>
    BY <2>1 DEF ChatTypes, Shape, Handling
  <2>2. CASE Publish(m, config[s].serverName)
    <3>1. /\ log' \in Seq(Entry) /\ queue' \in [Servers -> Seq(Entry)]
          /\ \A t \in Servers : \A i \in 1..Len(queue'[t]) :
               queue'[t][i].id = m \/ (i \in 1..Len(queue[t]) /\ queue'[t][i] = queue[t][i])
      BY <1>1, <2>2, PublishAdds DEF ChatTypes
    <3>2. \A t \in Servers : \A i \in 1..Len(queue[t]) : queue[t][i].id \in 1..Len(sent)
      BY DEF ChatTypes, Handling
    <3>3. \A t \in Servers : \A i \in 1..Len(queue'[t]) : queue'[t][i].id \in 1..Len(sent)
      BY <1>1, <3>1, <3>2
    <3> QED
      BY <3>1, <3>3
  <2> QED
    BY <2>1, <2>2, HookDoes
<1>4. pub' \in [Servers -> {"none", "ok", "broken", "err"}]
  BY HookDoes
<1>5. /\ chat' = [chat EXCEPT ![s].todo = @ \ {r}]
      /\ UNCHANGED <<config, writing, working, crashed, relay, sub, sent>>
  BY DEF ClientChatMessage
<1>6. Shape'
  BY <1>1, <1>2, <1>3, <1>4, <1>5 DEF ChatTypes, Shape
<1>7. Configured'
  BY <1>5 DEF ChatTypes, Configured
<1>8. Handling'
  <2>1. \A t \in Servers : chat'[t].id = chat[t].id /\ chat'[t].todo \subseteq chat[t].todo
    BY <1>1, <1>5 DEF ChatTypes, Shape
  <2> QED
    BY <1>3, <1>5, <2>1 DEF ChatTypes, Handling, Local
<1> QED
  BY <1>6, <1>7, <1>8 DEF ChatTypes

LEMMA ReloadTyped ==
  ASSUME ChatTypes, NEW s \in Servers,
         StartReload(s) \/ RefuseReload(s) \/ AssignConfig(s) \/ Unload(s)
  PROVE  ChatTypes'
<1> USE DEF ChatTypes
<1>1. CASE StartReload(s)
  <2>1. PICK file \in Files :
          /\ Accepted(file, Profile[s])
          /\ writing' = [writing EXCEPT ![s] = ReadConfig(file, Profile[s])]
    BY <1>1 DEF StartReload
  <2>2. UNCHANGED <<config, working, crashed, chat, relay, link, sent, log, shown>>
    BY <1>1 DEF StartReload
  <2>3. Shape' /\ Handling'
    BY <2>1, <2>2 DEF Shape, Handling, link, Local
  <2>4. Configured'
    BY <2>1, <2>2 DEF Shape, Configured, From
  <2> QED
    BY <2>3, <2>4
<1>2. CASE AssignConfig(s)
  <2>1. Shape' /\ Handling'
    BY <1>2 DEF AssignConfig, Shape, Handling, link, Local
  <2>2. Configured'
    BY <1>2 DEF AssignConfig, Shape, Configured
  <2> QED
    BY <2>1, <2>2
<1>3. CASE RefuseReload(s) \/ Unload(s)
  <2>1. Shape'
    <3>1. << >> \in Seq(Entry)
      OBVIOUS
    <3>2. CASE RefuseReload(s)
      BY <3>1, <3>2 DEF RefuseReload, Killed, Shape
    <3>3. CASE Unload(s)
      <4>1. /\ queue' \in [Servers -> Seq(Entry)]
            /\ sub' \in [Servers -> {"none", "connected", "subscribed"}]
        <5>1. CASE sub' = [sub EXCEPT ![s] = "none"] /\ queue' = [queue EXCEPT ![s] = << >>]
          BY <3>1, <5>1 DEF Shape
        <5>2. CASE UNCHANGED <<sub, queue>>
          BY <5>2 DEF Shape
        <5> QED
          BY <3>3, <5>1, <5>2 DEF Unload
      <4>2. working' \subseteq Servers
        BY <3>3 DEF Unload, Shape
      <4> QED
        BY <3>3, <4>1, <4>2 DEF Unload, Shape
    <3> QED
      BY <1>3, <3>2, <3>3
  <2>2. Configured'
    BY <1>3 DEF RefuseReload, Unload, Configured
  <2>3. Handling'
    BY <1>3 DEF RefuseReload, Unload, Killed, Shape, Handling, Local
  <2> QED
    BY <2>1, <2>2, <2>3
<1> QED
  BY <1>1, <1>2, <1>3

(* Stages of a message the Redis thread has taken.                          *)
Task == [id : Nat, todo : SUBSET Players, stage : {"idle", "format", "deliver"}]

TaskOf(s, task) ==
  /\ task \in Task /\ task.todo \subseteq Local(s)
  /\ task.stage # "idle" => task.id \in 1..Len(sent)
  /\ task.stage = "deliver" <=> task.todo # {}

(* The relay thread of s goes on to another task, as one may.               *)
LEMMA TaskStep ==
  ASSUME ChatTypes, NEW s \in Servers, NEW task, TaskOf(s, task),
         relay' = [relay EXCEPT ![s] = task]
  PROVE  /\ relay' \in [Servers -> Task]
         /\ \A t \in Servers : TaskOf(t, relay'[t])
<1>1. relay \in [Servers -> Task] /\ \A t \in Servers : TaskOf(t, relay[t])
  BY DEF ChatTypes, Shape, Handling, Task, TaskOf
<1> QED
  BY <1>1 DEF TaskOf

(* The steps of the Redis thread and of the connections keep the types.     *)
LEMMA MessageTyped ==
  ASSUME ChatTypes, NEW s \in Servers, OnMessage(s)
  PROVE  ChatTypes'
<1> USE DEF ChatTypes
<1>1. /\ queue[s] \in Seq(Entry) /\ queue[s] # << >> /\ queue' = [queue EXCEPT ![s] = Tail(@)]
      /\ UNCHANGED <<config, writing, working, crashed, chat, sub, pub, sent, log, shown>>
  BY DEF OnMessage, Shape
<1>2. /\ Head(queue[s]) = queue[s][1] /\ Head(queue[s]) \in Entry /\ Tail(queue[s]) \in Seq(Entry)
      /\ Len(Tail(queue[s])) = Len(queue[s]) - 1 /\ 1 \in 1..Len(queue[s])
      /\ \A i \in 1..Len(Tail(queue[s])) : i + 1 \in 1..Len(queue[s])
      /\ \A i \in 1..Len(Tail(queue[s])) : Tail(queue[s])[i] = queue[s][i + 1]
  BY <1>1
<1>3. Head(queue[s]).id \in Nat /\ Head(queue[s]).id \in 1..Len(sent)
  BY <1>2 DEF Handling, Entry
<1>4. /\ queue' \in [Servers -> Seq(Entry)]
      /\ \A t \in Servers : \A i \in 1..Len(queue'[t]) : queue'[t][i].id \in 1..Len(sent)
  BY <1>1, <1>2 DEF Shape, Handling
<1>5. relay' \in [Servers -> Task] /\ \A t \in Servers : TaskOf(t, relay'[t])
  <2>1. CASE UNCHANGED relay
    BY <2>1 DEF Shape, Handling, Task, TaskOf
  <2> DEFINE task == [id |-> Head(queue[s]).id, todo |-> {}, stage |-> "format"]
  <2>2. TaskOf(s, task)
    BY <1>3 DEF Task, TaskOf
  <2>3. CASE relay' = [relay EXCEPT ![s] = task]
    <3> HIDE DEF task
    <3> QED
      BY <2>2, <2>3, TaskStep
  <2> QED
    BY <2>1, <2>3 DEF OnMessage
<1>6. Shape'
  BY <1>1, <1>4, <1>5 DEF Shape, Task
<1>7. Configured'
  BY <1>1 DEF Configured
<1>8. Handling'
  BY <1>1, <1>4, <1>5 DEF Handling, TaskOf, Local
<1> QED
  BY <1>6, <1>7, <1>8

LEMMA DeliveryTyped ==
  ASSUME ChatTypes, NEW s \in Servers, Format(s) \/ Crash(s)
  PROVE  ChatTypes'
<1> USE DEF ChatTypes
<1>1. CASE Format(s)
  <2> DEFINE task == [relay[s] EXCEPT !.stage = "deliver", !.todo = Local(s)]
  <2>1. /\ relay[s].stage = "format"
        /\ \/ Local(s) # {} /\ relay' = [relay EXCEPT ![s] = task]
           \/ relay' = [relay EXCEPT ![s] = Idle]
        /\ UNCHANGED <<config, writing, working, crashed, chat, link, sent, log, shown>>
    BY <1>1 DEF Format
  <2>2. Local(s) \subseteq Players /\ relay[s] \in Task /\ relay[s].id \in 1..Len(sent)
    BY <2>1 DEF Local, Shape, Handling, Task
  <2>3. relay' \in [Servers -> Task] /\ \A t \in Servers : TaskOf(t, relay'[t])
    <3>1. TaskOf(s, Idle)
      BY DEF Task, TaskOf, Idle
    <3>2. Local(s) # {} => TaskOf(s, task)
      BY <2>2 DEF Task, TaskOf
    <3> HIDE DEF task
    <3> QED
      BY <2>1, <3>1, <3>2, TaskStep
  <2>4. Shape' /\ Configured'
    BY <2>1, <2>3 DEF Shape, Configured, Task, link
  <2>5. Handling'
    BY <2>1, <2>3 DEF Handling, TaskOf, link, Local
  <2> QED
    BY <2>4, <2>5
<1>2. CASE Crash(s)
  <2>1. << >> \in Seq(Entry)
    OBVIOUS
  <2>2. Shape'
    BY <1>2, <2>1 DEF Crash, Killed, Shape
  <2>3. Configured' /\ Handling'
    BY <1>2 DEF Crash, Killed, Shape, Configured, Handling, Local
  <2> QED
    BY <2>2, <2>3
<1> QED
  BY <1>1, <1>2

LEMMA DeliverTyped ==
  ASSUME ChatTypes, NEW r \in Players, Deliver(ServerOf[r], r)
  PROVE  ChatTypes'
<1> DEFINE s == ServerOf[r]
<1> USE DEF ChatTypes
<1> DEFINE task == [relay[s] EXCEPT !.todo = relay[s].todo \ {r}]
<1>1. /\ s \in Servers /\ relay[s].stage = "deliver" /\ r \in relay[s].todo
      /\ relay[s].id \in Nat /\ Display(r, relay[s].id, TRUE)
      /\ relay' = [relay EXCEPT ![s] = IF relay[s].todo = {r} THEN Idle ELSE task]
      /\ UNCHANGED <<config, writing, working, crashed, chat, link, sent, log>>
  <2>1. s \in Servers /\ relay[s].id \in Nat
    BY DEF Shape
  <2>2. relay' = [relay EXCEPT ![s] = IF relay[s].todo = {r} THEN Idle ELSE task]
    BY DEF Deliver
  <2> QED
    BY <2>1, <2>2 DEF Deliver
<1>2. shown' \in [Players -> Seq(Seen)]
  BY <1>1, DisplayAdds
<1>3. relay' \in [Servers -> Task] /\ \A t \in Servers : TaskOf(t, relay'[t])
  <2>1. relay[s] \in Task /\ TaskOf(s, relay[s])
    BY <1>1 DEF Shape, Handling, Task, TaskOf
  <2>2. TaskOf(s, Idle)
    BY DEF Task, TaskOf, Idle
  <2>3. relay[s].todo # {r} => TaskOf(s, task)
    BY <1>1, <2>1 DEF Task, TaskOf
  <2> HIDE DEF task
  <2> QED
    BY <1>1, <2>2, <2>3, TaskStep
<1>4. Shape' /\ Configured'
  BY <1>1, <1>2, <1>3 DEF Shape, Configured, Task, link
<1>5. Handling'
  BY <1>1, <1>3 DEF Handling, TaskOf, link, Local
<1> QED
  BY <1>4, <1>5

LEMMA ConnectionTyped ==
  ASSUME ChatTypes, NEW s \in Servers, Connect(s) \/ Subscribe(s) \/ LoseSub(s) \/ LosePub(s)
  PROVE  ChatTypes'
<1> USE DEF ChatTypes
<1>1. << >> \in Seq(Entry)
  OBVIOUS
<1>2. CASE Connect(s) \/ Subscribe(s)
  <2>1. /\ pub' \in [Servers -> {"none", "ok", "broken", "err"}]
        /\ sub' \in [Servers -> {"none", "connected", "subscribed"}]
    <3>1. CASE Connect(s)
      <4>1. PICK p \in {"ok", "err"} : pub' = [pub EXCEPT ![s] = p]
        BY <3>1 DEF Connect
      <4> QED
        BY <3>1, <4>1 DEF Connect, Shape
    <3>2. CASE Subscribe(s)
      BY <3>2 DEF Subscribe, Shape
    <3> QED
      BY <1>2, <3>1, <3>2
  <2>2. Shape'
    BY <1>2, <2>1 DEF Connect, Subscribe, Shape
  <2> QED
    BY <1>2, <2>2 DEF Connect, Subscribe, Configured, Handling, Local
<1>3. CASE LoseSub(s) \/ LosePub(s)
  <2>1. Shape'
    <3>1. CASE LoseSub(s)
      BY <1>1, <3>1 DEF LoseSub, Shape
    <3>2. CASE LosePub(s)
      BY <3>2 DEF LosePub, Shape
    <3> QED
      BY <1>3, <3>1, <3>2
  <2>2. Configured'
    BY <1>3 DEF LoseSub, LosePub, Configured
  <2>3. Handling'
    BY <1>3 DEF LoseSub, LosePub, Shape, Handling, Local
  <2> QED
    BY <2>1, <2>2, <2>3
<1> QED
  BY <1>2, <1>3

LEMMA ThirdPartyTyped ==
  ASSUME ChatTypes, ThirdParty
  PROVE  ChatTypes'
<1> USE DEF ChatTypes
<1> DEFINE line == [from |-> Outsider, global |-> TRUE, to |-> {}]
<1>1. line \in Line
  BY DEF Line
<1>2. sent' \in Seq(Line) /\ Len(sent') = Len(sent) + 1 /\ Len(sent) \in Nat
  BY <1>1, SentAppend DEF ThirdParty, Shape
<1>3. /\ log' \in Seq(Entry) /\ queue' \in [Servers -> Seq(Entry)]
      /\ \A t \in Servers : \A i \in 1..Len(queue'[t]) :
           queue'[t][i].id = Len(sent') \/ (i \in 1..Len(queue[t]) /\ queue'[t][i] = queue[t][i])
  <2> DEFINE id == Len(sent')
  <2>1. id \in Nat /\ OutsiderName \in STRING /\ Publish(id, OutsiderName)
    BY <1>2 DEF ThirdParty
  <2> HIDE DEF id
  <2>2. /\ log' \in Seq(Entry) /\ queue' \in [Servers -> Seq(Entry)]
        /\ \A t \in Servers : \A i \in 1..Len(queue'[t]) :
             queue'[t][i].id = id \/ (i \in 1..Len(queue[t]) /\ queue'[t][i] = queue[t][i])
    BY <2>1, PublishAdds
  <2> QED
    BY <2>2 DEF id
<1>4. 1..Len(sent) \subseteq 1..Len(sent') /\ Len(sent') \in 1..Len(sent')
  BY <1>2
<1>5. Shape'
  BY <1>2, <1>3 DEF ThirdParty, Shape
<1>6. Configured'
  BY DEF ThirdParty, Configured
<1>7. \A t \in Servers : \A i \in 1..Len(queue'[t]) : queue'[t][i].id \in 1..Len(sent')
  <2>1. \A t \in Servers : \A i \in 1..Len(queue[t]) : queue[t][i].id \in 1..Len(sent)
    BY DEF Handling
  <2> QED
    BY <1>3, <1>4, <2>1
<1>8. Handling'
  BY <1>4, <1>7 DEF ThirdParty, Handling, Local
<1> QED
  BY <1>5, <1>6, <1>8

LEMMA TypesKept == ChatTypes /\ [Next]_vars => ChatTypes'
<1> SUFFICES ASSUME ChatTypes, [Next]_vars PROVE ChatTypes'
  OBVIOUS
<1>1. CASE UNCHANGED vars
  BY <1>1 DEF vars, link, ChatTypes, Shape, Configured, Handling, Local
<1> QED
  BY <1>1, SpeakTyped, HookTyped, ReloadTyped, MessageTyped, DeliveryTyped, DeliverTyped,
     ConnectionTyped, ThirdPartyTyped DEF Next

(* Publishing: the steps that send, publish or hand a message to its sender *)
(* leave every message on the channel once.                                 *)
Channel == Logged /\ Unpublished /\ PublishedOnce

LEMMA SpeakPublishes ==
  ASSUME RelayInv, NEW p \in Players, Speak(p)
  PROVE  Channel'
<1> USE DEF RelayInv, ChatTypes
<1>1. PICK line \in Line, to \in SUBSET Players :
        /\ sent' = Append(sent, line)
        /\ chat' = [chat EXCEPT ![ServerOf[p]] = [id |-> Len(sent'), todo |-> to]]
  BY DEF Speak, Local, Line
<1>2. /\ Len(sent') = Len(sent) + 1 /\ Len(sent) \in Nat
      /\ \A m \in 1..Len(sent) : sent'[m] = sent[m]
  BY <1>1, SentAppend DEF Shape
<1>3. UNCHANGED log
  BY DEF Speak
<1>4. Logged' /\ PublishedOnce'
  BY <1>2, <1>3 DEF Logged, PublishedOnce
<1>5. ASSUME NEW t \in Servers, NEW r \in chat'[t].todo, r = sent'[chat'[t].id].from,
             NEW i \in 1..Len(log)
      PROVE  log[i].id # chat'[t].id
  <2>1. CASE t = ServerOf[p]
    <3>1. chat'[t].id = Len(sent) + 1
      BY <1>1, <1>2, <2>1 DEF Shape
    <3> QED
      BY <1>2, <3>1 DEF Logged
  <2>2. CASE t # ServerOf[p]
    <3>1. chat'[t] = chat[t]
      BY <1>1, <2>2 DEF Shape
    <3>2. chat[t].id \in 1..Len(sent)
      BY <1>5, <3>1 DEF Handling
    <3> QED
      BY <1>2, <1>5, <3>1, <3>2 DEF Unpublished
  <2> QED
    BY <2>1, <2>2
<1>6. Unpublished'
  BY <1>3, <1>5 DEF Unpublished
<1> QED
  BY <1>4, <1>6 DEF Channel

LEMMA HookPublishes ==
  ASSUME RelayInv, NEW r \in Players, ClientChatMessage(ServerOf[r], r)
  PROVE  Channel'
<1> DEFINE s == ServerOf[r]
           m == chat[s].id
<1> USE DEF RelayInv, ChatTypes
<1>1. /\ s \in Servers /\ r \in chat[s].todo /\ m \in 1..Len(sent) /\ m \in Nat
      /\ config[s].serverName \in STRING
  <2>1. s \in Servers /\ r \in chat[s].todo /\ m \in Nat
    BY DEF ClientChatMessage, Shape
  <2> QED
    BY <2>1, Named DEF Handling
<1>2. chat' = [chat EXCEPT ![s].todo = @ \ {r}] /\ UNCHANGED sent
  BY DEF ClientChatMessage
<1>3. \A t \in Servers : chat'[t].id = chat[t].id /\ chat'[t].todo \subseteq chat[t].todo \ {r}
  <2>1. chat'[s].id = m /\ chat'[s].todo = chat[s].todo \ {r}
    BY <1>1, <1>2 DEF Shape
  <2>2. \A t \in Servers \ {s} : chat'[t] = chat[t]
    BY <1>2 DEF Shape
  <2>3. \A t \in Servers \ {s} : r \notin chat[t].todo
    BY DEF Handling, Local
  <2> QED
    BY <2>1, <2>2, <2>3
<1>4. CASE UNCHANGED log
  BY <1>2, <1>3, <1>4 DEF Channel, Logged, Unpublished, PublishedOnce
<1>5. CASE Publishes(m, r) /\ Publish(m, config[s].serverName)
  <2>1. /\ Len(log') = Len(log) + 1 /\ log'[Len(log')].id = m /\ Len(log) \in Nat
        /\ \A i \in 1..Len(log) : log'[i] = log[i]
        /\ DOMAIN log = 1..Len(log) /\ DOMAIN log' = 1..Len(log')
    <3>1. /\ log' \in Seq(Entry) /\ Len(log') = Len(log) + 1
          /\ log'[Len(log')] = [id |-> m, name |-> config[s].serverName]
          /\ \A i \in 1..Len(log) : log'[i] = log[i]
      BY <1>1, <1>5, PublishAdds
    <3>2. log \in Seq(Entry)
      BY DEF Shape
    <3> QED
      BY <3>1, <3>2
  <2>2. r = sent[m].from /\ \A i \in 1..Len(log) : log[i].id # m
    BY <1>1, <1>5 DEF Publishes, Unpublished
  <2>3. Logged' /\ PublishedOnce'
    BY <1>1, <1>2, <2>1, <2>2 DEF Logged, PublishedOnce
  <2>4. \A t \in Servers : \A q \in chat'[t].todo :
          q = sent'[chat'[t].id].from => chat'[t].id # m
    BY <1>2, <1>3, <2>2
  <2>5. Unpublished'
    <3> SUFFICES ASSUME NEW t \in Servers, NEW q \in chat'[t].todo, q = sent'[chat'[t].id].from,
                        NEW i \in 1..Len(log')
                 PROVE  log'[i].id # chat'[t].id
      BY DEF Unpublished
    <3>1. CASE i \in 1..Len(log)
      BY <1>2, <1>3, <2>1, <3>1 DEF Unpublished
    <3>2. CASE i = Len(log')
      BY <2>1, <2>4, <3>2
    <3> QED
      BY <2>1, <3>1, <3>2
  <2> QED
    BY <2>3, <2>5 DEF Channel
<1> QED
  BY <1>4, <1>5, HookDoes

LEMMA ThirdPartyPublishes ==
  ASSUME RelayInv, ThirdParty
  PROVE  Channel'
<1> USE DEF RelayInv, ChatTypes
<1> DEFINE line == [from |-> Outsider, global |-> TRUE, to |-> {}]
           id == Len(sent')
<1>1. line \in Line /\ sent' = Append(sent, line)
  BY DEF Line, ThirdParty
<1>2. /\ id = Len(sent) + 1 /\ Len(sent) \in Nat
      /\ \A m \in 1..Len(sent) : sent'[m] = sent[m]
  BY <1>1, SentAppend DEF Shape
<1>3. id \in Nat /\ OutsiderName \in STRING /\ Publish(id, OutsiderName) /\ UNCHANGED chat
  BY <1>2 DEF ThirdParty
<1> HIDE DEF id
<1>4. /\ Len(log') = Len(log) + 1 /\ log'[Len(log')].id = id /\ Len(log) \in Nat
      /\ \A i \in 1..Len(log) : log'[i] = log[i]
      /\ DOMAIN log = 1..Len(log) /\ DOMAIN log' = 1..Len(log')
  <2>1. /\ log' \in Seq(Entry) /\ Len(log') = Len(log) + 1
        /\ log'[Len(log')] = [id |-> id, name |-> OutsiderName]
        /\ \A i \in 1..Len(log) : log'[i] = log[i]
    BY <1>3, PublishAdds
  <2>2. log \in Seq(Entry)
    BY DEF Shape
  <2> QED
    BY <2>1, <2>2
<1>5. \A i \in 1..Len(log) : log[i].id \in 1..Len(sent)
  BY DEF Logged
<1>6. Logged' /\ PublishedOnce'
  <2>1. 1..Len(sent) \subseteq 1..Len(sent') /\ id \in 1..Len(sent')
    BY <1>2 DEF id
  <2>2. \A i \in 1..Len(log') : log'[i].id = id \/ (i \in 1..Len(log) /\ log'[i].id = log[i].id)
    BY <1>4
  <2>3. Logged'
    BY <1>5, <2>1, <2>2 DEF Logged
  <2>4. \A i \in 1..Len(log) : log'[i].id # id
    BY <1>2, <1>4, <1>5
  <2>5. PublishedOnce'
    BY <1>4, <2>4 DEF PublishedOnce
  <2> QED
    BY <2>3, <2>5
<1>7. Unpublished'
  <2> SUFFICES ASSUME NEW t \in Servers, NEW q \in chat[t].todo, q = sent'[chat[t].id].from,
                      NEW i \in 1..Len(log')
               PROVE  log'[i].id # chat[t].id
    BY <1>3 DEF Unpublished
  <2>1. chat[t].id \in 1..Len(sent)
    BY DEF Handling
  <2>2. CASE i \in 1..Len(log)
    BY <1>2, <1>4, <2>1, <2>2 DEF Unpublished
  <2>3. CASE i = Len(log')
    BY <1>2, <1>4, <2>1, <2>3
  <2> QED
    BY <1>4, <2>2, <2>3
<1> QED
  BY <1>6, <1>7 DEF Channel

LEMMA ChannelKept == RelayInv /\ [Next]_vars => Channel'
<1> SUFFICES ASSUME RelayInv, [Next]_vars PROVE Channel'
  OBVIOUS
<1>1. CASE UNCHANGED <<chat, sent, log>>
  BY <1>1 DEF RelayInv, Channel, Logged, Unpublished, PublishedOnce
<1>2. ASSUME NEW s \in Servers,
             \/ StartReload(s) \/ RefuseReload(s) \/ AssignConfig(s) \/ Unload(s) \/ OnMessage(s)
             \/ Format(s) \/ Crash(s) \/ Connect(s) \/ Subscribe(s) \/ LoseSub(s) \/ LosePub(s)
      PROVE  UNCHANGED <<chat, sent, log>>
  BY <1>2 DEF StartReload, RefuseReload, AssignConfig, Unload, OnMessage, Format, Crash, Connect,
              Subscribe, LoseSub, LosePub
<1>3. ASSUME NEW r \in Players, Deliver(ServerOf[r], r) PROVE UNCHANGED <<chat, sent, log>>
  BY <1>3 DEF Deliver
<1>4. CASE UNCHANGED vars
  BY <1>1, <1>4 DEF vars
<1> QED
  BY <1>1, <1>2, <1>3, <1>4, SpeakPublishes, HookPublishes, ThirdPartyPublishes DEF Next

(* The terms of a new message are added at the end.                         *)
LEMMA TermsAppend ==
  ASSUME Shape, Termed, NEW line \in Line, sent' = Append(sent, line),
         NEW c, terms' = Append(terms, c)
  PROVE  /\ Termed' /\ terms'[Len(sent')] = c
         /\ \A m \in 1..Len(sent) : terms'[m] = terms[m]
<1> DEFINE n == Len(sent)
           S == {terms[m] : m \in 1..n} \cup {c}
<1>1. n \in Nat /\ Len(sent') = n + 1
  BY SentAppend DEF Shape
<1>2. terms \in [1..n -> S]
  BY DEF Termed
<1>3. c \in S
  OBVIOUS
<1> HIDE DEF n, S
<1>4. terms \in Seq(S) /\ Len(terms) = n
  BY <1>1, <1>2
<1>5. /\ Append(terms, c) \in Seq(S) /\ Len(Append(terms, c)) = n + 1
      /\ Append(terms, c)[n + 1] = c
      /\ \A m \in 1..n : Append(terms, c)[m] = terms[m]
  BY <1>1, <1>3, <1>4
<1>6. terms' = [m \in 1..(n + 1) |-> terms'[m]]
  <2>1. terms' \in Seq(S) /\ Len(terms') = n + 1
    BY <1>5
  <2>2. terms' \in [1..(n + 1) -> S]
    BY <2>1, LenProperties
  <2> QED
    BY <2>2
<1> QED
  BY <1>1, <1>5, <1>6 DEF Termed, n

(* Only AssignConfig changes the configuration in force, and only when the  *)
(* server's players are served; only a message that is sent adds terms.     *)
LEMMA TermsKept == RelayInv /\ [Next]_vars => (Termed /\ InForce)'
<1> SUFFICES ASSUME RelayInv, [Next]_vars PROVE Termed' /\ InForce'
  OBVIOUS
<1> USE DEF RelayInv, ChatTypes
<1>1. ASSUME NEW p \in Players, Speak(p) PROVE Termed' /\ InForce'
  <2> DEFINE s == ServerOf[p]
  <2>1. PICK line \in Line, to \in SUBSET Players :
          /\ sent' = Append(sent, line)
          /\ chat' = [chat EXCEPT ![s] = [id |-> Len(sent'), todo |-> to]]
    BY <1>1 DEF Speak, Local, Line
  <2>2. /\ terms' = Append(terms, config[s]) /\ writing[s] = << >> /\ s \in Servers
        /\ UNCHANGED <<config, writing>>
    BY <1>1 DEF Speak, AtRest
  <2>3. /\ Termed' /\ terms'[Len(sent')] = config[s]
        /\ \A m \in 1..Len(sent) : terms'[m] = terms[m]
    BY <2>1, <2>2, TermsAppend
  <2>4. ASSUME NEW t \in Servers, chat'[t].todo # {}
        PROVE  config[t] = terms'[chat'[t].id] /\ writing[t] = << >>
    <3>1. CASE t = s
      <4>1. chat'[s].id = Len(sent')
        BY <2>1, <2>2 DEF Shape
      <4> QED
        BY <2>2, <2>3, <3>1, <4>1
    <3>2. CASE t # s
      <4>1. chat'[t] = chat[t] /\ chat[t].id \in 1..Len(sent)
        BY <2>1, <2>4, <3>2 DEF Shape, Handling
      <4> QED
        BY <2>3, <2>4, <4>1 DEF InForce
    <3> QED
      BY <3>1, <3>2
  <2> QED
    BY <2>2, <2>3, <2>4 DEF InForce
<1>2. CASE ThirdParty
  <2>1. [from |-> Outsider, global |-> TRUE, to |-> {}] \in Line
    BY DEF Line
  <2>2. Termed' /\ \A m \in 1..Len(sent) : terms'[m] = terms[m]
    BY <1>2, <2>1, TermsAppend DEF ThirdParty
  <2>3. UNCHANGED <<config, writing, chat>>
    BY <1>2 DEF ThirdParty
  <2> QED
    BY <2>2, <2>3 DEF InForce, Handling
<1>3. ASSUME UNCHANGED <<sent, terms, config>>,
             \A s \in Servers :
               chat'[s].todo # {} => /\ chat[s].todo # {} /\ chat'[s].id = chat[s].id
                                     /\ writing'[s] = writing[s]
      PROVE  Termed' /\ InForce'
  BY <1>3 DEF Termed, InForce
<1>4. ASSUME NEW r \in Players, ClientChatMessage(ServerOf[r], r) PROVE Termed' /\ InForce'
  <2>1. /\ chat' = [chat EXCEPT ![ServerOf[r]].todo = @ \ {r}]
        /\ UNCHANGED <<config, writing, sent, terms>> /\ ServerOf[r] \in Servers
    BY <1>4 DEF ClientChatMessage
  <2>2. \A s \in Servers : chat'[s].id = chat[s].id /\ chat'[s].todo \subseteq chat[s].todo
    BY <2>1 DEF Shape
  <2> QED
    BY <1>3, <2>1, <2>2
<1>5. ASSUME NEW t \in Servers, StartReload(t) PROVE Termed' /\ InForce'
  <2>1. /\ UNCHANGED <<config, chat, sent, terms>> /\ chat[t].todo = {}
        /\ \A s \in Servers : s # t => writing'[s] = writing[s]
    BY <1>5 DEF StartReload, AtRest, Shape
  <2> QED
    BY <1>3, <2>1
<1>6. ASSUME NEW t \in Servers, AssignConfig(t) PROVE Termed' /\ InForce'
  <2>1. /\ UNCHANGED <<chat, sent, terms>> /\ writing[t] # << >>
        /\ \A s \in Servers : s # t => config'[s] = config[s] /\ writing'[s] = writing[s]
    BY <1>6 DEF AssignConfig, Shape
  <2>2. chat[t].todo = {}
    BY <2>1 DEF InForce
  <2> QED
    BY <2>1, <2>2 DEF Termed, InForce
<1>7. ASSUME NEW t \in Servers,
             \/ RefuseReload(t) \/ Unload(t) \/ OnMessage(t) \/ Format(t) \/ Crash(t)
             \/ Connect(t) \/ Subscribe(t) \/ LoseSub(t) \/ LosePub(t)
      PROVE  UNCHANGED <<config, writing, chat, sent, terms>>
  BY <1>7 DEF RefuseReload, Unload, OnMessage, Format, Crash, Connect, Subscribe, LoseSub, LosePub
<1>8. ASSUME NEW r \in Players, Deliver(ServerOf[r], r)
      PROVE  UNCHANGED <<config, writing, chat, sent, terms>>
  BY <1>8 DEF Deliver
<1>9. CASE UNCHANGED vars
  BY <1>3, <1>9 DEF vars
<1> QED
  BY <1>1, <1>2, <1>3, <1>4, <1>5, <1>6, <1>7, <1>8, <1>9 DEF Next

LEMMA RelayInductive == Spec => []RelayInv
<1>1. RelayInv /\ [Next]_vars => RelayInv'
  BY TypesKept, ChannelKept, TermsKept DEF RelayInv, Channel
<1> QED
  BY StartTyped, <1>1, PTL DEF Spec

(* However many copies of a message the hooks see, on however many servers, *)
(* and whatever fails meanwhile, it goes out on the channel once.           *)
THEOREM PublishedOnceAlways == Spec => []PublishedOnce
<1>1. RelayInv => PublishedOnce
  BY DEF RelayInv
<1> QED
  BY RelayInductive, <1>1, PTL

(* The relay keeps its types: hook and callback handle only messages that   *)
(* have been sent, for players of their server, and no server is nameless.  *)
THEOREM RelayTyped == Spec => []TypeOK
<1>1. RelayInv => TypeOK
  <2> SUFFICES ASSUME RelayInv PROVE TypeOK
    OBVIOUS
  <2>1. DOMAIN sent = 1..Len(sent)
    BY DEF RelayInv, ChatTypes, Shape
  <2>2. \A s \in Servers : queue[s] \in Seq([id : DOMAIN sent, name : STRING])
    <3> SUFFICES ASSUME NEW s \in Servers
                 PROVE  queue[s] \in Seq([id : DOMAIN sent, name : STRING])
      OBVIOUS
    <3> DEFINE Incoming == [id : DOMAIN sent, name : STRING]
    <3>1. queue[s] \in Seq(Entry)
      BY DEF RelayInv, ChatTypes, Shape
    <3>2. ASSUME NEW i \in 1..Len(queue[s])
          PROVE  queue[s][i] \in Incoming
      <4>1. queue[s][i] \in Entry
        BY <3>1
      <4>2. queue[s][i].id \in DOMAIN sent
        BY <2>1 DEF RelayInv, ChatTypes, Handling
      <4> QED
        BY <4>1, <4>2 DEF Entry
    <3> HIDE DEF Incoming
    <3>3. queue[s] \in Seq(Incoming)
      BY <3>1, <3>2
    <3> QED
      BY <3>3 DEF Incoming
  <2>3. \A s \in Servers : config[s].serverName # NoName
    BY Named DEF RelayInv, ChatTypes
  <2> QED
    BY <2>1, <2>2, <2>3 DEF TypeOK, RelayInv, ChatTypes, Shape, Handling
<1> QED
  BY RelayInductive, <1>1, PTL

(* What a player has seen directly it has seen after any step.              *)
LEMMA SeenRemains ==
  ASSUME ChatTypes, NEW p \in Players, NEW q \in Players, NEW id \in Nat,
         NEW relayed \in BOOLEAN, UNCHANGED shown \/ Display(q, id, relayed),
         NEW m, Directly(p, m)
  PROVE  Directly(p, m)'
<1>1. CASE UNCHANGED shown
  BY <1>1 DEF Directly
<1>2. CASE Display(q, id, relayed)
  <2>1. PICK i \in DOMAIN shown[p] : shown[p][i] = [id |-> m, relayed |-> FALSE]
    BY DEF Directly
  <2>2. shown[p] \in Seq(Seen)
    BY DEF ChatTypes, Shape
  <2>3. /\ shown' \in [Players -> Seq(Seen)] /\ Len(shown'[q]) = Len(shown[q]) + 1
        /\ \A j \in 1..Len(shown[q]) : shown'[q][j] = shown[q][j]
        /\ p # q => shown'[p] = shown[p]
    <3>1. Shape
      BY DEF ChatTypes
    <3>2. /\ shown' \in [Players -> Seq(Seen)] /\ Len(shown'[q]) = Len(shown[q]) + 1
          /\ \A j \in 1..Len(shown[q]) : shown'[q][j] = shown[q][j]
          /\ \A r \in Players \ {q} : shown'[r] = shown[r]
      BY <1>2, <3>1, DisplayAdds
    <3> QED
      BY <3>2
  <2>4. i \in DOMAIN shown'[p] /\ shown'[p][i] = shown[p][i]
    <3>1. shown'[p] \in Seq(Seen)
      BY <2>3
    <3>2. DOMAIN shown[p] = 1..Len(shown[p]) /\ DOMAIN shown'[p] = 1..Len(shown'[p])
      BY <2>2, <3>1
    <3>3. CASE p = q
      <4>1. i \in 1..Len(shown[q]) /\ Len(shown[q]) \in Nat
        BY <2>2, <3>2, <3>3
      <4>2. i \in 1..Len(shown'[q]) /\ shown'[q][i] = shown[q][i]
        BY <2>3, <4>1
      <4> QED
        BY <3>2, <3>3, <4>2
    <3>4. CASE p # q
      BY <2>1, <2>3, <3>4
    <3> QED
      BY <3>3, <3>4
  <2> QED
    BY <2>1, <2>4 DEF Directly
<1> QED
  BY <1>1, <1>2

(* A recipient the hook has handled, where local messages are not replaced, *)
(* sees the message at once: no branch of the hook keeps it back.           *)
LEMMA HookShows ==
  ASSUME ChatTypes, NEW r \in Players, ClientChatMessage(ServerOf[r], r),
         ~config[ServerOf[r]].replaceLocal, NEW m \in Nat, m = chat[ServerOf[r]].id
  PROVE  Directly(r, m)'
<1> DEFINE s == ServerOf[r]
<1>1. s \in Servers
  BY DEF ChatTypes, Shape
<1>2. config[s].serverName # NoName
  BY <1>1, Named DEF ChatTypes
<1>3. Display(r, m, FALSE)
  BY <1>2 DEF ClientChatMessage, ShowOnFailure, Original
<1>4. /\ shown' \in [Players -> Seq(Seen)]
      /\ shown'[r][Len(shown'[r])] = [id |-> m, relayed |-> FALSE]
      /\ Len(shown'[r]) = Len(shown[r]) + 1
  BY <1>3, DisplayAdds DEF ChatTypes
<1>5. shown[r] \in Seq(Seen) /\ shown'[r] \in Seq(Seen)
  BY <1>4 DEF ChatTypes, Shape
<1>6. Len(shown'[r]) \in DOMAIN shown'[r]
  BY <1>4, <1>5
<1> QED
  BY <1>4, <1>6 DEF Directly

(* The message of a step that sends none was there, and its recipients are  *)
(* waiting for it or have seen it.                                          *)
Reached(m, p) == m # chat[ServerOf[p]].id \/ p \notin chat[ServerOf[p]].todo

LEMMA StaysShown ==
  ASSUME RelayInv, LocalUnaffected, [Next]_vars,
         NEW m \in 1..Len(sent), NEW p \in Players, p \in sent[m].to,
         Reached(m, p)', ~terms[m].replaceLocal
  PROVE  Directly(p, m)'
<1> USE DEF RelayInv
<1>1. DOMAIN sent = 1..Len(sent) /\ m \in Nat /\ ServerOf[p] \in Servers
  BY DEF ChatTypes, Shape
<1>2. ~Reached(m, p) => ~config[ServerOf[p]].replaceLocal
  BY <1>1 DEF Reached, InForce
<1>3. Reached(m, p) => Directly(p, m)
  BY <1>1 DEF LocalUnaffected, Reached
<1>4. ASSUME NEW r \in Players, ClientChatMessage(ServerOf[r], r) PROVE Directly(p, m)'
  <2>1. CASE Reached(m, p)
    <3>1. chat[ServerOf[r]].id \in Nat
      BY DEF ChatTypes, Shape
    <3> QED
      BY <1>1, <1>3, <1>4, <2>1, <3>1, HookDoes, SeenRemains
  <2>2. CASE ~Reached(m, p)
    <3>1. m = chat[ServerOf[p]].id /\ p \in chat[ServerOf[p]].todo
      BY <2>2 DEF Reached
    <3>2. chat' = [chat EXCEPT ![ServerOf[r]].todo = @ \ {r}]
      BY <1>4 DEF ClientChatMessage
    <3>3. r = p
      BY <1>1, <3>1, <3>2 DEF Reached, ChatTypes, Shape
    <3> QED
      BY <1>1, <1>2, <1>4, <2>2, <3>1, <3>3, HookShows
  <2> QED
    BY <2>1, <2>2
<1>5. CASE UNCHANGED <<chat, shown>>
  BY <1>3, <1>5 DEF Reached, Directly
<1>6. ASSUME NEW r \in Players, Deliver(ServerOf[r], r) PROVE Directly(p, m)'
  <2>1. Display(r, relay[ServerOf[r]].id, TRUE) /\ UNCHANGED chat /\ relay[ServerOf[r]].id \in Nat
    BY <1>6 DEF Deliver, ChatTypes, Shape
  <2>2. Directly(p, m)
    BY <1>3, <2>1 DEF Reached
  <2> QED
    BY <1>1, <2>1, <2>2, SeenRemains
<1>7. ASSUME NEW q \in Players, Speak(q) PROVE Directly(p, m)'
  <2>1. UNCHANGED shown /\ chat[ServerOf[q]].todo = {}
    BY <1>7 DEF Speak, AtRest
  <2>2. ServerOf[p] # ServerOf[q] => chat'[ServerOf[p]] = chat[ServerOf[p]]
    BY <1>1, <1>7 DEF Speak, ChatTypes, Shape
  <2>3. Reached(m, p)
    BY <2>1, <2>2 DEF Reached
  <2> QED
    BY <1>3, <2>1, <2>3 DEF Directly
<1>8. ASSUME NEW t \in Servers,
             \/ StartReload(t) \/ RefuseReload(t) \/ AssignConfig(t) \/ Unload(t) \/ OnMessage(t)
             \/ Format(t) \/ Crash(t) \/ Connect(t) \/ Subscribe(t) \/ LoseSub(t) \/ LosePub(t)
      PROVE  UNCHANGED <<chat, shown>>
  BY <1>8 DEF StartReload, RefuseReload, AssignConfig, Unload, OnMessage, Format, Crash, Connect,
              Subscribe, LoseSub, LosePub
<1>9. CASE ThirdParty \/ UNCHANGED vars
  BY <1>5, <1>9 DEF ThirdParty, vars
<1> QED
  BY <1>4, <1>5, <1>6, <1>7, <1>8, <1>9 DEF Next

(* A message that has just been sent has been shown to nobody yet, but then *)
(* the game has reached nobody either.                                      *)
LEMMA NewNotReached ==
  ASSUME RelayInv, [Next]_vars, NEW m \in 1..Len(sent'), m \notin 1..Len(sent),
         NEW p \in Players, p \in sent'[m].to
  PROVE  ~Reached(m, p)'
<1> USE DEF RelayInv, ChatTypes
<1>1. ASSUME NEW q \in Players, Speak(q) PROVE ~Reached(m, p)'
  <2>1. PICK global \in BOOLEAN, to \in SUBSET Local(ServerOf[q]) :
          /\ sent' = Append(sent, [from |-> q, global |-> global, to |-> to])
          /\ chat' = [chat EXCEPT ![ServerOf[q]] = [id |-> Len(sent'), todo |-> to]]
    BY <1>1 DEF Speak
  <2>2. to \subseteq Players /\ [from |-> q, global |-> global, to |-> to] \in Line
    BY DEF Local, Line
  <2> DEFINE line == [from |-> q, global |-> global, to |-> to]
  <2>3. m = Len(sent') /\ sent'[m].to = to
    <3>1. line.to = to
      OBVIOUS
    <3> HIDE DEF line
    <3>2. sent' = Append(sent, line) /\ line \in Line /\ Len(sent) \in Nat
      BY <2>1, <2>2 DEF line, Shape
    <3>3. Len(sent') = Len(sent) + 1 /\ sent'[Len(sent')] = line
      BY <3>2, SentAppend
    <3> QED
      BY <3>1, <3>2, <3>3
  <2>4. ServerOf[p] = ServerOf[q] /\ ServerOf[q] \in Servers
    BY <2>3 DEF Local
  <2> QED
    BY <2>1, <2>3, <2>4 DEF Reached, Shape
<1>2. CASE ThirdParty
  <2> DEFINE line == [from |-> Outsider, global |-> TRUE, to |-> {}]
  <2>1. line \in Line /\ line.to = {} /\ sent' = Append(sent, line)
    BY <1>2 DEF Line, ThirdParty
  <2> HIDE DEF line
  <2>2. m = Len(sent') /\ sent'[m].to = {}
    <3>1. Len(sent') = Len(sent) + 1 /\ sent'[Len(sent')] = line /\ Len(sent) \in Nat
      BY <2>1, SentAppend DEF Shape
    <3> QED
      BY <2>1, <3>1
  <2> QED
    BY <2>2
<1>3. sent' # sent
  OBVIOUS
<1>4. ASSUME NEW t \in Servers,
             \/ StartReload(t) \/ RefuseReload(t) \/ AssignConfig(t) \/ Unload(t) \/ OnMessage(t)
             \/ Format(t) \/ Crash(t) \/ Connect(t) \/ Subscribe(t) \/ LoseSub(t) \/ LosePub(t)
      PROVE  UNCHANGED sent
  BY <1>4 DEF StartReload, RefuseReload, AssignConfig, Unload, OnMessage, Format, Crash, Connect,
              Subscribe, LoseSub, LosePub
<1>5. ASSUME NEW r \in Players, ClientChatMessage(ServerOf[r], r) \/ Deliver(ServerOf[r], r)
      PROVE  UNCHANGED sent
  BY <1>5 DEF ClientChatMessage, Deliver
<1>6. CASE UNCHANGED vars
  BY <1>3, <1>6 DEF vars
<1> QED
  BY <1>1, <1>2, <1>3, <1>4, <1>5, <1>6 DEF Next

(* Lines are only ever added to sent, and their terms stay.                 *)
LEMMA SentGrows ==
  ASSUME RelayInv, [Next]_vars
  PROVE  /\ sent' \in Seq(Line) /\ 1..Len(sent) \subseteq 1..Len(sent')
         /\ \A m \in 1..Len(sent) : sent'[m] = sent[m] /\ terms'[m] = terms[m]
<1> USE DEF RelayInv, ChatTypes
<1>1. CASE UNCHANGED <<sent, terms>>
  BY <1>1 DEF Shape
<1>2. ASSUME NEW line \in Line, sent' = Append(sent, line), NEW c, terms' = Append(terms, c)
      PROVE  /\ sent' \in Seq(Line) /\ 1..Len(sent) \subseteq 1..Len(sent')
             /\ \A m \in 1..Len(sent) : sent'[m] = sent[m] /\ terms'[m] = terms[m]
  <2>1. \A m \in 1..Len(sent) : terms'[m] = terms[m]
    BY <1>2, TermsAppend
  <2>2. /\ sent' \in Seq(Line) /\ Len(sent') = Len(sent) + 1 /\ Len(sent) \in Nat
        /\ \A m \in 1..Len(sent) : sent'[m] = sent[m]
    BY <1>2, SentAppend DEF Shape
  <2> QED
    BY <2>1, <2>2
<1>3. ASSUME NEW q \in Players, Speak(q) PROVE  /\ \E line \in Line : sent' = Append(sent, line)
             /\ \E c : terms' = Append(terms, c)
  BY <1>3 DEF Speak, Local, Line
<1>4. ASSUME ThirdParty PROVE  /\ \E line \in Line : sent' = Append(sent, line)
             /\ \E c : terms' = Append(terms, c)
  <2>1. [from |-> Outsider, global |-> TRUE, to |-> {}] \in Line
    BY DEF Line
  <2> QED
    BY <1>4, <2>1 DEF ThirdParty
<1>5. ASSUME NEW t \in Servers,
             \/ StartReload(t) \/ RefuseReload(t) \/ AssignConfig(t) \/ Unload(t) \/ OnMessage(t)
             \/ Format(t) \/ Crash(t) \/ Connect(t) \/ Subscribe(t) \/ LoseSub(t) \/ LosePub(t)
      PROVE  UNCHANGED <<sent, terms>>
  BY <1>5 DEF StartReload, RefuseReload, AssignConfig, Unload, OnMessage, Format, Crash, Connect,
              Subscribe, LoseSub, LosePub
<1>6. ASSUME NEW r \in Players, ClientChatMessage(ServerOf[r], r) \/ Deliver(ServerOf[r], r)
      PROVE  UNCHANGED <<sent, terms>>
  BY <1>6 DEF ClientChatMessage, Deliver
<1>7. CASE UNCHANGED vars
  BY <1>1, <1>7 DEF vars
<1> QED
  BY <1>1, <1>2, <1>3, <1>4, <1>5, <1>6, <1>7 DEF Next

(* Whatever happens to Redis, the connections, the other servers and the    *)
(* configuration: what is said on a server that does not replace local      *)
(* messages is displayed by the game to every recipient.                    *)
THEOREM LocalUnaffectedAlways == Spec => []LocalUnaffected
<1>1. Init => LocalUnaffected
  BY DEF Init, LocalUnaffected
<1>2. RelayInv /\ LocalUnaffected /\ [Next]_vars => LocalUnaffected'
  <2> SUFFICES ASSUME RelayInv, LocalUnaffected, [Next]_vars,
                      NEW m \in 1..Len(sent'), NEW p \in sent'[m].to,
                      Reached(m, p)', ~terms'[m].replaceLocal
               PROVE  Directly(p, m)'
    <3>1. DOMAIN sent' = 1..Len(sent')
      BY SentGrows
    <3> QED
      BY <3>1 DEF LocalUnaffected, Reached
  <2>1. p \in Players
    <3>1. sent' \in Seq(Line)
      BY SentGrows
    <3>2. sent'[m] \in Line
      BY <3>1
    <3> QED
      BY <3>2 DEF Line
  <2>2. m \in 1..Len(sent)
    BY <2>1, NewNotReached
  <2>3. p \in sent[m].to /\ ~terms[m].replaceLocal
    BY <2>2, SentGrows
  <2> QED
    BY <2>1, <2>2, <2>3, StaysShown
<1> QED
  BY <1>1, <1>2, RelayInductive, PTL DEF Spec

(****************************************************************************)
(* The settings of a player. Ranked holds of every configuration that was   *)
(* read from a file: its groups have different priorities, and none has 0.  *)
(* The loop invariant of the walk is BestSoFar.                             *)
(****************************************************************************)
Ranked(c) ==
  \A g \in DOMAIN c.groups :
    /\ c.groups[g].priority \in Nat \ {0}
    /\ \A h \in DOMAIN c.groups : c.groups[h].priority = c.groups[g].priority => h = g

LEMMA FirstOfKey ==
  ASSUME NEW list, NEW X, list \in Seq(X), NEW k \in DOMAIN FirstEntry(list)
  PROVE  FirstEntry(list)[k] \in 1..Len(list) /\ list[FirstEntry(list)[k]].key = k
<1> DEFINE places == {i \in DOMAIN list : list[i].key = k}
<1>1. DOMAIN list = 1..Len(list) /\ Len(list) \in Nat
  OBVIOUS
<1>2. k \in {list[i].key : i \in DOMAIN list}
  BY DEF FirstEntry
<1>3. PICK i \in places : \A j \in places : i <= j
  <2>1. places # {} /\ places \subseteq Nat
    BY <1>1, <1>2
  <2> HIDE DEF places
  <2> QED
    BY <2>1, LeastNumber
<1>4. \E j \in DOMAIN list :
        list[j].key = k /\ \A l \in DOMAIN list : list[l].key = k => j <= l
  BY <1>3
<1>5. FirstEntry(list)[k] = CHOOSE j \in DOMAIN list :
        list[j].key = k /\ \A l \in DOMAIN list : list[l].key = k => j <= l
  BY <1>2 DEF FirstEntry
<1> QED
  BY <1>1, <1>4, <1>5

LEMMA GroupsRanked ==
  ASSUME NEW s \in Servers, NEW file \in StartFiles[s] \cup Files,
         NEW c, c = ReadConfig(file, Profile[s])
  PROVE  Ranked(c)
<1>1. file.groups \in Seq([key : STRING, settings : [disabled : BOOLEAN, braces : BOOLEAN]])
  BY GroupsAssumption
<1>2. c.groups = GroupMap(file.groups)
  BY ReadConfigHas
<1>3. /\ DOMAIN c.groups = DOMAIN FirstEntry(file.groups)
      /\ \A g \in DOMAIN c.groups : c.groups[g].priority = FirstEntry(file.groups)[g]
  BY <1>2 DEF GroupMap
<1>4. \A g \in DOMAIN c.groups : /\ FirstEntry(file.groups)[g] \in 1..Len(file.groups)
                                 /\ file.groups[FirstEntry(file.groups)[g]].key = g
  BY <1>1, <1>3, FirstOfKey
<1>5. Len(file.groups) \in Nat
  BY <1>1
<1> QED
  BY <1>3, <1>4, <1>5 DEF Ranked

(* The walk over names, turn by turn.                                       *)
LEMMA BestRuns ==
  ASSUME NEW c, Ranked(c), NEW names \in Seq(STRING)
  PROVE  \E best :
           /\ \A n \in 0..Len(names) :
                best[n] = IF n = 0 THEN [priority |-> 0, settings |-> c.default]
                                   ELSE Better(c, best[n - 1], names[n])
           /\ Best(c, names) = best[Len(names)].settings
<1> DEFINE N == Len(names)
           none == [priority |-> 0, settings |-> c.default]
           S == {none} \cup {c.groups[g] : g \in DOMAIN c.groups}
           step == [n \in 1..N |-> [b \in S |-> Better(c, b, names[n])]]
           Runs(best) == best = [n \in 0..N |-> IF n = 0 THEN none
                                                 ELSE Better(c, best[n - 1], names[n])]
<1>1. N \in Nat
  OBVIOUS
<1>2. \A b \in S : \A n \in 1..N : Better(c, b, names[n]) \in S
  BY DEF Better
<1>3. none \in S /\ \A n \in 1..N : \A b \in S : step[n][b] \in S
  BY <1>2
<1>4. PICK g : LoopOf(g, N, S, none, step)
  <2> HIDE DEF S, step, none, N
  <2> QED
    BY <1>1, <1>3, LoopRuns
<1>5. Runs(g)
  <2>1. /\ g \in [0..N -> S] /\ g[0] = none
        /\ \A n \in 1..N : g[n] = step[n][g[n - 1]]
    BY <1>4 DEF LoopOf
  <2>2. ASSUME NEW n \in 1..N
        PROVE  g[n] = Better(c, g[n - 1], names[n])
    <3>1. n - 1 \in 0..N
      BY <1>1
    <3>2. g[n - 1] \in S
      BY <2>1, <3>1
    <3>3. step[n][g[n - 1]] = Better(c, g[n - 1], names[n])
      <4> HIDE DEF S
      <4> QED
        BY <3>2
    <3> QED
      BY <2>1, <3>3
  <2>3. \A n \in 0..N : g[n] = IF n = 0 THEN none ELSE Better(c, g[n - 1], names[n])
    <3>1. \A n \in 0..N : n = 0 \/ n \in 1..N
      BY <1>1
    <3> HIDE DEF none, S, step
    <3> QED
      BY <2>1, <2>2, <3>1
  <2>4. g = [n \in 0..N |-> g[n]]
    BY <2>1
  <2> HIDE DEF none, S, step
  <2> QED
    BY <2>3, <2>4
<1> DEFINE best == CHOOSE b : Runs(b)
<1>6. Runs(best)
  <2> HIDE DEF Runs
  <2> QED
    BY <1>5
<1>7. Best(c, names) = best[N].settings
  BY DEF Best
<1> HIDE DEF best
<1> QED
  BY <1>1, <1>6, <1>7

(* Among the groups in held the settings s are those of the last in the     *)
(* file, or the default ones if none of them is listed.                     *)
BestAmong(c, held, b) ==
  \/ held \cap DOMAIN c.groups = {} /\ b = [priority |-> 0, settings |-> c.default]
  \/ \E g \in held \cap DOMAIN c.groups :
       /\ b = c.groups[g]
       /\ \A h \in held \cap DOMAIN c.groups : c.groups[h].priority <= c.groups[g].priority

LEMMA BestTurn ==
  ASSUME NEW c, Ranked(c), NEW held, NEW b, NEW name, BestAmong(c, held, b)
  PROVE  BestAmong(c, held \cup {name}, Better(c, b, name))
<1>1. CASE name \notin DOMAIN c.groups
  BY <1>1 DEF BestAmong, Better
<1>2. CASE name \in DOMAIN c.groups /\ held \cap DOMAIN c.groups = {}
  <2>1. b.priority = 0 /\ c.groups[name].priority \in Nat \ {0}
    BY <1>2 DEF BestAmong, Ranked
  <2>2. Better(c, b, name) = c.groups[name]
    BY <1>2, <2>1 DEF Better
  <2> QED
    BY <1>2, <2>1, <2>2 DEF BestAmong
<1>3. CASE name \in DOMAIN c.groups /\ held \cap DOMAIN c.groups # {}
  <2>1. PICK g \in held \cap DOMAIN c.groups :
          /\ b = c.groups[g]
          /\ \A h \in held \cap DOMAIN c.groups : c.groups[h].priority <= c.groups[g].priority
    BY <1>3 DEF BestAmong
  <2>2. \A h \in DOMAIN c.groups : c.groups[h].priority \in Nat
    BY DEF Ranked
  <2>3. CASE c.groups[name].priority > c.groups[g].priority
    BY <1>3, <2>1, <2>2, <2>3 DEF BestAmong, Better
  <2>4. CASE ~(c.groups[name].priority > c.groups[g].priority)
    BY <1>3, <2>1, <2>2, <2>4 DEF BestAmong, Better
  <2> QED
    BY <2>3, <2>4
<1> QED
  BY <1>1, <1>2, <1>3

LEMMA BestFound ==
  ASSUME NEW c, Ranked(c), NEW names \in Seq(STRING)
  PROVE  \E b : BestAmong(c, Range(names), b) /\ Best(c, names) = b.settings
<1> DEFINE N == Len(names)
           Held(n) == {names[i] : i \in 1..n}
<1>1. N \in Nat /\ Held(N) = Range(names)
  BY DEF Range
<1>2. PICK best :
        /\ \A n \in 0..N :
             best[n] = IF n = 0 THEN [priority |-> 0, settings |-> c.default]
                                ELSE Better(c, best[n - 1], names[n])
        /\ Best(c, names) = best[N].settings
  BY BestRuns
<1> DEFINE T == {n \in 0..N : BestAmong(c, Held(n), best[n])}
<1>3. 0 \in T
  <2>1. Held(0) = {} /\ 0 \in 0..N
    BY <1>1
  <2>2. best[0] = [priority |-> 0, settings |-> c.default]
    BY <1>2, <2>1
  <2> QED
    BY <2>1, <2>2 DEF BestAmong
<1>4. ASSUME NEW n \in 0..(N - 1), n \in T PROVE n + 1 \in T
  <2>1. n + 1 \in 0..N /\ n + 1 # 0 /\ (n + 1) - 1 = n
    BY <1>1
  <2>2. best[n + 1] = Better(c, best[n], names[n + 1])
    BY <1>2, <2>1
  <2>3. Held(n + 1) = Held(n) \cup {names[n + 1]}
    BY <1>1
  <2>4. BestAmong(c, Held(n), best[n])
    BY <1>4
  <2> HIDE DEF Held
  <2>5. BestAmong(c, Held(n + 1), best[n + 1])
    BY <2>2, <2>3, <2>4, BestTurn
  <2> QED
    BY <2>1, <2>5
<1>5. N \in T
  <2> HIDE DEF T
  <2>1. \A n \in 0..N : n \in T
    BY <1>1, <1>3, <1>4, LoopInduction
  <2> QED
    BY <1>1, <2>1
<1> QED
  BY <1>1, <1>2, <1>5

(* A key that is listed once is found where it is listed.                   *)
LEMMA OnlyEntry ==
  ASSUME NEW list, NEW X, list \in Seq(X), NEW i \in 1..Len(list),
         \A j \in 1..Len(list) : list[j].key = list[i].key => j = i
  PROVE  list[i].key \in DOMAIN FirstEntry(list) /\ FirstEntry(list)[list[i].key] = i
<1>1. list[i].key \in DOMAIN FirstEntry(list)
  BY DEF FirstEntry
<1>2. /\ FirstEntry(list)[list[i].key] \in 1..Len(list)
      /\ list[FirstEntry(list)[list[i].key]].key = list[i].key
  BY <1>1, FirstOfKey
<1> QED
  BY <1>1, <1>2

(* The group whose settings the walk finds is the listed one nearest the    *)
(* bottom of the file.                                                      *)
LEMMA BottomFound ==
  ASSUME NEW file, file.groups \in Seq([key : STRING, settings : [disabled : BOOLEAN, braces : BOOLEAN]]),
         NEW c, c.groups = GroupMap(file.groups), NEW p \in Players, UsePermissions,
         ListedOnce(file, p), NEW b, BestAmong(c, Range(GroupsOf[p]), b)
  PROVE  b.settings = IF GroupEntries(file, p) = {} THEN c.default
                      ELSE file.groups[Bottom(GroupEntries(file, p))].settings
<1> DEFINE list == file.groups
           first == FirstEntry(list)
           held == GroupEntries(file, p)
           listed == Range(GroupsOf[p]) \cap DOMAIN c.groups
<1>1. held = {i \in 1..Len(list) : list[i].key \in Range(GroupsOf[p])} /\ Len(list) \in Nat
  BY DEF GroupEntries, HeldBy
<1>2. /\ DOMAIN c.groups = DOMAIN first
      /\ \A g \in DOMAIN first : /\ c.groups[g].priority = first[g]
                                 /\ c.groups[g].settings = list[first[g]].settings
  BY DEF GroupMap
<1>3. \A g \in DOMAIN first : first[g] \in 1..Len(list) /\ list[first[g]].key = g
  BY FirstOfKey
<1>4. \A g \in listed : first[g] \in held
  BY <1>1, <1>2, <1>3
<1>5. \A j \in held : list[j].key \in listed /\ first[list[j].key] = j
  <2> SUFFICES ASSUME NEW j \in held PROVE list[j].key \in listed /\ first[list[j].key] = j
    OBVIOUS
  <2>1. j \in 1..Len(list) /\ \A k \in 1..Len(list) : list[k].key = list[j].key => k = j
    BY <1>1 DEF ListedOnce
  <2>2. list[j].key \in DOMAIN first /\ first[list[j].key] = j
    BY <2>1, OnlyEntry
  <2> QED
    BY <1>1, <1>2, <2>2
<1>6. CASE listed = {}
  <2>1. held = {}
    BY <1>5, <1>6
  <2>2. b.settings = c.default
    BY <1>6 DEF BestAmong
  <2> QED
    BY <2>1, <2>2
<1>7. CASE listed # {}
  <2>1. PICK g \in listed :
          b = c.groups[g] /\ \A h \in listed : c.groups[h].priority <= c.groups[g].priority
    BY <1>7 DEF BestAmong
  <2> DEFINE top == first[g]
  <2>2. top \in held /\ \A j \in held : j <= top
    BY <1>2, <1>4, <1>5, <2>1
  <2>3. held \subseteq Nat
    BY <1>1
  <2> HIDE DEF top, held
  <2>4. Bottom(held) = top
    <3>1. ASSUME NEW i \in held, \A j \in held : j <= i PROVE i = top
      BY <2>2, <2>3, <3>1
    <3>2. Bottom(held) = CHOOSE i \in held : \A j \in held : j <= i
      BY DEF Bottom
    <3> QED
      BY <2>2, <3>1, <3>2
  <2>5. b.settings = list[top].settings
    BY <1>2, <2>1 DEF top
  <2> QED
    BY <2>2, <2>4, <2>5 DEF held
<1> QED
  BY <1>6, <1>7

(* The walk finds what is documented.                                       *)
LEMMA AsDocumented ==
  ASSUME NEW s \in Servers, NEW file \in StartFiles[s] \cup Files,
         NEW c, c = ReadConfig(file, Profile[s]), NEW p \in Players, ListedOnce(file, p)
  PROVE  Settings(c, UsePermissions, p, GroupsOf[p]) = Documented(file, p)
<1> DEFINE named == PlayerEntries(file, p)
           held  == GroupEntries(file, p)
<1>1. /\ file.groups \in Seq([key : STRING, settings : [disabled : BOOLEAN, braces : BOOLEAN]])
      /\ file.players \in Seq([key : Players, settings : [disabled : BOOLEAN, braces : BOOLEAN]])
      /\ GroupsOf[p] \in Seq(STRING)
  BY GroupsAssumption
<1>2. /\ c.default = file.default
      /\ c.players = PlayerMap(file.players) /\ c.groups = GroupMap(file.groups)
  BY ReadConfigHas
<1>3. named = {i \in 1..Len(file.players) : file.players[i].key = p}
  BY <1>1 DEF PlayerEntries
<1>4. /\ DOMAIN c.players = {file.players[i].key : i \in 1..Len(file.players)}
      /\ \A k \in DOMAIN c.players : c.players[k] = file.players[FirstEntry(file.players)[k]].settings
  <2>1. /\ DOMAIN c.players = DOMAIN FirstEntry(file.players)
        /\ \A k \in DOMAIN c.players :
             c.players[k] = file.players[FirstEntry(file.players)[k]].settings
    BY <1>2 DEF PlayerMap
  <2>2. DOMAIN FirstEntry(file.players) = {file.players[i].key : i \in DOMAIN file.players}
    BY DEF FirstEntry
  <2>3. DOMAIN file.players = 1..Len(file.players)
    BY <1>1
  <2> QED
    BY <2>1, <2>2, <2>3
<1>5. CASE named # {}
  <2>1. PICK i \in named : TRUE
    BY <1>5
  <2>2. named = {i} /\ i \in 1..Len(file.players) /\ file.players[i].key = p
    BY <1>3, <2>1 DEF ListedOnce
  <2>3. \A j \in 1..Len(file.players) : file.players[j].key = file.players[i].key => j = i
    BY <1>3, <2>2
  <2>4. FirstEntry(file.players)[p] = i
    BY <1>1, <2>2, <2>3, OnlyEntry
  <2>5. p \in DOMAIN c.players /\ c.players[p] = file.players[i].settings
    BY <1>4, <2>2, <2>4
  <2>6. Bottom(named) = i
    <3> HIDE DEF named
    <3>1. i \in Nat
      BY <1>1, <2>2
    <3> QED
      BY <2>2, <3>1 DEF Bottom
  <2> QED
    BY <1>5, <2>5, <2>6 DEF Settings, Documented
<1>6. CASE named = {}
  <2>1. p \notin DOMAIN c.players
    BY <1>3, <1>4, <1>6
  <2>2. CASE ~UsePermissions
    <3>1. held = {}
      BY <2>2 DEF GroupEntries, HeldBy
    <3> QED
      BY <1>2, <1>6, <2>1, <2>2, <3>1 DEF Settings, Documented
  <2>3. CASE UsePermissions
    <3>1. Ranked(c)
      BY GroupsRanked
    <3>2. PICK b : BestAmong(c, Range(GroupsOf[p]), b) /\ Best(c, GroupsOf[p]) = b.settings
      BY <1>1, <3>1, BestFound
    <3>3. b.settings = IF held = {} THEN c.default ELSE file.groups[Bottom(held)].settings
      BY <1>1, <1>2, <2>3, <3>2, BottomFound
    <3>4. Settings(c, UsePermissions, p, GroupsOf[p]) = b.settings
      BY <2>1, <2>3, <3>2 DEF Settings
    <3> HIDE DEF held
    <3>5. Documented(file, p) = IF held = {} THEN file.default ELSE file.groups[Bottom(held)].settings
      BY <1>6 DEF Documented, held
    <3> QED
      BY <1>2, <3>3, <3>4, <3>5
  <2> QED
    BY <2>2, <2>3
<1> QED
  BY <1>5, <1>6

(* With any number of groups, in any order, the settings the plugin uses    *)
(* for a player are those the documentation names for the file they were    *)
(* read from, also after a reload, unless the file lists a name twice.      *)
THEOREM DocumentationFollowed == Spec => []FollowsDocumentation
<1>1. RelayInv => FollowsDocumentation
  <2> SUFFICES ASSUME RelayInv, NEW s \in Servers
               PROVE  LET read == {file \in StartFiles[s] \cup Files :
                                     config[s] = ReadConfig(file, Profile[s])}
                      IN /\ read # {}
                         /\ \A file \in read : \A p \in Players :
                              ListedOnce(file, p) => SettingsOf(s, p) = Documented(file, p)
    BY DEF FollowsDocumentation
  <2>1. PICK origin \in StartFiles[s] \cup Files : From(config[s], origin, s)
    BY DEF RelayInv, ChatTypes, Configured
  <2>2. ASSUME NEW file \in StartFiles[s] \cup Files, config[s] = ReadConfig(file, Profile[s]),
               NEW p \in Players, ListedOnce(file, p)
        PROVE  SettingsOf(s, p) = Documented(file, p)
    BY <2>2, AsDocumented DEF SettingsOf
  <2> QED
    BY <2>1, <2>2 DEF From
<1> QED
  BY RelayInductive, <1>1, PTL

(****************************************************************************)
(* ChatBoard, for reloads that are ReloadsSettled: what a player has seen   *)
(* of a message, directly or through the relay, excludes what is still to   *)
(* come, and what comes over the channel was meant for everyone. All this   *)
(* is said of the terms of a message, which no reload changes; Agreed says  *)
(* what reloads must leave alone for it.                                    *)
(****************************************************************************)
InLog(m) == \E i \in 1..Len(log) : log[i].id = m
Saw(p, m, relayed) == \E i \in 1..Len(shown[p]) : shown[p][i] = [id |-> m, relayed |-> relayed]
FromHere(s, m) == sent[m].from \in Players /\ ServerOf[sent[m].from] = s
Waits(p, m) == chat[ServerOf[p]].id = m /\ p \in chat[ServerOf[p]].todo

(* The hook leaves m to the game.                                           *)
Left(s, m) == s \notin working \/ Silenced(m) \/ ~sent[m].global

(* The game addresses the players of the sender's server.                   *)
Origins ==
  \A s \in Servers : chat[s].todo # {} =>
    FromHere(s, chat[s].id) /\ chat[s].todo \subseteq sent[chat[s].id].to

(* Only global messages of players who are not muted are published.         *)
Opened ==
  \A i \in 1..Len(log) :
    LET m == log[i].id IN
    /\ sent[m].global /\ ~Silenced(m)
    /\ sent[m].from \in Players => log[i].name = terms[m].serverName

(* A message in a queue was published, and is there once and nowhere else.  *)
QueuedAt(s) ==
  /\ \A i \in 1..Len(queue[s]) :
       /\ \E j \in 1..Len(log) : log[j] = queue[s][i]
       /\ relay[s].stage # "idle" => relay[s].id # queue[s][i].id
       /\ \A p \in Local(s) : ~Saw(p, queue[s][i].id, TRUE)
  /\ \A i, k \in 1..Len(queue[s]) : queue[s][k].id = queue[s][i].id => i = k

Queued == \A s \in Servers : QueuedAt(s)

(* So is the one being shown to the players of a server.                    *)
Unserved(s) == IF relay[s].stage = "format" THEN Local(s) ELSE relay[s].todo

Served ==
  \A s \in Servers : relay[s].stage # "idle" =>
    /\ InLog(relay[s].id)
    /\ FromHere(s, relay[s].id) => terms[relay[s].id].replaceLocal
    /\ \A p \in Unserved(s) : ~Saw(p, relay[s].id, TRUE)

(* A player sees a message over the channel, or directly and not over it.   *)
Relayed ==
  \A p \in Players : \A m \in Nat : Saw(p, m, TRUE) =>
    InLog(m) /\ (FromHere(ServerOf[p], m) => terms[m].replaceLocal)

Direct ==
  \A p \in Players : \A m \in Nat : Saw(p, m, FALSE) =>
    /\ m \in 1..Len(sent) /\ FromHere(ServerOf[p], m) /\ ~Waits(p, m)
    /\ terms[m].replaceLocal =>
         ~InLog(m) /\ (Waits(sent[m].from, m) => Left(ServerOf[p], m))

(* What is published is not left to the game for the other recipients.      *)
Committed ==
  \A s \in Servers : chat[s].todo # {} /\ InLog(chat[s].id) => ~Left(s, chat[s].id)

OnceOnly == Origins /\ Opened /\ Queued /\ Served /\ Relayed /\ Direct /\ Committed

(* A server's own message comes back to the name and the ReplaceLocalMessage *)
(* it was said under.                                                       *)
AgreedAt(s) ==
  \A i \in 1..Len(queue[s]) :
    FromHere(s, queue[s][i].id) => SameRelay(config[s], terms[queue[s][i].id])

Agreed == \A s \in Servers : AgreedAt(s)

BoardInv == RelayInv /\ OnceOnly /\ Agreed

(* What a display adds to what players have seen.                           *)
LEMMA DisplaySaw ==
  ASSUME ChatTypes, NEW q \in Players, NEW id \in Nat, NEW b \in BOOLEAN, Display(q, id, b)
  PROVE  \A p \in Players : \A m \in Nat : \A c \in BOOLEAN :
           Saw(p, m, c)' <=> (Saw(p, m, c) \/ (p = q /\ m = id /\ c = b))
<1> SUFFICES ASSUME NEW p \in Players, NEW m \in Nat, NEW c \in BOOLEAN
             PROVE  Saw(p, m, c)' <=> (Saw(p, m, c) \/ (p = q /\ m = id /\ c = b))
  OBVIOUS
<1>1. /\ shown' \in [Players -> Seq(Seen)]
      /\ Len(shown'[q]) = Len(shown[q]) + 1
      /\ shown'[q][Len(shown'[q])] = [id |-> id, relayed |-> b]
      /\ \A i \in 1..Len(shown[q]) : shown'[q][i] = shown[q][i]
      /\ \A r \in Players \ {q} : shown'[r] = shown[r]
  BY DisplayAdds DEF ChatTypes
<1>2. Len(shown[q]) \in Nat
  BY DEF ChatTypes, Shape
<1>3. CASE p # q
  BY <1>1, <1>3 DEF Saw
<1>4. CASE p = q
  <2> DEFINE line == [id |-> m, relayed |-> c]
  <2>1. [id |-> id, relayed |-> b] = line <=> m = id /\ c = b
    OBVIOUS
  <2> HIDE DEF line
  <2>2. (\E i \in 1..Len(shown'[q]) : shown'[q][i] = line)
          <=> (\E i \in 1..Len(shown[q]) : shown[q][i] = line) \/ (m = id /\ c = b)
    <3>1. 1..Len(shown'[q]) = 1..Len(shown[q]) \cup {Len(shown'[q])}
      BY <1>1, <1>2
    <3> QED
      BY <1>1, <2>1, <3>1
  <2> QED
    BY <1>4, <2>2 DEF Saw, line
<1> QED
  BY <1>3, <1>4

(* Nothing but a publish adds to the log, under a new number.               *)
LEMMA PublishLogs ==
  ASSUME ChatTypes, NEW id \in Nat, NEW name \in STRING, Publish(id, name)
  PROVE  \A m \in Nat : InLog(m)' <=> (InLog(m) \/ m = id)
<1>1. /\ Len(log') = Len(log) + 1 /\ log'[Len(log')] = [id |-> id, name |-> name]
      /\ \A i \in 1..Len(log) : log'[i] = log[i]
  BY PublishAdds DEF ChatTypes
<1>2. Len(log) \in Nat
  BY DEF ChatTypes, Shape
<1>3. 1..Len(log') = 1..Len(log) \cup {Len(log')} /\ log'[Len(log')].id = id
  BY <1>1, <1>2
<1> QED
  BY <1>1, <1>3 DEF InLog

(* What players have seen, over the channel (c) or directly, stays as it is. *)
SawSame(c) == \A p \in Players : \A m \in Nat : Saw(p, m, c)' <=> Saw(p, m, c)

LEMMA ShownSame == UNCHANGED shown => SawSame(TRUE) /\ SawSame(FALSE)
BY DEF SawSame, Saw

(* The messages sent so far keep their numbers and terms, and what is on    *)
(* the channel stays there.                                                 *)
Grows ==
  /\ \A m \in 1..Len(sent) :
       m \in 1..Len(sent') /\ sent'[m] = sent[m] /\ terms'[m] = terms[m]
  /\ \A i \in 1..Len(log) : i \in 1..Len(log') /\ log'[i] = log[i]

LEMMA LogGrows == ASSUME Grows, NEW m, InLog(m) PROVE InLog(m)'
BY DEF Grows, InLog

LEMMA SilencedGrows ==
  ASSUME Grows, NEW m \in 1..Len(sent)
  PROVE  Silenced(m)' <=> Silenced(m)
BY DEF Grows, Silenced

LEMMA QueuedQuiet ==
  ASSUME Queued, Grows, SawSame(TRUE), relay' = relay, ChatTypes,
         NEW s \in Servers, queue'[s] = queue[s] \/ queue'[s] = << >>
  PROVE  QueuedAt(s)'
<1>1. CASE queue'[s] = queue[s]
  <2>1. queue[s] \in Seq(Entry)
    BY DEF ChatTypes, Shape
  <2>2. \A i \in 1..Len(queue[s]) : queue[s][i].id \in Nat
    <3>1. \A i \in 1..Len(queue[s]) : queue[s][i] \in Entry
      BY <2>1
    <3> QED
      BY <3>1 DEF Entry
  <2>3. QueuedAt(s)
    BY DEF Queued
  <2>4. /\ \A i \in 1..Len(queue[s]) :
             /\ \E j \in 1..Len(log) : log[j] = queue[s][i]
             /\ relay[s].stage # "idle" => relay[s].id # queue[s][i].id
             /\ \A p \in Local(s) : ~Saw(p, queue[s][i].id, TRUE)
        /\ \A i, k \in 1..Len(queue[s]) : queue[s][k].id = queue[s][i].id => i = k
    BY <2>3 DEF QueuedAt
  <2>5. ASSUME NEW i \in 1..Len(queue[s]), NEW p \in Local(s)
        PROVE  ~Saw(p, queue[s][i].id, TRUE)'
    <3>1. ~Saw(p, queue[s][i].id, TRUE) /\ queue[s][i].id \in Nat /\ p \in Players
      BY <2>2, <2>4 DEF Local
    <3> QED
      BY <1>1, <3>1 DEF SawSame
  <2>6. \A i \in 1..Len(queue[s]) : \E j \in 1..Len(log') : log'[j] = queue[s][i]
    BY <2>4 DEF Grows
  <2> QED
    BY <1>1, <2>4, <2>5, <2>6 DEF QueuedAt, Local
<1>2. CASE queue'[s] = << >>
  BY <1>2 DEF QueuedAt
<1> QED
  BY <1>1, <1>2

LEMMA ServedQuiet ==
  ASSUME Served, Grows, SawSame(TRUE), relay' = relay, ChatTypes
  PROVE  Served'
<1> SUFFICES ASSUME NEW s \in Servers, relay[s].stage # "idle"
             PROVE  /\ InLog(relay[s].id)'
                    /\ FromHere(s, relay[s].id)' => terms'[relay[s].id].replaceLocal
                    /\ \A p \in Unserved(s) : ~Saw(p, relay[s].id, TRUE)'
  BY DEF Served, Unserved, Local, Grows
<1>1. relay[s].id \in 1..Len(sent) /\ relay[s].id \in Nat /\ Unserved(s) \subseteq Players
  BY DEF ChatTypes, Shape, Handling, Unserved, Local
<1>2. /\ FromHere(s, relay[s].id)' => FromHere(s, relay[s].id)
      /\ terms'[relay[s].id] = terms[relay[s].id]
  BY <1>1 DEF FromHere, Grows
<1>3. InLog(relay[s].id)'
  BY LogGrows DEF Served, InLog, Grows
<1> QED
  BY <1>1, <1>2, <1>3 DEF Served, SawSame

LEMMA QueuedPublish ==
  ASSUME ChatTypes, Queued, Served, Relayed, Grows, SawSame(TRUE), relay' = relay,
         NEW id \in Nat, NEW name \in STRING, Publish(id, name), ~InLog(id), NEW s \in Servers
  PROVE  QueuedAt(s)'
<1> DEFINE entry == [id |-> id, name |-> name]
<1>1. entry \in Entry
  BY DEF Entry
<1>2. queue'[s] = queue[s] \/ queue'[s] = Append(queue[s], entry)
  BY DEF Publish
<1>3. CASE queue'[s] = queue[s]
  BY <1>3, QueuedQuiet
<1>4. CASE queue'[s] = Append(queue[s], entry)
  <2>1. Len(log') \in 1..Len(log') /\ log'[Len(log')] = entry
    <3>1. Len(log') = Len(log) + 1 /\ log'[Len(log')] = entry
      BY PublishAdds DEF ChatTypes
    <3> QED
      BY <3>1 DEF ChatTypes, Shape
  <2>2. entry.id = id
    OBVIOUS
  <2> HIDE DEF entry
  <2>3. queue[s] \in Seq(Entry)
    BY DEF ChatTypes, Shape
  <2> DEFINE n == Len(queue[s]) + 1
  <2>4. /\ Len(queue'[s]) = n /\ queue'[s][n] = entry
        /\ \A i \in 1..Len(queue[s]) : queue'[s][i] = queue[s][i]
        /\ 1..n = 1..Len(queue[s]) \cup {n}
    BY <1>1, <1>4, <2>3
  <2> HIDE DEF n
  <2>5. /\ \A i \in 1..Len(queue[s]) :
             /\ \E j \in 1..Len(log) : log[j] = queue[s][i]
             /\ relay[s].stage # "idle" => relay[s].id # queue[s][i].id
             /\ \A p \in Local(s) : ~Saw(p, queue[s][i].id, TRUE)
        /\ \A i, k \in 1..Len(queue[s]) : queue[s][k].id = queue[s][i].id => i = k
    BY DEF Queued, QueuedAt
  <2>6. \A i \in 1..Len(queue[s]) : queue[s][i].id \in Nat /\ queue[s][i].id # id
    <3>1. \A i \in 1..Len(queue[s]) : queue[s][i] \in Entry
      BY <2>3
    <3>2. \A i \in 1..Len(queue[s]) : InLog(queue[s][i].id)
      BY <2>5 DEF InLog
    <3> QED
      BY <3>1, <3>2 DEF Entry
  <2>7. ASSUME NEW i \in 1..n
        PROVE  /\ \E j \in 1..Len(log') : log'[j] = queue'[s][i]
               /\ relay[s].stage # "idle" => relay[s].id # queue'[s][i].id
    <3>1. CASE i \in 1..Len(queue[s])
      BY <2>4, <2>5, <3>1 DEF Grows
    <3>2. CASE i = n
      <4>1. relay[s].stage # "idle" => relay[s].id # id
        BY DEF Served
      <4> QED
        BY <2>1, <2>2, <2>4, <3>2, <4>1
    <3> QED
      BY <2>4, <3>1, <3>2
  <2>8. ASSUME NEW i \in 1..n, NEW p \in Local(s)
        PROVE  ~Saw(p, queue[s][i].id, TRUE)'
    <3>1. p \in Players
      BY DEF Local
    <3>2. CASE i \in 1..Len(queue[s])
      <4>1. ~Saw(p, queue[s][i].id, TRUE) /\ queue[s][i].id \in Nat /\ queue'[s][i] = queue[s][i]
        BY <2>4, <2>5, <2>6, <3>2
      <4> QED
        BY <3>1, <4>1 DEF SawSame
    <3>3. CASE i = n
      <4>1. ~Saw(p, id, TRUE)
        BY <3>1 DEF Relayed
      <4>2. queue'[s][i].id = id
        BY <2>2, <2>4, <3>3
      <4> QED
        BY <3>1, <4>1, <4>2 DEF SawSame
    <3> QED
      BY <2>4, <3>2, <3>3
  <2>9. \A i, k \in 1..n : queue'[s][k].id = queue'[s][i].id => i = k
    BY <2>2, <2>4, <2>5, <2>6
  <2> QED
    BY <2>4, <2>7, <2>8, <2>9 DEF QueuedAt, Local
<1> QED
  BY <1>2, <1>3, <1>4

LEMMA RelayedQuiet ==
  ASSUME Relayed, Grows, SawSame(TRUE), Logged
  PROVE  Relayed'
<1> SUFFICES ASSUME NEW p \in Players, NEW m \in Nat, Saw(p, m, TRUE)
             PROVE  /\ InLog(m)'
                    /\ FromHere(ServerOf[p], m)' => terms'[m].replaceLocal
  BY DEF Relayed, SawSame
<1>1. InLog(m) /\ (FromHere(ServerOf[p], m) => terms[m].replaceLocal)
  BY DEF Relayed
<1>2. m \in 1..Len(sent)
  BY <1>1 DEF InLog, Logged
<1>3. InLog(m)'
  BY <1>1, LogGrows
<1> QED
  BY <1>1, <1>2, <1>3 DEF FromHere, Grows

(* Whatever is on the channel stays open, and Origins holds, when nothing   *)
(* is said or published.                                                    *)
LEMMA OpenedQuiet ==
  ASSUME Opened, Grows, UNCHANGED log, Logged
  PROVE  Opened'
<1> SUFFICES ASSUME NEW i \in 1..Len(log), NEW m, m = log[i].id
             PROVE  /\ sent'[m].global /\ ~Silenced(m)'
                    /\ sent'[m].from \in Players => log[i].name = terms'[m].serverName
  BY DEF Opened
<1>1. m \in 1..Len(sent)
  BY DEF Logged
<1>2. /\ sent[m].global /\ ~Silenced(m)
      /\ sent[m].from \in Players => log[i].name = terms[m].serverName
  BY DEF Opened
<1>3. sent'[m] = sent[m] /\ terms'[m] = terms[m]
  BY <1>1 DEF Grows
<1> QED
  BY <1>1, <1>2, <1>3, SilencedGrows

LEMMA OpenedPublish ==
  ASSUME Opened, Grows, ChatTypes, Logged, NEW id \in Nat, NEW name \in STRING,
         Publish(id, name), sent'[id].global, ~Silenced(id)',
         sent'[id].from \in Players => name = terms'[id].serverName
  PROVE  Opened'
<1>1. /\ Len(log') = Len(log) + 1 /\ log'[Len(log')] = [id |-> id, name |-> name]
      /\ Len(log) \in Nat
  <2>1. Len(log') = Len(log) + 1 /\ log'[Len(log')] = [id |-> id, name |-> name]
    BY PublishAdds DEF ChatTypes
  <2>2. Len(log) \in Nat
    BY DEF ChatTypes, Shape
  <2> QED
    BY <2>1, <2>2
<1>2. log'[Len(log')].id = id /\ log'[Len(log')].name = name
  BY <1>1
<1>3. 1..Len(log') = 1..Len(log) \cup {Len(log')}
  BY <1>1
<1> SUFFICES ASSUME NEW i \in 1..Len(log'), NEW m, m = log'[i].id
             PROVE  /\ sent'[m].global /\ ~Silenced(m)'
                    /\ sent'[m].from \in Players => log'[i].name = terms'[m].serverName
  BY DEF Opened
<1>4. CASE i \in 1..Len(log)
  <2>1. log'[i] = log[i] /\ m = log[i].id /\ m \in 1..Len(sent)
    BY <1>4 DEF Grows, Logged
  <2>2. sent'[m] = sent[m] /\ terms'[m] = terms[m] /\ (Silenced(m)' <=> Silenced(m))
    BY <2>1, SilencedGrows DEF Grows
  <2> QED
    BY <1>4, <2>1, <2>2 DEF Opened
<1>5. CASE i = Len(log')
  BY <1>2, <1>5
<1> QED
  BY <1>3, <1>4, <1>5

(* A step that says and publishes nothing; a plugin is unloaded only when   *)
(* its hook has nothing to do.                                              *)
Calm ==
  /\ Grows /\ UNCHANGED <<chat, sent, log, terms>>
  /\ working' \subseteq working
  /\ \A s \in Servers : chat[s].todo # {} /\ s \in working => s \in working'

LEMMA CalmKeeps ==
  ASSUME ChatTypes, Logged, Origins, Opened, Direct, Committed, Calm, SawSame(FALSE)
  PROVE  Origins' /\ Opened' /\ Direct' /\ Committed'
<1>1. Origins'
  BY DEF Origins, Calm, FromHere
<1>2. Opened'
  BY OpenedQuiet DEF Calm
<1>6. Direct'
  <2> SUFFICES ASSUME NEW p \in Players, NEW m \in Nat, Saw(p, m, FALSE)
               PROVE  /\ m \in 1..Len(sent) /\ FromHere(ServerOf[p], m)' /\ ~Waits(p, m)'
                      /\ terms'[m].replaceLocal =>
                           ~InLog(m)' /\ (Waits(sent[m].from, m) => Left(ServerOf[p], m)')
    BY DEF Direct, SawSame, Calm, Grows, Waits
  <2>1. /\ m \in 1..Len(sent) /\ FromHere(ServerOf[p], m) /\ ~Waits(p, m)
        /\ terms[m].replaceLocal =>
             ~InLog(m) /\ (Waits(sent[m].from, m) => Left(ServerOf[p], m))
    BY DEF Direct
  <2>2. FromHere(ServerOf[p], m)' /\ ~Waits(p, m)'
    BY <2>1 DEF FromHere, Waits, Calm
  <2>3. Left(ServerOf[p], m) => Left(ServerOf[p], m)'
    BY DEF Left, Silenced, Calm
  <2>4. terms' = terms /\ (InLog(m)' <=> InLog(m))
    BY DEF InLog, Calm
  <2> QED
    BY <2>1, <2>2, <2>3, <2>4
<1>7. Committed'
  <2> SUFFICES ASSUME NEW s \in Servers, chat[s].todo # {}, InLog(chat[s].id)'
               PROVE  ~Left(s, chat[s].id)'
    BY DEF Committed, Calm
  <2>1. InLog(chat[s].id)
    BY DEF InLog, Calm
  <2>2. ~Left(s, chat[s].id)
    BY <2>1 DEF Committed
  <2> QED
    BY <2>2 DEF Left, Silenced, Calm
<1> QED
  BY <1>1, <1>2, <1>6, <1>7

(* Connections come and go, the plugin is unloaded, the process dies.       *)
LEMMA CutKeeps ==
  ASSUME ChatTypes, Logged, OnceOnly, Calm, UNCHANGED <<relay, shown>>,
         \A s \in Servers : queue'[s] = queue[s] \/ queue'[s] = << >>
  PROVE  OnceOnly'
<1> USE DEF OnceOnly
<1>1. Grows /\ SawSame(TRUE) /\ SawSame(FALSE)
  BY ShownSame DEF Calm
<1>2. Queued'
  <2>1. \A s \in Servers : QueuedAt(s)'
    BY <1>1, QueuedQuiet
  <2> QED
    BY <2>1 DEF Queued
<1>3. Served' /\ Relayed'
  BY <1>1, ServedQuiet, RelayedQuiet
<1> QED
  BY <1>1, <1>2, <1>3, CalmKeeps

LEMMA SpeakKeeps ==
  ASSUME RelayInv, OnceOnly, NEW q \in Players, Speak(q)
  PROVE  OnceOnly'
<1> USE DEF RelayInv, OnceOnly
<1> DEFINE t == ServerOf[q]
           n == Len(sent) + 1
<1>1. PICK global \in BOOLEAN, to \in SUBSET Local(t) :
        /\ sent' = Append(sent, [from |-> q, global |-> global, to |-> to])
        /\ chat' = [chat EXCEPT ![t] = [id |-> Len(sent'), todo |-> to]]
  BY DEF Speak
<1>2. /\ chat[t].todo = {} /\ t \in Servers
      /\ UNCHANGED <<config, writing, working, relay, queue, log, shown>>
  BY DEF Speak, AtRest, link
<1>3. /\ sent' \in Seq(Line) /\ Len(sent') = n /\ Len(sent) \in Nat
      /\ sent'[n].from = q /\ sent'[n].to = to
      /\ \A m \in 1..Len(sent) : sent'[m] = sent[m] /\ terms'[m] = terms[m]
  <2> DEFINE line == [from |-> q, global |-> global, to |-> to]
  <2>1. line \in Line /\ line.from = q /\ line.to = to
    BY DEF Line, Local
  <2> HIDE DEF line
  <2>2. sent' = Append(sent, line)
    BY <1>1 DEF line
  <2>3. terms' = Append(terms, config[t])
    BY DEF Speak
  <2>4. \A m \in 1..Len(sent) : terms'[m] = terms[m]
    BY <2>1, <2>2, <2>3, TermsAppend DEF ChatTypes
  <2> QED
    BY <2>1, <2>2, <2>4, SentAppend DEF ChatTypes, Shape
<1>4. /\ chat'[t].id = n /\ chat'[t].todo = to
      /\ \A s \in Servers : s # t => chat'[s] = chat[s]
  BY <1>1, <1>2, <1>3 DEF ChatTypes, Shape
<1>5. Grows /\ SawSame(TRUE) /\ SawSame(FALSE)
  <2>1. \A m \in 1..Len(sent) : m \in 1..Len(sent') /\ sent'[m] = sent[m] /\ terms'[m] = terms[m]
    BY <1>3
  <2>2. log' = log /\ UNCHANGED shown
    BY <1>2
  <2> QED
    BY <2>1, <2>2, ShownSame DEF Grows
<1>6. Queued'
  <2>1. \A s \in Servers : QueuedAt(s)'
    BY <1>2, <1>5, QueuedQuiet
  <2> QED
    BY <2>1 DEF Queued
<1>7. Served' /\ Relayed' /\ Opened'
  BY <1>2, <1>5, ServedQuiet, RelayedQuiet, OpenedQuiet
<1>8. \A m : InLog(m)' <=> InLog(m)
  BY <1>2 DEF InLog
<1>9. Origins'
  <2> SUFFICES ASSUME NEW s \in Servers, chat'[s].todo # {}
               PROVE  FromHere(s, chat[s].id)' /\ chat'[s].todo \subseteq sent'[chat'[s].id].to
    BY DEF Origins
  <2>1. CASE s = t
    BY <1>3, <1>4, <2>1 DEF FromHere
  <2>2. CASE s # t
    <3>1. chat'[s] = chat[s] /\ chat[s].id \in 1..Len(sent)
      BY <1>4, <2>2 DEF ChatTypes, Handling
    <3>2. FromHere(s, chat[s].id) /\ chat[s].todo \subseteq sent[chat[s].id].to
      BY <3>1 DEF Origins
    <3> QED
      BY <1>3, <3>1, <3>2 DEF FromHere
  <2> QED
    BY <2>1, <2>2
<1>10. Direct'
  <2> SUFFICES ASSUME NEW p \in Players, NEW m \in Nat, Saw(p, m, FALSE)
               PROVE  /\ m \in 1..Len(sent') /\ FromHere(ServerOf[p], m)' /\ ~Waits(p, m)'
                      /\ terms'[m].replaceLocal =>
                           ~InLog(m)' /\ (Waits(sent[m].from, m)' => Left(ServerOf[p], m)')
    BY <1>2, <1>5 DEF Direct, SawSame
  <2>1. /\ m \in 1..Len(sent) /\ FromHere(ServerOf[p], m) /\ ~Waits(p, m)
        /\ terms[m].replaceLocal =>
             ~InLog(m) /\ (Waits(sent[m].from, m) => Left(ServerOf[p], m))
    BY DEF Direct
  <2>2. sent'[m] = sent[m] /\ terms'[m] = terms[m] /\ m # n /\ m \in 1..Len(sent')
    BY <1>3, <2>1
  <2>3. sent[m].from \in Players /\ ServerOf[sent[m].from] \in Servers /\ ServerOf[p] \in Servers
    BY <2>1 DEF FromHere
  <2>4. FromHere(ServerOf[p], m)'
    BY <2>1, <2>2 DEF FromHere
  <2>5. \A x \in Players : Waits(x, m)' => Waits(x, m)
    BY <1>4, <2>2 DEF Waits
  <2>6. Left(ServerOf[p], m) => Left(ServerOf[p], m)'
    BY <1>2, <2>2 DEF Left, Silenced
  <2>7. Waits(sent[m].from, m)' => Waits(sent[m].from, m)
    BY <1>4, <2>2, <2>3 DEF Waits
  <2> QED
    BY <1>8, <2>1, <2>2, <2>4, <2>5, <2>6, <2>7
<1>11. Committed'
  <2> SUFFICES ASSUME NEW s \in Servers, chat'[s].todo # {}, InLog(chat[s].id)'
               PROVE  ~Left(s, chat[s].id)'
    BY DEF Committed
  <2>1. s # t
    BY <1>2, <1>3, <1>4 DEF InLog, Logged
  <2>2. chat'[s] = chat[s] /\ chat[s].id \in 1..Len(sent)
    BY <1>4, <2>1 DEF ChatTypes, Handling
  <2>3. ~Left(s, chat[s].id)
    BY <1>2, <2>2 DEF Committed, InLog
  <2> QED
    BY <1>2, <1>3, <2>2, <2>3 DEF Left, Silenced
<1> QED
  BY <1>6, <1>7, <1>9, <1>10, <1>11

(* The message the hook handles comes from its server, and its recipient    *)
(* waits for it no more.                                                    *)
LEMMA HookTakes ==
  ASSUME RelayInv, Origins, NEW r \in Players, ClientChatMessage(ServerOf[r], r)
  PROVE  LET s == ServerOf[r]
             m == chat[s].id
         IN
         /\ s \in Servers /\ r \in chat[s].todo /\ m \in 1..Len(sent) /\ m \in Nat
         /\ FromHere(s, m) /\ config[s].serverName \in STRING /\ r \in sent[m].to
         /\ \A t \in Servers : chat'[t].id = chat[t].id /\ chat'[t].todo \subseteq chat[t].todo
         /\ r \notin chat'[s].todo
         /\ UNCHANGED <<config, writing, working, relay, sent, terms>>
<1> USE DEF RelayInv
<1> DEFINE s == ServerOf[r]
           m == chat[s].id
<1>1. s \in Servers /\ r \in chat[s].todo /\ m \in Nat
  BY DEF ClientChatMessage, ChatTypes, Shape
<1>2. m \in 1..Len(sent) /\ config[s].serverName \in STRING
  BY <1>1, Named DEF ChatTypes, Handling
<1>3. /\ chat' = [chat EXCEPT ![s].todo = @ \ {r}]
      /\ UNCHANGED <<config, writing, working, relay, sent, terms>>
  BY DEF ClientChatMessage
<1>4. /\ \A t \in Servers : chat'[t].id = chat[t].id /\ chat'[t].todo \subseteq chat[t].todo
      /\ r \notin chat'[s].todo
  BY <1>1, <1>3 DEF ChatTypes, Shape
<1>5. FromHere(s, m) /\ r \in sent[m].to
  BY <1>1 DEF Origins
<1> QED
  BY <1>1, <1>2, <1>3, <1>4, <1>5

(* The hook decides by the terms of the message.                            *)
LEMMA HookTerms ==
  ASSUME RelayInv, Origins, NEW r \in Players, ClientChatMessage(ServerOf[r], r),
         NEW s, s = ServerOf[r], NEW m, m = chat[s].id
  PROVE  config[s] = terms[m] /\ (PassedOn(s, m) <=> Left(s, m))
<1>1. s \in Servers /\ r \in chat[s].todo /\ FromHere(s, m)
  BY HookTakes
<1>2. config[s] = terms[m]
  BY <1>1 DEF RelayInv, InForce
<1>3. SettingsOf(s, sent[m].from).disabled <=> Silenced(m)
  BY <1>1, <1>2 DEF SettingsOf, Silenced, FromHere
<1> QED
  BY <1>2, <1>3 DEF PassedOn, Left

(* The hook publishes a global message of a player who is not muted, or     *)
(* leaves the channel alone; it shows nothing that will come back over it.  *)
LEMMA HookCases ==
  ASSUME RelayInv, Origins, NEW r \in Players, ClientChatMessage(ServerOf[r], r)
  PROVE  LET s == ServerOf[r]
             m == chat[s].id
         IN
         \/ /\ UNCHANGED <<log, queue>>
            /\ \/ UNCHANGED shown
               \/ /\ Display(r, m, FALSE)
                  /\ Left(s, m) \/ ~terms[m].replaceLocal \/ r = sent[m].from
         \/ /\ r = sent[m].from /\ ~Left(s, m) /\ Publish(m, terms[m].serverName)
            /\ UNCHANGED shown \/ (~terms[m].replaceLocal /\ Display(r, m, FALSE))
<1> DEFINE s == ServerOf[r]
           m == chat[s].id
           blank == s \in working /\ config[s].serverName = NoName
<1>0. config[s] = terms[m] /\ (PassedOn(s, m) <=> Left(s, m))
  BY HookTerms
<1>1. CASE ~blank /\ ~PassedOn(s, m) /\ Publishes(m, r)
  <2>1. \/ NoConnection(s) /\ ShowOnFailure(r, m) /\ UNCHANGED <<pub, log, queue>>
        \/ PublishOn(s, m) /\ Original(s, r, m)
    BY <1>1 DEF ClientChatMessage
  <2>2. r = sent[m].from
    BY <1>1 DEF Publishes
  <2>3. CASE NoConnection(s) /\ ShowOnFailure(r, m) /\ UNCHANGED <<pub, log, queue>>
    BY <2>2, <2>3 DEF ShowOnFailure
  <2>4. CASE PublishOn(s, m) /\ Original(s, r, m)
    <3>1. UNCHANGED shown \/ (~terms[m].replaceLocal /\ Display(r, m, FALSE))
      BY <1>0, <2>4 DEF Original
    <3>2. UNCHANGED <<log, queue>> \/ Publish(m, terms[m].serverName)
      BY <1>0, <2>4 DEF PublishOn
    <3> QED
      BY <1>0, <1>1, <2>2, <3>1, <3>2
  <2> QED
    BY <2>1, <2>3, <2>4
<1>2. CASE ~(~blank /\ ~PassedOn(s, m) /\ Publishes(m, r))
  <2>1. /\ CASE blank -> UNCHANGED shown
             [] ~blank /\ PassedOn(s, m) -> Display(r, m, FALSE)
             [] OTHER -> Original(s, r, m)
        /\ UNCHANGED <<pub, log, queue>>
    BY <1>2 DEF ClientChatMessage
  <2>2. CASE UNCHANGED shown
    BY <2>1, <2>2
  <2>3. CASE PassedOn(s, m) /\ Display(r, m, FALSE)
    BY <1>0, <2>1, <2>3
  <2>4. CASE Original(s, r, m)
    BY <1>0, <2>1, <2>4 DEF Original
  <2> QED
    BY <2>1, <2>2, <2>3, <2>4
<1> QED
  BY <1>1, <1>2

(* A recipient sees nothing directly that it has seen before.               *)
LEMMA HookFresh ==
  ASSUME RelayInv, OnceOnly, NEW r \in Players, ClientChatMessage(ServerOf[r], r),
         NEW m, m = chat[ServerOf[r]].id, Display(r, m, FALSE),
         Left(ServerOf[r], m) \/ ~terms[m].replaceLocal \/ r = sent[m].from
  PROVE  ~Saw(r, m, TRUE) /\ ~Saw(r, m, FALSE)
<1> DEFINE s == ServerOf[r]
<1>1. /\ s \in Servers /\ r \in chat[s].todo /\ m \in Nat /\ FromHere(s, m)
  BY HookTakes DEF OnceOnly
<1>2. Waits(r, m)
  BY <1>1 DEF Waits
<1>3. ~Saw(r, m, FALSE)
  BY <1>1, <1>2 DEF OnceOnly, Direct
<1>4. Saw(r, m, TRUE) => InLog(m) /\ terms[m].replaceLocal
  BY <1>1 DEF OnceOnly, Relayed
<1>5. Left(s, m) => ~InLog(m)
  BY <1>1 DEF OnceOnly, Committed
<1>6. r = sent[m].from => ~InLog(m)
  BY <1>1 DEF RelayInv, Unpublished, InLog
<1> QED
  BY <1>3, <1>4, <1>5, <1>6

LEMMA HookKeeps ==
  ASSUME RelayInv, OnceOnly, NEW r \in Players, ClientChatMessage(ServerOf[r], r)
  PROVE  OnceOnly'
<1> USE DEF RelayInv, OnceOnly
<1> DEFINE s == ServerOf[r]
           m == chat[s].id
<1>1. /\ s \in Servers /\ r \in chat[s].todo /\ m \in 1..Len(sent) /\ m \in Nat
      /\ FromHere(s, m) /\ config[s].serverName \in STRING
      /\ \A t \in Servers : chat'[t].id = chat[t].id /\ chat'[t].todo \subseteq chat[t].todo
      /\ r \notin chat'[s].todo
      /\ UNCHANGED <<config, writing, working, relay, sent, terms>>
      /\ terms[m].serverName \in STRING
  BY HookTakes, HookTerms
<1>2. /\ \A x \in Players : \A k : Waits(x, k)' => Waits(x, k)
      /\ ~Waits(r, m)'
  BY <1>1 DEF Waits, ChatTypes, Shape
<1>3. Origins'
  BY <1>1 DEF Origins, FromHere
<1>4. \A p \in Players : \A k \in Nat :
        /\ Saw(p, k, TRUE)' <=> Saw(p, k, TRUE)
        /\ Saw(p, k, FALSE)' =>
             Saw(p, k, FALSE) \/ (p = r /\ k = m /\ Display(r, m, FALSE))
  <2>1. CASE UNCHANGED shown
    BY <2>1, ShownSame DEF SawSame
  <2>2. CASE Display(r, m, FALSE)
    BY <1>1, <2>2, DisplaySaw
  <2> QED
    BY <2>1, <2>2, HookCases
<1>5. SawSame(TRUE)
  BY <1>4 DEF SawSame
<1>6. \A t \in Servers : \A k : Left(t, k)' <=> Left(t, k)
  BY <1>1 DEF Left, Silenced
<1>7. \A t \in Servers : \A k : FromHere(t, k)' <=> FromHere(t, k)
  BY <1>1 DEF FromHere
<1>8. CASE /\ UNCHANGED <<log, queue>>
           /\ \/ UNCHANGED shown
              \/ /\ Display(r, m, FALSE)
                 /\ Left(s, m) \/ ~terms[m].replaceLocal \/ r = sent[m].from
  <2>1. Grows
    BY <1>1, <1>8 DEF Grows
  <2>2. Queued'
    <3>1. \A t \in Servers : QueuedAt(t)'
      BY <1>1, <1>5, <1>8, <2>1, QueuedQuiet
    <3> QED
      BY <3>1 DEF Queued
  <2>3. Served' /\ Relayed' /\ Opened'
    BY <1>1, <1>5, <1>8, <2>1, ServedQuiet, RelayedQuiet, OpenedQuiet
  <2>4. \A k : InLog(k)' <=> InLog(k)
    BY <1>8 DEF InLog
  <2>5. Direct'
    <3> SUFFICES ASSUME NEW p \in Players, NEW k \in Nat, Saw(p, k, FALSE)'
                 PROVE  /\ k \in 1..Len(sent) /\ FromHere(ServerOf[p], k)' /\ ~Waits(p, k)'
                        /\ terms[k].replaceLocal =>
                             ~InLog(k)' /\ (Waits(sent[k].from, k)' => Left(ServerOf[p], k)')
      BY <1>1 DEF Direct
    <3>1. ServerOf[p] \in Servers
      OBVIOUS
    <3>2. CASE Saw(p, k, FALSE)
      <4>1. /\ k \in 1..Len(sent) /\ FromHere(ServerOf[p], k) /\ ~Waits(p, k)
            /\ terms[k].replaceLocal =>
                 ~InLog(k) /\ (Waits(sent[k].from, k) => Left(ServerOf[p], k))
        BY <3>2 DEF Direct
      <4>2. Waits(sent[k].from, k)' => Waits(sent[k].from, k)
        BY <1>1, <1>2, <4>1 DEF FromHere
      <4> QED
        BY <1>2, <1>6, <1>7, <2>4, <3>1, <4>1, <4>2
    <3>3. CASE p = r /\ k = m /\ Display(r, m, FALSE) /\ ~UNCHANGED shown
      <4>1. Left(s, m) \/ ~terms[m].replaceLocal \/ r = sent[m].from
        BY <1>8, <3>3
      <4>2. Left(s, m) => ~InLog(m)
        BY <1>1 DEF Committed
      <4>3. r = sent[m].from => ~InLog(m) /\ ~Waits(sent[m].from, m)'
        BY <1>1, <1>2 DEF Unpublished, InLog
      <4> QED
        BY <1>1, <1>2, <1>6, <1>7, <2>4, <3>3, <4>1, <4>2, <4>3
    <3>4. CASE UNCHANGED shown
      <4>1. Saw(p, k, FALSE)
        BY <3>4, ShownSame DEF SawSame
      <4> QED
        BY <3>2, <4>1
    <3> QED
      BY <1>4, <3>2, <3>3, <3>4
  <2>6. Committed'
    <3> SUFFICES ASSUME NEW t \in Servers, chat'[t].todo # {}, InLog(chat[t].id)'
                 PROVE  ~Left(t, chat[t].id)'
      BY DEF Committed
    <3>1. chat[t].todo # {} /\ chat'[t].id = chat[t].id
      BY <1>1
    <3>2. InLog(chat[t].id)
      BY <1>8, <3>1 DEF InLog
    <3>3. ~Left(t, chat[t].id)
      BY <3>1, <3>2 DEF Committed
    <3> QED
      BY <1>1, <3>1, <3>3 DEF Left, Silenced
  <2> QED
    BY <1>3, <2>2, <2>3, <2>5, <2>6
<1>9. CASE /\ r = sent[m].from /\ ~Left(s, m) /\ Publish(m, terms[m].serverName)
           /\ UNCHANGED shown \/ (~terms[m].replaceLocal /\ Display(r, m, FALSE))
  <2> DEFINE name == terms[m].serverName
  <2>1. ~InLog(m)
    BY <1>1, <1>9 DEF Unpublished, InLog
  <2>2. /\ \A i \in 1..Len(log) : i \in 1..Len(log') /\ log'[i] = log[i]
        /\ \A k \in Nat : InLog(k)' <=> (InLog(k) \/ k = m)
    <3>1. m \in Nat /\ name \in STRING /\ Publish(m, name)
      BY <1>1, <1>9
    <3> HIDE DEF m, name
    <3>2. Len(log') = Len(log) + 1 /\ \A i \in 1..Len(log) : log'[i] = log[i]
      BY <3>1, PublishAdds DEF ChatTypes
    <3>3. Len(log) \in Nat
      BY DEF ChatTypes, Shape
    <3>4. \A k \in Nat : InLog(k)' <=> (InLog(k) \/ k = m)
      BY <3>1, PublishLogs
    <3> QED
      BY <3>2, <3>3, <3>4
  <2>3. Grows
    BY <1>1, <2>2 DEF Grows
  <2>4. Queued'
    <3>1. \A t \in Servers : QueuedAt(t)'
      BY <1>1, <1>5, <1>9, <2>1, <2>3, QueuedPublish
    <3> QED
      BY <3>1 DEF Queued
  <2>5. Served' /\ Relayed'
    BY <1>1, <1>5, <2>3, ServedQuiet, RelayedQuiet
  <2>6. Opened'
    <3>1. PICK k \in Nat, title \in STRING : k = m /\ title = name
      BY <1>1
    <3>2. sent'[k].global /\ ~Silenced(k)' /\ title = terms'[k].serverName
      BY <1>1, <1>9, <3>1 DEF Left, Silenced
    <3>3. Publish(k, title)
      BY <1>9, <3>1
    <3> HIDE DEF m, name
    <3> QED
      BY <2>3, <3>2, <3>3, OpenedPublish
  <2>7. Direct'
    <3> SUFFICES ASSUME NEW p \in Players, NEW k \in Nat, Saw(p, k, FALSE)'
                 PROVE  /\ k \in 1..Len(sent) /\ FromHere(ServerOf[p], k)' /\ ~Waits(p, k)'
                        /\ terms[k].replaceLocal =>
                             ~InLog(k)' /\ (Waits(sent[k].from, k)' => Left(ServerOf[p], k)')
      BY <1>1 DEF Direct
    <3>1. ServerOf[p] \in Servers
      OBVIOUS
    <3>2. CASE Saw(p, k, FALSE)
      <4>1. /\ k \in 1..Len(sent) /\ FromHere(ServerOf[p], k) /\ ~Waits(p, k)
            /\ terms[k].replaceLocal =>
                 ~InLog(k) /\ (Waits(sent[k].from, k) => Left(ServerOf[p], k))
        BY <3>2 DEF Direct
      <4>2. Waits(sent[k].from, k)' => Waits(sent[k].from, k)
        BY <1>1, <1>2, <4>1 DEF FromHere
      <4>3. terms[k].replaceLocal => k # m
        <5>1. CASE k = m
          <6>1. ServerOf[p] = s /\ Waits(sent[m].from, m)
            BY <1>1, <1>9, <4>1, <5>1 DEF FromHere, Waits
          <6> QED
            BY <1>9, <4>1, <5>1, <6>1
        <5> QED
          BY <5>1
      <4> QED
        BY <1>2, <1>6, <1>7, <2>2, <3>1, <4>1, <4>2, <4>3
    <3>3. CASE p = r /\ k = m /\ Display(r, m, FALSE) /\ ~UNCHANGED shown
      BY <1>1, <1>2, <1>7, <1>9, <3>3
    <3>4. CASE UNCHANGED shown
      <4>1. Saw(p, k, FALSE)
        BY <3>4, ShownSame DEF SawSame
      <4> QED
        BY <3>2, <4>1
    <3> QED
      BY <1>4, <3>2, <3>3, <3>4
  <2>8. Committed'
    <3> SUFFICES ASSUME NEW t \in Servers, chat'[t].todo # {}, InLog(chat[t].id)'
                 PROVE  ~Left(t, chat[t].id)'
      BY DEF Committed
    <3>1. chat[t].todo # {} /\ chat'[t].id = chat[t].id
      BY <1>1
    <3>2. chat[t].id \in Nat
      BY DEF ChatTypes, Shape
    <3>3. InLog(chat[t].id) \/ chat[t].id = m
      BY <2>2, <3>1, <3>2
    <3>4. chat[t].id = m => t = s
      BY <1>1, <3>1 DEF Origins, FromHere
    <3>5. ~Left(t, chat[t].id)
      BY <1>9, <3>1, <3>3, <3>4 DEF Committed
    <3> QED
      BY <1>1, <3>1, <3>5 DEF Left, Silenced
  <2> QED
    BY <1>3, <2>4, <2>5, <2>6, <2>7, <2>8
<1> QED
  BY <1>8, <1>9, HookCases

(* The callback takes the oldest message of the queue, if it is wanted; one *)
(* that is wanted comes from another server or is to replace the local one. *)
LEMMA MessageKeeps ==
  ASSUME RelayInv, ReloadsSettled, OnceOnly, Agreed, NEW s \in Servers, OnMessage(s)
  PROVE  OnceOnly'
<1> USE DEF RelayInv, OnceOnly
<1> DEFINE head == Head(queue[s])
           task == [id |-> head.id, todo |-> {}, stage |-> "format"]
<1>1. /\ queue[s] \in Seq(Entry) /\ queue[s] # << >> /\ relay[s].stage = "idle"
      /\ queue' = [queue EXCEPT ![s] = Tail(queue[s])]
      /\ UNCHANGED <<config, writing, working, crashed, chat, sub, pub, sent, log, shown, terms>>
  BY DEF OnMessage, ChatTypes, Shape
<1>2. /\ head = queue[s][1] /\ 1 \in 1..Len(queue[s])
      /\ Len(Tail(queue[s])) = Len(queue[s]) - 1 /\ Len(queue[s]) \in Nat
      /\ \A i \in 1..Len(Tail(queue[s])) :
           /\ i + 1 \in 1..Len(queue[s]) /\ i + 1 # 1
           /\ Tail(queue[s])[i] = queue[s][i + 1]
  BY <1>1
<1>3. /\ Grows /\ Calm /\ SawSame(TRUE) /\ SawSame(FALSE)
  BY <1>1, ShownSame DEF Grows, Calm
<1>4. Origins' /\ Opened' /\ Direct' /\ Committed' /\ Relayed'
  BY <1>3, CalmKeeps, RelayedQuiet
<1>5. /\ queue'[s] = Tail(queue[s])
      /\ \A t \in Servers : t # s => queue'[t] = queue[t]
  BY <1>1 DEF ChatTypes, Shape
<1>6. /\ \A i \in 1..Len(queue[s]) :
           /\ \E j \in 1..Len(log) : log[j] = queue[s][i]
           /\ \A p \in Local(s) : ~Saw(p, queue[s][i].id, TRUE)
      /\ \A i, k \in 1..Len(queue[s]) : queue[s][k].id = queue[s][i].id => i = k
  BY DEF Queued, QueuedAt
<1>7. \/ UNCHANGED relay
      \/ /\ relay' = [relay EXCEPT ![s] = task]
         /\ FromHere(s, head.id) => terms[head.id].replaceLocal
  <2>1. \A c \in Readable(s) : FromHere(s, head.id) => SameRelay(c, terms[head.id])
    <3> SUFFICES ASSUME NEW c \in Readable(s), FromHere(s, head.id)
                 PROVE  SameRelay(c, terms[head.id])
      OBVIOUS
    <3>1. Returning(s) /\ SameRelay(config[s], terms[head.id])
      <4>1. DOMAIN queue[s] = 1..Len(queue[s])
        BY <1>1
      <4> HIDE DEF head
      <4> QED
        BY <1>2, <4>1 DEF Agreed, AgreedAt, Returning, FromHere
    <3>2. writing[s] # << >> => SameRelay(writing[s], config[s])
      BY <3>1 DEF ReloadsSettled
    <3> QED
      BY <3>1, <3>2 DEF Readable, SameRelay
  <2>2. FromHere(s, head.id) => head.name = terms[head.id].serverName
    <3>1. PICK j \in 1..Len(log) : log[j] = queue[s][1]
      BY <1>2, <1>6
    <3> HIDE DEF head
    <3> QED
      BY <1>2, <3>1 DEF Opened, FromHere
  <2>3. ASSUME NEW c \in Readable(s), Wanted(c, head), FromHere(s, head.id)
        PROVE  terms[head.id].replaceLocal
    BY <2>1, <2>2, <2>3 DEF Wanted, SameRelay
  <2> QED
    BY <2>3 DEF OnMessage
<1>8. relay'[s].stage # "idle" => relay'[s].id = head.id
  BY <1>1, <1>7 DEF ChatTypes, Shape
<1>9. \A t \in Servers : t # s => relay'[t] = relay[t]
  BY <1>7 DEF ChatTypes, Shape
<1>10. \A i \in 1..Len(queue[s]) : queue[s][i].id \in Nat
  <2>1. \A i \in 1..Len(queue[s]) : queue[s][i] \in Entry
    BY <1>1
  <2> QED
    BY <2>1 DEF Entry
<1>11. Queued'
  <2> SUFFICES ASSUME NEW t \in Servers PROVE QueuedAt(t)'
    BY DEF Queued
  <2>1. CASE t # s
    <3>1. queue'[t] = queue[t] /\ relay'[t] = relay[t] /\ queue[t] \in Seq(Entry)
      BY <1>5, <1>9, <2>1 DEF ChatTypes, Shape
    <3>2. QueuedAt(t)
      BY DEF Queued
    <3> QED
      BY <1>1, <3>1, <3>2 DEF QueuedAt, Saw, Local
  <2>2. CASE t = s
    <3> DEFINE rest == Tail(queue[s])
    <3>1. /\ head = queue[s][1] /\ 1 \in 1..Len(queue[s])
          /\ \A i \in 1..Len(rest) : i + 1 \in 1..Len(queue[s]) /\ rest[i] = queue[s][i + 1]
      BY <1>2
    <3>2. queue'[s] = rest
      BY <1>5
    <3>3. relay'[s].stage # "idle" => relay'[s].id = head.id
      BY <1>8
    <3>4. \A i \in 1..Len(rest) : i \in Nat
      OBVIOUS
    <3> HIDE DEF rest, head
    <3>5. ASSUME NEW i \in 1..Len(rest)
          PROVE  /\ \E j \in 1..Len(log) : log[j] = rest[i]
                 /\ rest[i].id # head.id
                 /\ \A p \in Local(s) : ~Saw(p, rest[i].id, TRUE)
      <4>1. PICK k \in 1..Len(queue[s]) : k # 1 /\ rest[i] = queue[s][k]
        <5>1. i + 1 # 1
          BY <3>4
        <5> QED
          BY <3>1, <5>1
      <4>2. \E j \in 1..Len(log) : log[j] = rest[i]
        BY <1>6, <4>1
      <4>3. rest[i].id # head.id
        <5>1. queue[s][k].id = queue[s][1].id => 1 = k
          BY <1>6, <3>1
        <5> QED
          BY <3>1, <4>1, <5>1
      <4>4. \A p \in Local(s) : ~Saw(p, rest[i].id, TRUE)
        BY <1>6, <4>1
      <4> QED
        BY <4>2, <4>3, <4>4
    <3>6. ASSUME NEW i \in 1..Len(rest), NEW k \in 1..Len(rest), rest[k].id = rest[i].id
          PROVE  i = k
      <4>1. /\ i + 1 \in 1..Len(queue[s]) /\ rest[i] = queue[s][i + 1]
            /\ k + 1 \in 1..Len(queue[s]) /\ rest[k] = queue[s][k + 1]
        BY <3>1
      <4>2. i + 1 = k + 1
        BY <1>6, <3>6, <4>1
      <4> QED
        BY <3>4, <4>2
    <3>7. \A i \in 1..Len(rest) : \E j \in 1..Len(log') : log'[j] = rest[i]
      BY <1>1, <3>5
    <3>8. \A i \in 1..Len(rest) : \A p \in Local(s) : ~Saw(p, queue[s][i].id, TRUE)'
      BY <1>1, <3>2, <3>5 DEF Saw
    <3>9. \A i \in 1..Len(rest) : relay'[s].stage # "idle" => relay'[s].id # rest[i].id
      BY <3>3, <3>5
    <3> QED
      BY <2>2, <3>2, <3>6, <3>7, <3>8, <3>9 DEF QueuedAt, Local
  <2> QED
    BY <2>1, <2>2
<1>12. Served'
  <2>1. CASE UNCHANGED relay
    BY <1>3, <2>1, ServedQuiet
  <2>2. CASE /\ relay' = [relay EXCEPT ![s] = task]
             /\ FromHere(s, head.id) => terms[head.id].replaceLocal
    <3> SUFFICES ASSUME NEW t \in Servers, relay'[t].stage # "idle"
                 PROVE  /\ InLog(relay[t].id)'
                        /\ FromHere(t, relay[t].id)' => terms[relay'[t].id].replaceLocal
                        /\ \A p \in Unserved(t)' : ~Saw(p, relay[t].id, TRUE)'
      BY <1>1 DEF Served
    <3>1. CASE t # s
      <4>1. relay'[t] = relay[t]
        BY <1>9, <3>1
      <4>2. /\ InLog(relay[t].id)
            /\ FromHere(t, relay[t].id) => terms[relay[t].id].replaceLocal
            /\ \A p \in Unserved(t) : ~Saw(p, relay[t].id, TRUE)
        BY <4>1 DEF Served
      <4> QED
        BY <1>1, <4>1, <4>2 DEF InLog, FromHere, Unserved, Saw, Local
    <3>2. CASE t = s
      <4>1. relay'[s].id = head.id /\ relay'[s].stage = "format"
        BY <2>2 DEF ChatTypes, Shape
      <4>2. head = queue[s][1] /\ 1 \in 1..Len(queue[s])
        BY <1>2, <2>2
      <4> HIDE DEF head
      <4>3. \A p \in Local(s) : ~Saw(p, head.id, TRUE)
        BY <1>6, <4>2
      <4>4. PICK j \in 1..Len(log) : log[j] = head
        BY <1>6, <4>2
      <4>5. FromHere(s, head.id) => terms[head.id].replaceLocal
        BY <2>2
      <4> QED
        BY <1>1, <3>2, <4>1, <4>3, <4>4, <4>5 DEF InLog, FromHere, Unserved, Saw, Local
    <3> QED
      BY <3>1, <3>2
  <2> QED
    BY <1>7, <2>1, <2>2
<1> QED
  BY <1>4, <1>11, <1>12

(* The message goes to every player of the server, or to nobody.            *)
LEMMA FormatKeeps ==
  ASSUME RelayInv, OnceOnly, NEW s \in Servers, Format(s)
  PROVE  OnceOnly'
<1> USE DEF RelayInv, OnceOnly
<1> DEFINE task == [relay[s] EXCEPT !.stage = "deliver", !.todo = Local(s)]
<1>1. /\ relay[s].stage = "format"
      /\ \/ relay' = [relay EXCEPT ![s] = task]
         \/ relay' = [relay EXCEPT ![s] = Idle]
      /\ UNCHANGED <<config, writing, working, crashed, chat, link, sent, log, shown, terms>>
  BY DEF Format
<1>2. /\ Grows /\ Calm /\ SawSame(TRUE) /\ SawSame(FALSE)
  BY <1>1, ShownSame DEF Grows, Calm
<1>3. Origins' /\ Opened' /\ Direct' /\ Committed' /\ Relayed'
  BY <1>2, CalmKeeps, RelayedQuiet
<1>4. /\ relay'[s].stage # "idle" =>
           /\ relay'[s].id = relay[s].id /\ relay'[s].stage = "deliver"
           /\ relay'[s].todo = Local(s)
      /\ \A t \in Servers : t # s => relay'[t] = relay[t]
  <2>1. task.id = relay[s].id /\ task.stage = "deliver" /\ task.todo = Local(s)
    BY DEF ChatTypes, Shape
  <2>2. Idle.stage = "idle"
    BY DEF Idle
  <2> HIDE DEF task
  <2>3. relay'[s] \in {task, Idle} /\ \A t \in Servers : t # s => relay'[t] = relay[t]
    BY <1>1 DEF ChatTypes, Shape
  <2> QED
    BY <2>1, <2>2, <2>3
<1>5. Queued'
  <2> SUFFICES ASSUME NEW t \in Servers PROVE QueuedAt(t)'
    BY DEF Queued
  <2>1. QueuedAt(t)
    BY DEF Queued
  <2>2. relay'[t].stage # "idle" => relay'[t].id = relay[t].id /\ relay[t].stage # "idle"
    BY <1>1, <1>4
  <2> QED
    BY <1>1, <2>1, <2>2 DEF QueuedAt, Saw, Local, link
<1>6. Served'
  <2> SUFFICES ASSUME NEW t \in Servers, relay'[t].stage # "idle"
               PROVE  /\ InLog(relay[t].id)'
                      /\ FromHere(t, relay[t].id)' => terms[relay'[t].id].replaceLocal
                      /\ \A p \in Unserved(t)' : ~Saw(p, relay[t].id, TRUE)'
    BY <1>1 DEF Served
  <2>1. /\ relay'[t].id = relay[t].id /\ relay[t].stage # "idle"
        /\ Unserved(t)' = Unserved(t)
    BY <1>1, <1>4 DEF Unserved, Local
  <2>2. /\ InLog(relay[t].id)
        /\ FromHere(t, relay[t].id) => terms[relay[t].id].replaceLocal
        /\ \A p \in Unserved(t) : ~Saw(p, relay[t].id, TRUE)
    BY <2>1 DEF Served
  <2> QED
    BY <1>1, <2>1, <2>2 DEF InLog, FromHere, Saw
<1> QED
  BY <1>3, <1>5, <1>6

(* A player sees a message over the channel that it has not seen before.    *)
LEMMA DeliverFresh ==
  ASSUME RelayInv, OnceOnly, NEW r \in Players, Deliver(ServerOf[r], r),
         NEW m, m = relay[ServerOf[r]].id
  PROVE  /\ m \in 1..Len(sent) /\ InLog(m)
         /\ ~Saw(r, m, TRUE) /\ ~Saw(r, m, FALSE)
<1> DEFINE s == ServerOf[r]
<1>1. s \in Servers /\ relay[s].stage = "deliver" /\ r \in relay[s].todo
  BY DEF Deliver, RelayInv, ChatTypes, Shape
<1>2. m \in 1..Len(sent) /\ m \in Nat
  BY <1>1 DEF RelayInv, ChatTypes, Shape, Handling
<1>3. /\ InLog(m) /\ (FromHere(s, m) => terms[m].replaceLocal)
      /\ ~Saw(r, m, TRUE)
  BY <1>1 DEF OnceOnly, Served, Unserved
<1>4. Saw(r, m, FALSE) => FromHere(s, m) /\ (terms[m].replaceLocal => ~InLog(m))
  BY <1>2 DEF OnceOnly, Direct
<1> QED
  BY <1>2, <1>3, <1>4

(* What a delivery adds to what players have seen.                          *)
LEMMA DeliverSaw ==
  ASSUME ChatTypes, NEW r \in Players, NEW m \in Nat, Display(r, m, TRUE)
  PROVE  \A p \in Players : \A k \in Nat :
           /\ Saw(p, k, FALSE)' <=> Saw(p, k, FALSE)
           /\ Saw(p, k, TRUE)' => Saw(p, k, TRUE) \/ (p = r /\ k = m)
<1> SUFFICES ASSUME NEW p \in Players, NEW k \in Nat
             PROVE  /\ Saw(p, k, FALSE)' <=> Saw(p, k, FALSE)
                    /\ Saw(p, k, TRUE)' => Saw(p, k, TRUE) \/ (p = r /\ k = m)
  OBVIOUS
<1>1. /\ Len(shown'[r]) = Len(shown[r]) + 1
      /\ shown'[r][Len(shown'[r])] = [id |-> m, relayed |-> TRUE]
      /\ \A i \in 1..Len(shown[r]) : shown'[r][i] = shown[r][i]
      /\ \A q \in Players \ {r} : shown'[q] = shown[q]
  BY DisplayAdds DEF ChatTypes
<1>2. 1..Len(shown'[r]) = 1..Len(shown[r]) \cup {Len(shown'[r])}
  <2>1. Len(shown[r]) \in Nat
    BY DEF ChatTypes, Shape
  <2> QED
    BY <1>1, <2>1
<1>3. CASE p # r
  BY <1>1, <1>3 DEF Saw
<1>4. CASE p = r
  <2> DEFINE fresh == [id |-> m, relayed |-> TRUE]
             own   == [id |-> k, relayed |-> TRUE]
             plain == [id |-> k, relayed |-> FALSE]
  <2>1. fresh # plain /\ (fresh = own => k = m)
    OBVIOUS
  <2>2. shown'[r][Len(shown'[r])] = fresh
    BY <1>1
  <2> HIDE DEF fresh, own, plain
  <2>3. /\ (\E i \in 1..Len(shown'[r]) : shown'[r][i] = plain)
             <=> (\E i \in 1..Len(shown[r]) : shown[r][i] = plain)
        /\ (\E i \in 1..Len(shown'[r]) : shown'[r][i] = own)
             => (\E i \in 1..Len(shown[r]) : shown[r][i] = own) \/ k = m
    BY <1>1, <1>2, <2>1, <2>2
  <2> QED
    BY <1>4, <2>3 DEF Saw, own, plain
<1> QED
  BY <1>3, <1>4

LEMMA DeliverKeeps ==
  ASSUME RelayInv, OnceOnly, NEW r \in Players, Deliver(ServerOf[r], r)
  PROVE  OnceOnly'
<1> USE DEF RelayInv, OnceOnly
<1> DEFINE s == ServerOf[r]
           m == relay[s].id
           task == [relay[s] EXCEPT !.todo = relay[s].todo \ {r}]
<1>1. /\ s \in Servers /\ relay[s].stage = "deliver" /\ r \in relay[s].todo
      /\ m \in Nat /\ Display(r, m, TRUE)
      /\ UNCHANGED <<config, writing, working, crashed, chat, link, sent, log, terms>>
  BY DEF Deliver, ChatTypes, Shape
<1>2. relay' = [relay EXCEPT ![s] = IF relay[s].todo = {r} THEN Idle ELSE task]
  BY DEF Deliver
<1>3. /\ relay'[s].stage # "idle" =>
           /\ relay'[s].id = m /\ relay'[s].stage = "deliver"
           /\ relay'[s].todo = relay[s].todo \ {r}
      /\ \A t \in Servers : t # s => relay'[t] = relay[t]
  <2>1. task.id = m /\ task.stage = "deliver" /\ task.todo = relay[s].todo \ {r}
    BY <1>1 DEF ChatTypes, Shape
  <2>2. Idle.stage = "idle"
    BY DEF Idle
  <2> HIDE DEF task
  <2>3. relay'[s] \in {task, Idle} /\ \A t \in Servers : t # s => relay'[t] = relay[t]
    BY <1>1, <1>2 DEF ChatTypes, Shape
  <2> QED
    BY <2>1, <2>2, <2>3
<1>4. \A p \in Players : \A k \in Nat :
        /\ Saw(p, k, FALSE)' <=> Saw(p, k, FALSE)
        /\ Saw(p, k, TRUE)' => Saw(p, k, TRUE) \/ (p = r /\ k = m)
  <2> HIDE DEF m, task
  <2>1. ChatTypes /\ m \in Nat /\ Display(r, m, TRUE)
    BY <1>1
  <2> QED
    BY <2>1, DeliverSaw
<1>5. /\ Grows /\ Calm /\ SawSame(FALSE)
  BY <1>1, <1>4 DEF Grows, Calm, SawSame
<1>6. Origins' /\ Opened' /\ Direct' /\ Committed'
  BY <1>5, CalmKeeps
<1>7. InLog(m) /\ (FromHere(s, m) => terms[m].replaceLocal)
  BY <1>1 DEF Served
<1>8. Relayed'
  <2> SUFFICES ASSUME NEW p \in Players, NEW k \in Nat, Saw(p, k, TRUE)'
               PROVE  /\ InLog(k)'
                      /\ FromHere(ServerOf[p], k)' => terms[k].replaceLocal
    BY <1>1 DEF Relayed
  <2>1. InLog(k) /\ (FromHere(ServerOf[p], k) => terms[k].replaceLocal)
    BY <1>4, <1>7 DEF Relayed
  <2> QED
    BY <1>1, <2>1 DEF InLog, FromHere
<1>9. Queued'
  <2> SUFFICES ASSUME NEW t \in Servers PROVE QueuedAt(t)'
    BY DEF Queued
  <2>1. QueuedAt(t) /\ queue'[t] = queue[t] /\ queue[t] \in Seq(Entry)
    BY <1>1 DEF Queued, link, ChatTypes, Shape
  <2>2. relay'[t].stage # "idle" => relay'[t].id = relay[t].id /\ relay[t].stage # "idle"
    BY <1>1, <1>3
  <2>3. ASSUME NEW i \in 1..Len(queue[t]), NEW p \in Local(t)
        PROVE  ~Saw(p, queue[t][i].id, TRUE)'
    <3>1. ~Saw(p, queue[t][i].id, TRUE) /\ p \in Players /\ ServerOf[p] = t
      BY <2>1 DEF QueuedAt, Local
    <3>2. queue[t][i].id \in Nat
      <4>1. queue[t][i] \in Entry
        BY <2>1
      <4> QED
        BY <4>1 DEF Entry
    <3>3. t = s => queue[t][i].id # m
      BY <1>1, <2>1 DEF QueuedAt
    <3> QED
      BY <1>4, <2>1, <3>1, <3>2, <3>3
  <2> QED
    BY <1>1, <2>1, <2>2, <2>3 DEF QueuedAt, Local
<1>10. Served'
  <2> SUFFICES ASSUME NEW t \in Servers, relay'[t].stage # "idle"
               PROVE  /\ InLog(relay[t].id)'
                      /\ FromHere(t, relay[t].id)' => terms[relay'[t].id].replaceLocal
                      /\ \A p \in Unserved(t)' : ~Saw(p, relay[t].id, TRUE)'
    BY <1>1 DEF Served
  <2>1. /\ relay'[t].id = relay[t].id /\ relay[t].stage # "idle" /\ relay[t].id \in Nat
        /\ Unserved(t)' \subseteq Unserved(t) /\ (t = s => r \notin Unserved(t)')
    BY <1>1, <1>3 DEF Unserved, Local, ChatTypes, Shape
  <2>2. /\ InLog(relay[t].id)
        /\ FromHere(t, relay[t].id) => terms[relay[t].id].replaceLocal
        /\ \A p \in Unserved(t) : ~Saw(p, relay[t].id, TRUE)
    BY <2>1 DEF Served
  <2>3. Unserved(t) \subseteq Local(t)
    BY DEF Unserved, ChatTypes, Handling
  <2>4. ASSUME NEW p \in Unserved(t)' PROVE ~Saw(p, relay[t].id, TRUE)'
    <3>1. p \in Players /\ ServerOf[p] = t /\ p # r /\ ~Saw(p, relay[t].id, TRUE)
      BY <2>1, <2>2, <2>3 DEF Local
    <3> QED
      BY <1>4, <2>1, <3>1
  <2> QED
    BY <1>1, <2>1, <2>2, <2>4 DEF InLog, FromHere
<1> QED
  BY <1>6, <1>8, <1>9, <1>10

LEMMA ThirdPartyKeeps ==
  ASSUME RelayInv, OnceOnly, ThirdParty
  PROVE  OnceOnly'
<1> USE DEF RelayInv, OnceOnly
<1> DEFINE line == [from |-> Outsider, global |-> TRUE, to |-> {}]
<1>1. line \in Line /\ sent' = Append(sent, line) /\ line.from = Outsider /\ line.global
  BY DEF Line, ThirdParty
<1> HIDE DEF line
<1>0. PICK id \in Nat : id = Len(sent')
  BY <1>1, SentAppend DEF ChatTypes, Shape
<1>2. /\ id = Len(sent) + 1 /\ Len(sent) \in Nat /\ sent'[id] = line
      /\ \A m \in 1..Len(sent) : sent'[m] = sent[m] /\ terms'[m] = terms[m]
  <2>1. terms' = Append(terms, << >>)
    BY DEF ThirdParty
  <2>2. \A m \in 1..Len(sent) : terms'[m] = terms[m]
    BY <1>1, <2>1, TermsAppend DEF ChatTypes
  <2> QED
    BY <1>0, <1>1, <2>2, SentAppend DEF ChatTypes, Shape
<1>3. /\ id \in Nat /\ OutsiderName \in STRING /\ Publish(id, OutsiderName)
      /\ UNCHANGED <<config, writing, working, crashed, chat, relay, sub, pub, shown>>
  BY <1>0 DEF ThirdParty
<1>4. \A m \in 1..Len(sent) : m \in 1..Len(sent') /\ m # id
  BY <1>0, <1>2
<1>5. ~InLog(id)
  BY <1>4 DEF InLog, Logged
<1>6. /\ \A i \in 1..Len(log) : i \in 1..Len(log') /\ log'[i] = log[i]
      /\ \A k \in Nat : InLog(k)' <=> (InLog(k) \/ k = id)
  <2>1. Len(log') = Len(log) + 1 /\ \A i \in 1..Len(log) : log'[i] = log[i]
    BY <1>3, PublishAdds DEF ChatTypes
  <2>2. Len(log) \in Nat
    BY DEF ChatTypes, Shape
  <2>3. \A k \in Nat : InLog(k)' <=> (InLog(k) \/ k = id)
    BY <1>3, PublishLogs
  <2> QED
    BY <2>1, <2>2, <2>3
<1>7. Grows /\ SawSame(TRUE) /\ SawSame(FALSE)
  BY <1>2, <1>3, <1>4, <1>6, ShownSame DEF Grows
<1>8. Queued'
  <2>1. \A s \in Servers : QueuedAt(s)'
    BY <1>3, <1>5, <1>7, QueuedPublish
  <2> QED
    BY <2>1 DEF Queued
<1>9. Served' /\ Relayed'
  BY <1>3, <1>7, ServedQuiet, RelayedQuiet
<1>10. Opened'
  <2>1. sent'[id].global /\ sent'[id].from \notin Players /\ ~Silenced(id)'
    BY <1>1, <1>2 DEF Silenced
  <2> QED
    BY <1>3, <1>7, <2>1, OpenedPublish
<1>11. \A s \in Servers : chat[s].todo # {} => chat[s].id \in 1..Len(sent) /\ chat[s].id \in Nat
  BY DEF ChatTypes, Shape, Handling
<1>12. Origins'
  <2> SUFFICES ASSUME NEW s \in Servers, chat[s].todo # {}
               PROVE  FromHere(s, chat[s].id)' /\ chat[s].todo \subseteq sent'[chat[s].id].to
    BY <1>3 DEF Origins
  <2>1. FromHere(s, chat[s].id) /\ chat[s].todo \subseteq sent[chat[s].id].to
    BY DEF Origins
  <2> QED
    BY <1>2, <1>3, <1>11, <2>1 DEF FromHere
<1>13. Direct'
  <2> SUFFICES ASSUME NEW p \in Players, NEW m \in Nat, Saw(p, m, FALSE)
               PROVE  /\ m \in 1..Len(sent') /\ FromHere(ServerOf[p], m)' /\ ~Waits(p, m)'
                      /\ terms'[m].replaceLocal =>
                           ~InLog(m)' /\ (Waits(sent[m].from, m)' => Left(ServerOf[p], m)')
    BY <1>3, <1>7 DEF Direct, SawSame
  <2>1. /\ m \in 1..Len(sent) /\ FromHere(ServerOf[p], m) /\ ~Waits(p, m)
        /\ terms[m].replaceLocal =>
             ~InLog(m) /\ (Waits(sent[m].from, m) => Left(ServerOf[p], m))
    BY DEF Direct
  <2>2. sent'[m] = sent[m] /\ terms'[m] = terms[m] /\ m \in 1..Len(sent') /\ m # id
    BY <1>2, <1>4, <2>1
  <2>3. FromHere(ServerOf[p], m)' /\ ~Waits(p, m)'
    BY <1>3, <2>1, <2>2 DEF FromHere, Waits
  <2>4. Left(ServerOf[p], m) => Left(ServerOf[p], m)'
    BY <1>3, <2>2 DEF Left, Silenced
  <2>5. Waits(sent[m].from, m)' => Waits(sent[m].from, m)
    BY <1>3, <2>2 DEF Waits
  <2> QED
    BY <1>6, <2>1, <2>2, <2>3, <2>4, <2>5
<1>14. Committed'
  <2> SUFFICES ASSUME NEW s \in Servers, chat[s].todo # {}, InLog(chat[s].id)'
               PROVE  ~Left(s, chat[s].id)'
    BY <1>3 DEF Committed
  <2>1. chat[s].id \in 1..Len(sent) /\ chat'[s].id = chat[s].id
    BY <1>3, <1>11
  <2>2. InLog(chat[s].id)
    BY <1>3, <1>4, <1>6, <1>11, <2>1 DEF InLog
  <2>3. ~Left(s, chat[s].id)
    BY <2>2 DEF Committed
  <2> QED
    BY <1>2, <1>3, <2>1, <2>3 DEF Left, Silenced
<1> QED
  BY <1>8, <1>9, <1>10, <1>12, <1>13, <1>14

(* The steps that neither say, publish nor show anything.                   *)
Cut ==
  /\ Calm /\ UNCHANGED <<relay, shown>>
  /\ \A s \in Servers : queue'[s] = queue[s] \/ queue'[s] = << >>

LEMMA CutSteps ==
  ASSUME RelayInv, NEW s \in Servers,
         \/ StartReload(s) \/ RefuseReload(s) \/ AssignConfig(s) \/ Unload(s) \/ Crash(s)
         \/ Connect(s) \/ Subscribe(s) \/ LoseSub(s) \/ LosePub(s)
  PROVE  Cut
<1> USE DEF RelayInv, ChatTypes
<1>1. UNCHANGED <<chat, sent, log, relay, shown, terms>>
  BY DEF StartReload, RefuseReload, AssignConfig, Unload, Crash, Connect, Subscribe, LoseSub, LosePub
<1>2. UNCHANGED queue \/ queue' = [queue EXCEPT ![s] = << >>]
  BY DEF StartReload, RefuseReload, AssignConfig, Unload, Crash, Connect, Subscribe, LoseSub,
         LosePub, Killed, link
<1>3. \A t \in Servers : queue'[t] = queue[t] \/ queue'[t] = << >>
  BY <1>2 DEF Shape
<1>4. UNCHANGED working \/ (working' = working \ {s} /\ chat[s].todo = {})
  BY DEF StartReload, RefuseReload, AssignConfig, Unload, Crash, Connect, Subscribe, LoseSub,
         LosePub, AtRest
<1> QED
  BY <1>1, <1>3, <1>4 DEF Cut, Calm, Grows

(* A message a server publishes carries the name it has in its terms, and a *)
(* settled reload changes neither of what is agreed.                        *)
LEMMA AgreedQuiet ==
  ASSUME RelayInv, Agreed, Grows, NEW s \in Servers,
         SameRelay(config'[s], config[s]) \/ ~Returning(s),
         \A i \in 1..Len(queue'[s]) : \E k \in 1..Len(queue[s]) : queue'[s][i] = queue[s][k]
  PROVE  AgreedAt(s)'
<1> SUFFICES ASSUME NEW i \in 1..Len(queue'[s]), NEW m, m = queue'[s][i].id, FromHere(s, m)'
             PROVE  SameRelay(config'[s], terms'[m])
  BY DEF AgreedAt, FromHere, SameRelay
<1>1. PICK k \in 1..Len(queue[s]) : queue'[s][i] = queue[s][k]
  OBVIOUS
<1>2. m = queue[s][k].id /\ m \in 1..Len(sent)
  BY <1>1 DEF RelayInv, ChatTypes, Handling
<1>3. sent'[m] = sent[m] /\ terms'[m] = terms[m]
  BY <1>2 DEF Grows
<1>4. FromHere(s, m)
  BY <1>3 DEF FromHere
<1>5. k \in DOMAIN queue[s]
  BY DEF RelayInv, ChatTypes, Shape
<1>6. Returning(s) /\ SameRelay(config[s], terms[m])
  BY <1>2, <1>4, <1>5 DEF Returning, FromHere, Agreed, AgreedAt
<1> QED
  BY <1>3, <1>6 DEF SameRelay

(* Only AssignConfig changes the configuration in force.                    *)
LEMMA ConfigKept ==
  ASSUME [Next]_vars
  PROVE  config' = config \/ \E s \in Servers : AssignConfig(s)
<1>1. ASSUME NEW t \in Servers,
             \/ StartReload(t) \/ RefuseReload(t) \/ Unload(t) \/ OnMessage(t) \/ Format(t)
             \/ Crash(t) \/ Connect(t) \/ Subscribe(t) \/ LoseSub(t) \/ LosePub(t)
      PROVE  config' = config
  BY <1>1 DEF StartReload, RefuseReload, Unload, OnMessage, Format, Crash, Connect, Subscribe,
              LoseSub, LosePub
<1>2. ASSUME NEW p \in Players,
             Speak(p) \/ ClientChatMessage(ServerOf[p], p) \/ Deliver(ServerOf[p], p)
      PROVE  config' = config
  BY <1>2 DEF Speak, ClientChatMessage, Deliver
<1>3. CASE ThirdParty \/ UNCHANGED vars
  BY <1>3 DEF ThirdParty, vars
<1> QED
  BY <1>1, <1>2, <1>3 DEF Next

LEMMA AgreedKept ==
  ASSUME RelayInv, ReloadsSettled, OnceOnly, Agreed, [Next]_vars
  PROVE  Agreed'
<1> USE DEF RelayInv, ChatTypes, OnceOnly
<1>1. \A s \in Servers : queue[s] \in Seq(Entry)
  BY DEF Shape
<1>2. ASSUME Grows,
             \A s \in Servers : SameRelay(config'[s], config[s]) \/ ~Returning(s),
             \A s \in Servers : \A i \in 1..Len(queue'[s]) :
               \E k \in 1..Len(queue[s]) : queue'[s][i] = queue[s][k]
      PROVE  Agreed'
  <2>1. ASSUME NEW s \in Servers
        PROVE  AgreedAt(s)'
    BY <1>2, AgreedQuiet
  <2> QED
    BY <2>1 DEF Agreed
<1>3. CASE Cut
  <2>1. \A s \in Servers : \A i \in 1..Len(queue'[s]) :
          \E k \in 1..Len(queue[s]) : queue'[s][i] = queue[s][k]
    BY <1>3 DEF Cut
  <2>2. CASE UNCHANGED config
    BY <1>2, <1>3, <2>1, <2>2 DEF Cut, Calm, SameRelay
  <2>3. ASSUME NEW s \in Servers, AssignConfig(s) PROVE Agreed'
    <3>1. ASSUME NEW t \in Servers PROVE SameRelay(config'[t], config[t]) \/ ~Returning(t)
      BY <2>3 DEF AssignConfig, Shape, ReloadsSettled, SameRelay
    <3> QED
      BY <1>2, <1>3, <2>1, <3>1 DEF Cut, Calm
  <2> QED
    BY <2>2, <2>3, ConfigKept
<1>4. ASSUME NEW m \in Nat, NEW name \in STRING, Publish(m, name), Grows, UNCHANGED config,
             \A s \in Servers : FromHere(s, m)' => SameRelay(config[s], terms'[m])
      PROVE  Agreed'
  <2> SUFFICES ASSUME NEW s \in Servers, NEW i \in 1..Len(queue'[s]),
                      NEW k, k = queue'[s][i].id, FromHere(s, k)'
               PROVE  SameRelay(config'[s], terms'[k])
    BY DEF Agreed, AgreedAt, FromHere, SameRelay
  <2>1. k = m \/ (i \in 1..Len(queue[s]) /\ queue'[s][i] = queue[s][i])
    BY <1>4, PublishAdds
  <2>2. CASE k = m
    BY <1>4, <2>2
  <2>3. CASE i \in 1..Len(queue[s]) /\ queue'[s][i] = queue[s][i]
    <3>1. k \in 1..Len(sent) /\ sent'[k] = sent[k] /\ terms'[k] = terms[k]
      BY <1>4, <2>3 DEF Handling, Grows
    <3>2. FromHere(s, k) /\ k = queue[s][i].id
      BY <2>3, <3>1 DEF FromHere
    <3> QED
      BY <1>4, <2>3, <3>1, <3>2 DEF Agreed, AgreedAt
  <2> QED
    BY <2>1, <2>2, <2>3
<1>5. ASSUME NEW q \in Players, Speak(q) PROVE Agreed'
  <2>1. UNCHANGED <<config, queue, log>> /\ Grows
    <3>1. UNCHANGED <<config, queue, log>>
      BY <1>5 DEF Speak, link
    <3> QED
      BY <3>1, SentGrows DEF Grows
  <2> QED
    BY <1>2, <2>1 DEF SameRelay
<1>6. ASSUME NEW r \in Players, ClientChatMessage(ServerOf[r], r) PROVE Agreed'
  <2> DEFINE s == ServerOf[r]
  <2>1. /\ UNCHANGED <<config, sent, terms>> /\ chat[s].id \in Nat /\ FromHere(s, chat[s].id)
        /\ config[s].serverName \in STRING
    BY <1>6, HookTakes
  <2>2. PICK m \in Nat, name \in STRING : m = chat[s].id /\ name = config[s].serverName
    BY <2>1
  <2>3. config[s] = terms[m] /\ FromHere(s, m)
    BY <1>6, <2>1, <2>2, HookTerms
  <2>4. CASE UNCHANGED <<log, queue>>
    BY <1>2, <2>1, <2>4 DEF Grows, SameRelay
  <2>5. CASE Publish(m, name)
    <3>1. Grows
      <4>1. Len(log') = Len(log) + 1 /\ \A i \in 1..Len(log) : log'[i] = log[i]
        BY <2>5, PublishAdds
      <4>2. Len(log) \in Nat
        BY DEF Shape
      <4> QED
        BY <2>1, <4>1, <4>2 DEF Grows
    <3>2. ASSUME NEW t \in Servers, FromHere(t, m)' PROVE SameRelay(config[t], terms'[m])
      BY <2>1, <2>3, <3>2 DEF FromHere, SameRelay
    <3> QED
      BY <1>4, <2>1, <2>5, <3>1, <3>2
  <2> QED
    BY <1>6, <2>2, <2>3, <2>4, <2>5, HookCases
<1>7. CASE ThirdParty
  <2> DEFINE line == [from |-> Outsider, global |-> TRUE, to |-> {}]
  <2>1. line \in Line /\ sent' = Append(sent, line) /\ line.from = Outsider
    BY <1>7 DEF Line, ThirdParty
  <2> HIDE DEF line
  <2>2. PICK id \in Nat : id = Len(sent') /\ sent'[id] = line
    BY <2>1, SentAppend DEF Shape
  <2>3. UNCHANGED config /\ Publish(id, OutsiderName) /\ OutsiderName \in STRING
    BY <1>7, <2>2 DEF ThirdParty
  <2>4. \A s \in Servers : ~FromHere(s, id)'
    BY <2>1, <2>2 DEF FromHere
  <2>5. Grows
    <3>1. Len(log') = Len(log) + 1 /\ \A i \in 1..Len(log) : log'[i] = log[i]
      BY <2>3, PublishAdds
    <3>2. Len(log) \in Nat
      BY DEF Shape
    <3> QED
      BY <3>1, <3>2, SentGrows DEF Grows
  <2> QED
    BY <1>4, <2>3, <2>4, <2>5
<1>8. ASSUME NEW s \in Servers, OnMessage(s) PROVE Agreed'
  <2>1. /\ UNCHANGED <<config, sent, terms, log>>
        /\ queue[s] # << >> /\ queue' = [queue EXCEPT ![s] = Tail(queue[s])]
    BY <1>8 DEF OnMessage
  <2>2. \A i \in 1..Len(Tail(queue[s])) : \E k \in 1..Len(queue[s]) : Tail(queue[s])[i] = queue[s][k]
    <3>1. \A i \in 1..Len(Tail(queue[s])) :
            i + 1 \in 1..Len(queue[s]) /\ Tail(queue[s])[i] = queue[s][i + 1]
      BY <1>1, <2>1
    <3> QED
      BY <3>1
  <2>3. \A t \in Servers : \A i \in 1..Len(queue'[t]) :
          \E k \in 1..Len(queue[t]) : queue'[t][i] = queue[t][k]
    BY <2>1, <2>2 DEF Shape
  <2> QED
    BY <1>2, <2>1, <2>3 DEF Grows, SameRelay
<1>9. ASSUME UNCHANGED <<config, sent, terms, log, queue>> PROVE Agreed'
  BY <1>2, <1>9 DEF Grows, SameRelay
<1>10. ASSUME NEW s \in Servers, Format(s) PROVE Agreed'
  BY <1>9, <1>10 DEF Format, link
<1>11. ASSUME NEW r \in Players, Deliver(ServerOf[r], r) PROVE Agreed'
  BY <1>9, <1>11 DEF Deliver, link
<1>12. CASE UNCHANGED vars
  BY <1>9, <1>12 DEF vars, link
<1> QED
  BY <1>3, <1>5, <1>6, <1>7, <1>8, <1>10, <1>11, <1>12, CutSteps DEF Next

LEMMA BoardInductive == Spec /\ []ReloadsSettled => []BoardInv
<1>1. Init => BoardInv
  <2> SUFFICES ASSUME Init PROVE BoardInv
    OBVIOUS
  <2>1. RelayInv
    BY StartTyped
  <2>2. OnceOnly /\ Agreed
    <3>1. /\ \A s \in Servers : chat[s].todo = {} /\ queue[s] = << >> /\ relay[s].stage = "idle"
          /\ log = << >> /\ \A p \in Players : shown[p] = << >>
      BY DEF Init, Quiet, Idle
    <3> QED
      BY <3>1 DEF OnceOnly, Origins, Opened, Queued, QueuedAt, Served, Relayed, Direct,
                  Committed, Agreed, AgreedAt, Saw, InLog
  <2> QED
    BY <2>1, <2>2 DEF BoardInv
<1>2. BoardInv /\ ReloadsSettled /\ [Next]_vars => BoardInv'
  <2> SUFFICES ASSUME BoardInv, ReloadsSettled, [Next]_vars PROVE BoardInv'
    OBVIOUS
  <2> USE DEF BoardInv
  <2>1. RelayInv' /\ ChatTypes /\ Logged
    BY TypesKept, ChannelKept, TermsKept DEF RelayInv, Channel
  <2>2. ASSUME Cut PROVE OnceOnly'
    BY <2>1, <2>2, CutKeeps DEF Cut
  <2>3. ASSUME UNCHANGED vars PROVE OnceOnly'
    <3>1. Cut
      BY <2>3 DEF vars, link, Cut, Calm, Grows
    <3> QED
      BY <2>2, <3>1
  <2>4. ASSUME NEW s \in Servers,
               \/ StartReload(s) \/ RefuseReload(s) \/ AssignConfig(s) \/ Unload(s) \/ Crash(s)
               \/ Connect(s) \/ Subscribe(s) \/ LoseSub(s) \/ LosePub(s)
        PROVE  OnceOnly'
    BY <2>2, <2>4, CutSteps
  <2>5. ASSUME NEW p \in Players,
               Speak(p) \/ ClientChatMessage(ServerOf[p], p) \/ Deliver(ServerOf[p], p)
        PROVE  OnceOnly'
    BY <2>5, SpeakKeeps, HookKeeps, DeliverKeeps
  <2>6. ASSUME NEW s \in Servers, OnMessage(s) \/ Format(s) PROVE OnceOnly'
    BY <2>6, MessageKeeps, FormatKeeps
  <2>7. ASSUME ThirdParty PROVE OnceOnly'
    BY <2>7, ThirdPartyKeeps
  <2>8. OnceOnly'
    BY <2>3, <2>4, <2>5, <2>6, <2>7 DEF Next
  <2>9. Agreed'
    BY AgreedKept
  <2> QED
    BY <2>1, <2>8, <2>9
<1> QED
  BY <1>1, <1>2, PTL DEF Spec

(****************************************************************************)
(* The steps as steps of the board.                                         *)
(****************************************************************************)
Screen == [p \in Players |-> [i \in DOMAIN shown[p] |-> shown[p][i].id]]
Silent == {m \in DOMAIN sent : Silenced(m)}

LEMMA ScreenSaw ==
  ASSUME ChatTypes, NEW p \in Players, NEW m \in Nat, ~Saw(p, m, TRUE), ~Saw(p, m, FALSE)
  PROVE  ~Contains(Screen[p], m)
<1>1. shown[p] \in Seq(Seen)
  BY DEF ChatTypes, Shape
<1>2. Screen[p] = [i \in 1..Len(shown[p]) |-> shown[p][i].id] /\ Len(shown[p]) \in Nat
  BY <1>1 DEF Screen
<1>3. Len(Screen[p]) = Len(shown[p])
  BY <1>2
<1>4. ASSUME NEW i \in 1..Len(shown[p]), shown[p][i].id = m
      PROVE  FALSE
  <2>1. shown[p][i] \in Seen
    BY <1>1
  <2>2. shown[p][i] = [id |-> m, relayed |-> TRUE] \/ shown[p][i] = [id |-> m, relayed |-> FALSE]
    BY <1>4, <2>1 DEF Seen
  <2> QED
    BY <2>2 DEF Saw
<1> QED
  BY <1>2, <1>3, <1>4 DEF Contains

LEMMA ScreenAppends ==
  ASSUME ChatTypes, NEW q \in Players, NEW id \in Nat, NEW b \in BOOLEAN, Display(q, id, b)
  PROVE  Screen' = [Screen EXCEPT ![q] = Append(Screen[q], id)]
<1> DEFINE line == [id |-> id, relayed |-> b]
           n == Len(shown[q])
           new == [i \in 1..(n + 1) |-> shown'[q][i].id]
           old == [i \in 1..n |-> shown[q][i].id]
<1>1. /\ shown' \in [Players -> Seq(Seen)] /\ Len(shown'[q]) = n + 1
      /\ shown'[q][n + 1] = line
      /\ \A i \in 1..n : shown'[q][i] = shown[q][i]
      /\ \A p \in Players \ {q} : shown'[p] = shown[p]
  <2>1. /\ shown' \in [Players -> Seq(Seen)]
        /\ Len(shown'[q]) = Len(shown[q]) + 1
        /\ shown'[q][Len(shown'[q])] = [id |-> id, relayed |-> b]
        /\ \A i \in 1..Len(shown[q]) : shown'[q][i] = shown[q][i]
        /\ \A p \in Players \ {q} : shown'[p] = shown[p]
    BY DisplayAdds DEF ChatTypes
  <2> QED
    BY <2>1
<1>2. shown[q] \in Seq(Seen) /\ n \in Nat /\ shown'[q] \in Seq(Seen) /\ line.id = id
  BY <1>1 DEF ChatTypes, Shape
<1>3. Screen[q] = old /\ Screen'[q] = new
  BY <1>1, <1>2 DEF Screen
<1>4. \A i \in 1..n : shown[q][i].id \in Nat
  <2>1. \A i \in 1..n : shown[q][i] \in Seen
    BY <1>2
  <2> QED
    BY <2>1 DEF Seen
<1>5. old \in Seq(Nat) /\ Len(old) = n
  BY <1>2, <1>4
<1>6. /\ Append(old, id) \in Seq(Nat) /\ Len(Append(old, id)) = n + 1
      /\ Append(old, id)[n + 1] = id /\ \A i \in 1..n : Append(old, id)[i] = old[i]
  <2> HIDE DEF old, n
  <2> QED
    BY <1>2, <1>5
<1>7. \A i \in 1..(n + 1) : new[i] = Append(old, id)[i]
  <2>1. \A i \in 1..(n + 1) : i \in 1..n \/ i = n + 1
    BY <1>2
  <2>2. \A i \in 1..n : new[i] = shown[q][i].id /\ old[i] = shown[q][i].id
    BY <1>1, <1>2
  <2>3. new[n + 1] = id
    BY <1>1, <1>2
  <2> HIDE DEF new, old
  <2> QED
    BY <1>6, <2>1, <2>2, <2>3
<1>8. new \in Seq(Nat) /\ Len(new) = n + 1
  <2>1. n + 1 \in Nat
    BY <1>2
  <2>2. \A i \in 1..(n + 1) : shown'[q][i].id \in Nat
    <3>1. \A i \in 1..(n + 1) : shown'[q][i] \in Seen
      BY <1>1, <1>2
    <3> QED
      BY <3>1 DEF Seen
  <2> HIDE DEF n
  <2> QED
    BY <2>1, <2>2
<1>9. new = Append(old, id)
  <2> HIDE DEF new, old
  <2> QED
    BY <1>6, <1>7, <1>8, SeqEqual
<1>10. \A p \in Players \ {q} : Screen'[p] = Screen[p]
  BY <1>1 DEF Screen
<1> QED
  BY <1>3, <1>9, <1>10 DEF Screen

(* A line the game or the relay displays is shown, or overheard at home.    *)
LEMMA ShowStep ==
  ASSUME ChatTypes, Silent' = Silent, UNCHANGED sent,
         NEW q \in Players, NEW m \in 1..Len(sent), NEW b \in BOOLEAN, Display(q, m, b),
         ~Saw(q, m, TRUE), ~Saw(q, m, FALSE),
         q \in sent[m].to \/ (sent[m].global /\ ~Silenced(m))
  PROVE  IF q \in Board!Audience(m) THEN Board!Show(q) ELSE Silenced(m) /\ Board!Overhear(q)
<1>1. m \in Nat /\ m \in DOMAIN sent
  BY DEF ChatTypes, Shape
<1>2. Screen' = [Screen EXCEPT ![q] = Append(Screen[q], m)]
  BY <1>1, ScreenAppends
<1>3. ~Contains(Screen[q], m)
  BY <1>1, ScreenSaw
<1>4. Board!Appears(q, m)
  BY <1>2, <1>3 DEF Board!Appears, Screen, Silent, Contains, Board!Contains
<1>5. q \in Board!Audience(m) \/ (q \in sent[m].to /\ m \in Silent)
  BY <1>1 DEF Board!Audience, Silent
<1>6. m \in Silent => Silenced(m)
  BY DEF Silent
<1>7. CASE q \in Board!Audience(m)
  BY <1>1, <1>4, <1>7 DEF Board!Show
<1>8. CASE q \notin Board!Audience(m)
  <2>1. q \in sent[m].to /\ m \in Silent
    BY <1>5, <1>8
  <2> QED
    BY <1>4, <1>6, <1>8, <2>1 DEF Board!Overhear, Silent
<1> QED
  BY <1>7, <1>8

(* What is said is said by a muted player or not, and the muted lines said  *)
(* before stay muted.                                                       *)
LEMMA SayStep ==
  ASSUME RelayInv, UNCHANGED shown, NEW line \in Line, sent' = Append(sent, line),
         NEW c, terms' = Append(terms, c)
  PROVE  Board!Say
<1> USE DEF RelayInv, ChatTypes
<1>0. PICK n \in Nat : n = Len(sent')
  BY SentAppend DEF Shape
<1>1. /\ n = Len(sent) + 1 /\ Len(sent) \in Nat /\ sent'[n] = line
      /\ \A m \in 1..Len(sent) : sent'[m] = sent[m] /\ terms'[m] = terms[m]
      /\ DOMAIN sent = 1..Len(sent) /\ DOMAIN sent' = 1..Len(sent')
  <2>1. /\ sent' \in Seq(Line) /\ Len(sent') = Len(sent) + 1 /\ sent'[Len(sent')] = line
        /\ \A m \in 1..Len(sent) : sent'[m] = sent[m]
    BY SentAppend
  <2>2. \A m \in 1..Len(sent) : terms'[m] = terms[m]
    BY TermsAppend
  <2>3. /\ sent \in Seq(Line) /\ Len(sent) \in Nat /\ DOMAIN sent = 1..Len(sent)
        /\ DOMAIN sent' = 1..Len(sent')
    BY <2>1 DEF Shape
  <2> QED
    BY <1>0, <2>1, <2>2, <2>3
<1>2. \A m \in 1..Len(sent) : Silenced(m)' <=> Silenced(m)
  BY <1>1 DEF Silenced
<1>3. Silenced(n)' => line.from \in Players
  BY <1>1 DEF Silenced
<1>4. 1..n = 1..Len(sent) \cup {n}
  BY <1>1
<1>5. Silent' = Silent \/ (line.from \in Players /\ Silent' = Silent \cup {n})
  <2>1. Silent' = {m \in 1..n : Silenced(m)'}
    BY <1>0, <1>1 DEF Silent
  <2>2. Silent = {m \in 1..Len(sent) : Silenced(m)}
    BY <1>1 DEF Silent
  <2>3. CASE Silenced(n)'
    <3>1. Silent' = Silent \cup {n}
      BY <1>2, <1>4, <2>1, <2>2, <2>3
    <3> QED
      BY <1>3, <2>3, <3>1
  <2>4. CASE ~Silenced(n)'
    BY <1>2, <1>4, <2>1, <2>2, <2>4
  <2> QED
    BY <2>3, <2>4
<1>6. line \in Board!Said
  BY DEF Line, Board!Said
<1>7. UNCHANGED Screen
  BY DEF Screen
<1> QED
  BY <1>0, <1>5, <1>6, <1>7 DEF Board!Say, Screen, Silent

(* With settled reloads every step says something, shows a line to one of   *)
(* its audience, or lets a muted line be overheard.                         *)
LEMMA BoardStep ==
  ASSUME BoardInv, ReloadsSettled, [Next]_vars
  PROVE  \/ UNCHANGED <<sent, Screen, Silent>>
         \/ Board!Next
         \/ \E q \in Players : Board!Overhear(q) /\ \E m \in DOMAIN sent : Silenced(m)
<1> USE DEF BoardInv
<1>1. UNCHANGED <<sent, terms>> => Silent' = Silent
  BY DEF Silent, Silenced
<1>2. UNCHANGED shown => UNCHANGED Screen
  BY DEF Screen
<1>3. ASSUME NEW p \in Players, Speak(p) PROVE Board!Say
  <2>1. PICK line \in Line : sent' = Append(sent, line)
    BY <1>3 DEF Speak, Line, Local
  <2>2. UNCHANGED shown /\ terms' = Append(terms, config[ServerOf[p]])
    BY <1>3 DEF Speak
  <2> QED
    BY <2>1, <2>2, SayStep
<1>4. ASSUME ThirdParty PROVE Board!Say
  <2>1. [from |-> Outsider, global |-> TRUE, to |-> {}] \in Line
    BY DEF Line
  <2>2. UNCHANGED shown /\ terms' = Append(terms, << >>)
    BY <1>4 DEF ThirdParty
  <2> QED
    BY <1>4, <2>1, <2>2, SayStep DEF ThirdParty
<1>5. ASSUME NEW q \in Players, NEW m \in 1..Len(sent), NEW b \in BOOLEAN, Display(q, m, b),
             UNCHANGED <<sent, terms>>, ~Saw(q, m, TRUE), ~Saw(q, m, FALSE),
             q \in sent[m].to \/ (sent[m].global /\ ~Silenced(m))
      PROVE  \/ Board!Show(q)
             \/ Board!Overhear(q) /\ \E k \in DOMAIN sent : Silenced(k)
  <2>1. m \in DOMAIN sent
    BY DEF RelayInv, ChatTypes, Shape
  <2> QED
    BY <1>1, <1>5, <2>1, ShowStep DEF RelayInv
<1>6. ASSUME NEW r \in Players, ClientChatMessage(ServerOf[r], r), ~UNCHANGED shown
      PROVE  \/ Board!Show(r)
             \/ Board!Overhear(r) /\ \E k \in DOMAIN sent : Silenced(k)
  <2> DEFINE m == chat[ServerOf[r]].id
  <2>1. UNCHANGED <<sent, terms>> /\ m \in 1..Len(sent) /\ r \in sent[m].to
    BY <1>6, HookTakes DEF OnceOnly
  <2>2. /\ Display(r, m, FALSE)
        /\ Left(ServerOf[r], m) \/ ~terms[m].replaceLocal \/ r = sent[m].from
    BY <1>6, HookCases DEF OnceOnly
  <2>3. ~Saw(r, m, TRUE) /\ ~Saw(r, m, FALSE)
    BY <1>6, <2>2, HookFresh
  <2> HIDE DEF m
  <2> QED
    BY <1>5, <2>1, <2>2, <2>3
<1>7. ASSUME NEW r \in Players, Deliver(ServerOf[r], r)
      PROVE  \/ Board!Show(r)
             \/ Board!Overhear(r) /\ \E k \in DOMAIN sent : Silenced(k)
  <2> DEFINE m == relay[ServerOf[r]].id
  <2>1. m \in 1..Len(sent) /\ InLog(m) /\ ~Saw(r, m, TRUE) /\ ~Saw(r, m, FALSE)
    BY <1>7, DeliverFresh
  <2>2. UNCHANGED <<sent, terms>> /\ Display(r, m, TRUE)
    BY <1>7 DEF Deliver
  <2>3. sent[m].global /\ ~Silenced(m)
    BY <2>1 DEF InLog, OnceOnly, Opened
  <2> HIDE DEF m
  <2> QED
    BY <1>5, <2>1, <2>2, <2>3
<1>8. ASSUME NEW s \in Servers,
             \/ StartReload(s) \/ RefuseReload(s) \/ AssignConfig(s) \/ Unload(s)
             \/ OnMessage(s) \/ Format(s) \/ Crash(s) \/ Connect(s) \/ Subscribe(s)
             \/ LoseSub(s) \/ LosePub(s)
      PROVE  UNCHANGED <<sent, shown, terms>>
  BY <1>8 DEF StartReload, RefuseReload, AssignConfig, Unload, OnMessage, Format, Crash,
              Connect, Subscribe, LoseSub, LosePub
<1>9. ASSUME NEW r \in Players, ClientChatMessage(ServerOf[r], r) PROVE UNCHANGED <<sent, terms>>
  BY <1>9 DEF ClientChatMessage
<1>10. CASE UNCHANGED <<sent, shown, terms>>
  BY <1>1, <1>2, <1>10
<1>11. UNCHANGED vars => UNCHANGED <<sent, shown, terms>>
  BY DEF vars
<1>12. \A q \in Players : Board!Say \/ Board!Show(q) => Board!Next
  BY DEF Board!Next
<1>13. Board!Say => Board!Next
  BY DEF Board!Next
<1> QED
  BY <1>3, <1>4, <1>6, <1>7, <1>8, <1>9, <1>10, <1>11, <1>12, <1>13 DEF Next

LEMMA BoardStart == Init => Board!Init
<1> SUFFICES ASSUME Init PROVE Board!Init
  OBVIOUS
<1>1. ASSUME NEW p \in Players
      PROVE  [i \in DOMAIN shown[p] |-> shown[p][i].id] = << >>
  <2>1. DOMAIN shown[p] = {}
    BY DEF Init
  <2> QED
    BY <2>1
<1>2. {m \in DOMAIN sent : Silenced(m)} = {}
  BY DEF Init
<1> QED
  BY <1>1, <1>2 DEF Init, Board!Init

(* With settled reloads the plugins of a cluster keep what is left of the   *)
(* promise of ChatBoard when muted players are overheard, whatever the      *)
(* cluster's size and whatever fails: no player sees a message twice,       *)
(* directly, over the channel or both, and what a muted player or a local   *)
(* message says reaches nobody the game did not address.                    *)
THEOREM BoardKept == Spec /\ []ReloadsSettled => KeepsBoard
<1>1. BoardInv /\ ReloadsSettled /\ [Next]_vars => [Board!HomeNext]_<<sent, Screen, Silent>>
  <2> SUFFICES ASSUME BoardInv, ReloadsSettled, [Next]_vars
               PROVE  Board!HomeNext \/ UNCHANGED <<sent, Screen, Silent>>
    OBVIOUS
  <2> QED
    BY BoardStep DEF Board!HomeNext
<1>2. Board!Init /\ [][Board!HomeNext]_<<sent, Screen, Silent>> => KeepsBoard
  BY PTL DEF KeepsBoard, Board!HomeSpec, Screen, Silent
<1> QED
  BY BoardInductive, BoardStart, <1>1, <1>2, PTL DEF Spec

(* And the whole promise of ChatBoard, as it is documented, as long as no   *)
(* player who is muted says anything.                                       *)
THEOREM PromiseKept ==
  Spec /\ []ReloadsSettled /\ [](\A m \in DOMAIN sent : ~Silenced(m)) => Board!Spec
<1> DEFINE NobodyMuted == \A m \in DOMAIN sent : ~Silenced(m)
<1>1. BoardInv /\ ReloadsSettled /\ NobodyMuted /\ [Next]_vars
        => [Board!Next]_<<sent, Screen, Silent>>
  <2> SUFFICES ASSUME BoardInv, ReloadsSettled, NobodyMuted, [Next]_vars
               PROVE  Board!Next \/ UNCHANGED <<sent, Screen, Silent>>
    OBVIOUS
  <2> QED
    BY BoardStep
<1>2. Board!Init /\ [][Board!Next]_<<sent, Screen, Silent>> => Board!Spec
  BY PTL DEF Board!Spec, Screen, Silent
<1> HIDE DEF NobodyMuted
<1>3. Spec /\ []ReloadsSettled /\ []NobodyMuted => Board!Spec
  BY BoardInductive, BoardStart, <1>1, <1>2, PTL DEF Spec
<1> QED
  BY <1>3 DEF NobodyMuted
=================================================================================
