------------------------------ MODULE ChatSettings ------------------------------
(****************************************************************************)
(* The chat plugin's configuration: how config.json becomes the settings    *)
(* the plugin works with, and which settings apply to a player. A settings  *)
(* record stands for a CrossServerChatConfig: disabled (the player may not  *)
(* chat across servers) and braces (its message format holds the            *)
(* placeholder {}). Titles, icons, colours and emoji are left out.          *)
(****************************************************************************)
EXTENDS Naturals, Sequences, SequencesExt

CONSTANT NoName        \* the empty server name

(* std::map::insert: of the entries of a list with one key, the first stays. *)
FirstEntry(list) ==
  [k \in {list[i].key : i \in DOMAIN list} |->
     CHOOSE i \in DOMAIN list :
       list[i].key = k /\ \A j \in DOMAIN list : list[j].key = k => i <= j]

PlayerMap(list) ==
  [k \in DOMAIN FirstEntry(list) |-> list[FirstEntry(list)[k]].settings]

(* A group's priority is its place in the list. *)
GroupMap(list) ==
  [k \in DOMAIN FirstEntry(list) |->
     [priority |-> FirstEntry(list)[k], settings |-> list[FirstEntry(list)[k]].settings]]

(* from_json on a file with a Default section. *)
Parse(file) ==
  [replaceLocal |-> file.replaceLocal, serverName |-> file.serverName,
   default      |-> file.default,
   players      |-> PlayerMap(file.players),
   groups       |-> GroupMap(file.groups)]

(* The name in the file, or else the name of the server manager's profile.  *)
ServerName(file, profile) == IF file.serverName = NoName THEN profile ELSE file.serverName

(* A file without a Default section, or no server name from either source,  *)
(* is an exception thrown before the assignment.                            *)
Accepted(file, profile) == file.hasDefault /\ ServerName(file, profile) # NoName

(* The configuration an accepted file puts in force.                        *)
ReadConfig(file, profile) ==
  [Parse(file) EXCEPT !.serverName = ServerName(file, profile)]

(* One turn of the loop over GetPlayerGroups: a listed group of a higher    *)
(* priority than the best so far takes over.                                *)
MutLastWins(config, best, name) ==
  IF name \in DOMAIN config.groups THEN config.groups[name] ELSE best

Better(config, best, name) ==
  IF name \in DOMAIN config.groups /\ config.groups[name].priority > best.priority
  THEN config.groups[name] ELSE best

(* The settings of a player who holds the permission groups names.          *)
Best(config, names) ==
  LET best[n \in 0..Len(names)] ==
        IF n = 0 THEN [priority |-> 0, settings |-> config.default]
                 ELSE Better(config, best[n - 1], names[n])
  IN  best[Len(names)].settings

Settings(config, usePermissions, player, names) ==
  IF player \in DOMAIN config.players THEN config.players[player]
  ELSE IF usePermissions THEN Best(config, names) ELSE config.default
================================================================================
