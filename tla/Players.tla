--------------------------------- MODULE Players ---------------------------------
(****************************************************************************)
(* The map from Steam ids to player controllers (ApiUtils.cpp), kept by the *)
(* hooks of Possess, of the controller's acknowledgement and of Logout. A   *)
(* player who comes back may be there with a new controller before the game *)
(* logs the old one out. The game knows a controller's id from its first    *)
(* Possess on; a call before that changes nothing.                          *)
(****************************************************************************)
EXTENDS Naturals

CONSTANTS Controllers,   \* addresses of controllers
          SteamId,       \* SteamId[c]: whose controller c is
          Null

ASSUME NullAssumption == Null \notin Controllers

Ids == {SteamId[c] : c \in Controllers}

VARIABLES steam_id_map,   \* per id a controller, or Null
          present         \* controllers in the game

playerVars == <<steam_id_map, present>>

PlayersInit == steam_id_map = [id \in Ids |-> Null] /\ present = {}

Login(c) == c \notin present /\ present' = present \cup {c} /\ UNCHANGED steam_id_map

(* The hooks of Possess and of ServerReceivedPlayerControllerAck. *)
SetPlayerController(c) ==
  /\ c \in present /\ steam_id_map' = [steam_id_map EXCEPT ![SteamId[c]] = c]
  /\ UNCHANGED present

(* Mutant: the hook runs when the controller's id is already gone. *)
MutKeepsEntry(c) == UNCHANGED steam_id_map

EraseEntry(c) == steam_id_map' = [steam_id_map EXCEPT ![SteamId[c]] = Null]

(* The Logout hook; the game destroys the controller then. *)
RemovePlayerController(c) == c \in present /\ EraseEntry(c) /\ present' = present \ {c}

PlayersNext == \E c \in Controllers : Login(c) \/ SetPlayerController(c) \/ RemovePlayerController(c)

PlayersSpec == PlayersInit /\ [][PlayersNext]_playerVars

(****************************************************************************)
(* Properties.                                                              *)
(****************************************************************************)
(* Every variable keeps its type. *)
PlayersTypeOK == steam_id_map \in [Ids -> Controllers \cup {Null}] /\ present \subseteq Controllers

(* FindPlayerFromSteamId never returns a controller that the game has       *)
(* destroyed, nor one of another player, in whatever order the player's old *)
(* and new controllers are seen and logged out.                             *)
FindsLive ==
  \A id \in Ids : steam_id_map[id] # Null =>
                    steam_id_map[id] \in present /\ SteamId[steam_id_map[id]] = id
==================================================================================
