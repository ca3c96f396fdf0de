------------------------------- MODULE ChatBoard --------------------------------
(****************************************************************************)
(* What the chat plugin promises its users, with no servers, threads or     *)
(* channel: players say things, and a line appears on a player's screen at  *)
(* most once and only if the player belongs to its audience.                *)
(****************************************************************************)
EXTENDS Naturals, Sequences, SequencesExt

CONSTANTS Players, Outsider     \* Outsider: a program that publishes on the channel

VARIABLES sent,                 \* the lines said so far, in order
          screen,               \* screen[p]: indices into sent, in order shown
          silent                \* the lines of players who were muted when they spoke

Said == [from : Players \cup {Outsider}, global : BOOLEAN, to : SUBSET Players]

Init == sent = << >> /\ screen = [p \in Players |-> << >>] /\ silent = {}

(* A muted player is heard by nobody else. Of the others a global line is   *)
(* heard everywhere and a local one by those the game itself addresses.     *)
Audience(m) ==
  CASE m \in silent -> {sent[m].from}
    [] m \notin silent /\ sent[m].global -> Players
    [] OTHER -> sent[m].to

Say == \E line \in Said :
         /\ sent' = Append(sent, line)
         /\ \/ UNCHANGED silent
            \/ line.from \in Players /\ silent' = silent \cup {Len(sent')}
         /\ UNCHANGED screen

Appears(p, m) == /\ ~Contains(screen[p], m)
                 /\ screen' = [screen EXCEPT ![p] = Append(@, m)]
                 /\ UNCHANGED <<sent, silent>>

Show(p) == \E m \in DOMAIN sent : p \in Audience(m) /\ Appears(p, m)

Next == Say \/ \E p \in Players : Show(p)

Spec == Init /\ [][Next]_<<sent, screen, silent>>

(****************************************************************************)
(* Overhearing is no part of the promise: the game itself shows a muted     *)
(* player's line to those it addresses, and a plugin that lets it breaks    *)
(* the promise. HomeSpec is what is then left of it: a muted player is      *)
(* heard nowhere but where the game's own chat reaches, and all else holds. *)
(****************************************************************************)
Overhear(p) == \E m \in silent : p \in sent[m].to /\ Appears(p, m)

HomeNext == Next \/ \E p \in Players : Overhear(p)

HomeSpec == Init /\ [][HomeNext]_<<sent, screen, silent>>
================================================================================
