------------------------------- MODULE MCGameHooks -------------------------------
(* Two plugins with callbacks; one of them also gives functions to the      *)
(* timer and makes requests. A player may come back with a second           *)
(* controller. The casts put together what may meet.                        *)
EXTENDS GameHooks

Delayed(wait)          == [once |-> TRUE, wait |-> wait, count |-> 1]
Recurring(wait, count) == [once |-> FALSE, wait |-> wait, count |-> count]

MCKind == [now    |-> Delayed(0),
           soon   |-> Delayed(1),
           later  |-> Delayed(2),
           twice  |-> Recurring(1, 2),
           always |-> Recurring(1, Forever)]

MCOwner   == [x \in DOMAIN MCKind \cup {"get", "post"} |-> "a"]
MCSteamId == [c \in {"old", "new"} |-> 1]

MCCasts ==
  {{"a", "soon", "twice", "always"}, {"a", "soon", "later"}, {"a", "now", "soon"},
   {"a", "b", "always"}, {"a", "b", "get"}, {"a", "get", "post"}, {"a", "soon", "get"},
   {"a", "old", "new"}}

(* Two delayed functions and one that a function may add. *)
DelayCasts == {{"a", "soon", "later", "twice"}}
==================================================================================
