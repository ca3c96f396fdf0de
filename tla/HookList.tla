-------------------------------- MODULE HookList --------------------------------
(****************************************************************************)
(* What plugins are told about hooks on one game function: a detour that    *)
(* was set is called until it is disabled, the last set first, and the      *)
(* function itself last. A detour may also not call on. One may be lost     *)
(* when another is disabled; lost while it runs, it cannot call on.         *)
(****************************************************************************)
EXTENDS Naturals, Sequences, SequencesExt

CONSTANTS Detours, Function, None

VARIABLES list,      \* the detours set, oldest first
          running,   \* the detour (or the function) at work in a call, or None
          todo       \* the detours the call has still to run, next one last

hvars == <<list, running, todo>>

Without(seq, d) ==
  IF Contains(seq, d) THEN RemoveAt(seq, CHOOSE i \in DOMAIN seq : seq[i] = d) ELSE seq

Init == list = << >> /\ running = None /\ todo = << >>

Hook(d) == /\ ~Contains(list, d) /\ list' = Append(list, d)
          /\ UNCHANGED <<running, todo>>

Unhook(d) == /\ Contains(list, d) /\ d # running
             /\ list' = Without(list, d) /\ todo' = Without(todo, d)
             /\ UNCHANGED running

Lose(d) == /\ Contains(list, d) /\ list' = Without(list, d)
           /\ todo' = IF d = running THEN << >> ELSE Without(todo, d)
           /\ UNCHANGED running

Run(rest) == IF rest = << >> THEN running' = Function /\ todo' = << >>
             ELSE running' = Last(rest) /\ todo' = Front(rest)

Call   == running = None /\ Run(list) /\ UNCHANGED list
CallOn == Contains(list, running) /\ Run(todo) /\ UNCHANGED list
Return == running # None /\ running' = None /\ todo' = << >> /\ UNCHANGED list

Next == \/ \E d \in Detours : Hook(d) \/ Unhook(d) \/ Lose(d)
        \/ Call \/ CallOn \/ Return

Spec == Init /\ [][Next]_hvars
================================================================================
