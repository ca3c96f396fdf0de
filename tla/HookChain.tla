-------------------------------- MODULE HookChain -------------------------------
(****************************************************************************)
(* The hooks of one game function (Hooks.cpp). The first detour is attached *)
(* to the function, each later one to the detour set before it: attaching   *)
(* overwrites the entry of the target with a jump to the detour and makes a *)
(* trampoline, through which the target's own body can still be reached;    *)
(* the detour's owner keeps the trampoline in its variable "original".      *)
(*                                                                          *)
(* Hooks are set and disabled on the game thread, between calls of the      *)
(* function or from inside one of its detours. Other threads may call the   *)
(* function as well (the chat plugin's Redis thread does).                  *)
(****************************************************************************)
EXTENDS Naturals, Sequences, SequencesExt

CONSTANTS Detours,        \* detour functions of the framework and the plugins
          Function,       \* the hooked game function
          OtherThreads,   \* threads that call it beside the game thread
          Game, None, Dangling

Addresses == Detours \cup {Function}
Threads == OtherThreads \cup {Game}

ASSUME NamesAssumption ==
  /\ Function \notin Detours /\ None \notin Addresses /\ Dangling \notin Addresses
  /\ None # Dangling /\ Game \notin OtherThreads

VARIABLES hooks,     \* hook_vector: the detours, oldest first
          jump,      \* jump[a]: the detour the entry of a jumps to, or None
          original,  \* original[d]: whose trampoline d calls; Dangling once freed
          redo,      \* DisableHook: hooks it has still to set again
          hooked,    \* detours set, and not disabled, as far as their owners know
          lost,      \* history: those of them that failed to be set again
          entry,     \* entry[t]: function t is about to enter, or None
          body,      \* body[t]: function t is executing, or None
          crashed    \* a thread ran a freed trampoline

call == <<entry, body>>
vars == <<hooks, jump, original, redo, hooked, lost, call, crashed>>

Init == /\ hooks = << >> /\ redo = << >> /\ hooked = {} /\ lost = {}
        /\ jump = [a \in Addresses |-> None]
        /\ original = [d \in Detours |-> None]
        /\ entry = [t \in Threads |-> None]
        /\ body = [t \in Threads |-> None]
        /\ crashed = FALSE

(* The game thread is free to set or disable hooks: it is in no call, or in *)
(* the body of a detour.                                                    *)
GameThread == ~crashed /\ redo = << >> /\ entry[Game] = None

(* The hook vector's last detour, to which the next is attached.            *)
MutAlwaysFunction == Function

NewTarget == IF hooks = << >> THEN Function ELSE hooks[Len(hooks)]

(* DetourAttach and its commit, and the rest of SetHookInternal. *)
Attach(d) ==
  /\ jump' = [jump EXCEPT ![NewTarget] = d]
  /\ original' = [original EXCEPT ![d] = NewTarget]
  /\ hooks' = Append(hooks, d)

(* SetHookInternal of a new detour. When it fails it changes nothing. *)
SetHook(d) ==
  /\ GameThread /\ d \notin hooked
  /\ Attach(d) /\ hooked' = hooked \cup {d}
  /\ UNCHANGED <<redo, lost, call, crashed>>

(* DisableHook: detaches every hook in one transaction, which frees the     *)
(* trampolines, forgets d and sets the others again in their order. No      *)
(* detour disables itself.                                                  *)
PlaceOf(d) == CHOOSE i \in DOMAIN hooks : hooks[i] = d

MutReversed(d) == Reverse(RemoveAt(hooks, PlaceOf(d)))
MutNotErased(d) == hooks
MutRemovesLast(d) == RemoveAt(hooks, Len(hooks))

Remaining(d) == RemoveAt(hooks, PlaceOf(d))

(* What hook_vec took over leaves the vector empty. *)
MutNotCleared(d) == Remaining(d)

MovedFrom(d) == << >>

DisableHook(d) ==
  /\ GameThread /\ d \in Range(hooks) /\ d # body[Game]
  /\ jump' = [a \in Addresses |-> None]
  /\ original' = [e \in Detours |-> IF e \in Range(hooks) THEN Dangling ELSE original[e]]
  /\ hooks' = MovedFrom(d) /\ redo' = Remaining(d) /\ hooked' = hooked \ {d}
  /\ UNCHANGED <<lost, call, crashed>>

(* DisableHook of a detour the vector has lost: it returns false. *)
DisableLost(d) ==
  /\ GameThread /\ d \in hooked \ Range(hooks) /\ d # body[Game]
  /\ hooked' = hooked \ {d} /\ lost' = lost \ {d}
  /\ UNCHANGED <<hooks, jump, original, redo, call, crashed>>

(* One turn of the loop that enables the other hooks again; what            *)
(* SetHookInternal returns is not looked at: Detours may refuse.            *)
Enable ==
  /\ ~crashed /\ redo # << >>
  /\ redo' = Tail(redo)
  /\ \/ Attach(Head(redo)) /\ UNCHANGED lost
     \/ lost' = lost \cup {Head(redo)} /\ UNCHANGED <<hooks, jump, original>>
  /\ UNCHANGED <<hooked, call, crashed>>

(****************************************************************************)
(* Calls. On the game thread they do not run while DisableHook does.        *)
(****************************************************************************)
Runs(t) == ~crashed /\ (t = Game => redo = << >>)

CallFunction(t) ==
  /\ Runs(t) /\ entry[t] = None /\ body[t] = None
  /\ entry' = [entry EXCEPT ![t] = Function]
  /\ UNCHANGED <<hooks, jump, original, redo, hooked, lost, body, crashed>>

(* The entry of the function jumps to a detour, or runs on into its body.   *)
Follow(t) ==
  /\ Runs(t) /\ entry[t] # None
  /\ IF jump[entry[t]] # None
     THEN entry' = [entry EXCEPT ![t] = jump[entry[t]]] /\ UNCHANGED body
     ELSE body' = [body EXCEPT ![t] = entry[t]] /\ entry' = [entry EXCEPT ![t] = None]
  /\ UNCHANGED <<hooks, jump, original, redo, hooked, lost, crashed>>

(* A detour calls the trampoline in its original, which runs the body of    *)
(* what the detour was attached to.                                         *)
CallOriginal(t) ==
  /\ Runs(t) /\ body[t] \in Detours
  /\ IF original[body[t]] \in Addresses
     THEN body' = [body EXCEPT ![t] = original[body[t]]] /\ UNCHANGED crashed
     ELSE crashed' = TRUE /\ UNCHANGED body
  /\ UNCHANGED <<hooks, jump, original, redo, hooked, lost, entry>>

Return(t) ==
  /\ Runs(t) /\ body[t] # None /\ body' = [body EXCEPT ![t] = None]
  /\ UNCHANGED <<hooks, jump, original, redo, hooked, lost, entry, crashed>>

Next == \/ \E d \in Detours : SetHook(d)
        \/ \E d \in Detours : DisableHook(d)
        \/ \E d \in Detours : DisableLost(d)
        \/ Enable
        \/ \E t \in Threads : CallFunction(t)
        \/ \E t \in Threads : Follow(t)
        \/ \E t \in Threads : CallOriginal(t)
        \/ \E t \in Threads : Return(t)

Spec == Init /\ [][Next]_vars

(****************************************************************************)
(* Properties.                                                              *)
(****************************************************************************)
(* Every variable keeps its type; the vector holds only hooks whose owners  *)
(* have not disabled them.                                                  *)
TypeOK ==
  /\ hooked \subseteq Detours /\ lost \subseteq hooked
  /\ hooks \in Seq(hooked) /\ redo \in Seq(hooked)
  /\ jump \in [Addresses -> Detours \cup {None}]
  /\ original \in [Detours -> Addresses \cup {None, Dangling}]
  /\ entry \in [Threads -> Addresses \cup {None}]
  /\ body \in [Threads -> Addresses \cup {None}]
  /\ crashed \in BOOLEAN

Before(i) == IF i = 1 THEN Function ELSE hooks[i - 1]

(* The patched code and the trampolines form one chain through the hooks in *)
(* the order they were set, also while DisableHook is setting them again    *)
(* and when some cannot be: the function jumps to the oldest detour, each   *)
(* detour to the next, and each original leads back one step.               *)
Linked == \A i \in DOMAIN hooks : jump[Before(i)] = hooks[i] /\ original[hooks[i]] = Before(i)
Ended == \A a \in Addresses : jump[a] # None => \E i \in DOMAIN hooks : a = Before(i)
Chain == Linked /\ Ended

(* No detour is in the vector, or waiting to be set again, twice.           *)
Once == /\ \A i, j \in DOMAIN hooks : hooks[i] = hooks[j] => i = j
        /\ \A i, j \in DOMAIN redo : redo[i] = redo[j] => i = j
        /\ \A i \in DOMAIN hooks, j \in DOMAIN redo : hooks[i] # redo[j]

(* A detour that its owner has set and not disabled is in the chain or      *)
(* waiting to be set again, whichever others are disabled, unless it failed *)
(* to be set again; then it is in neither.                                  *)
Accounted == hooked \ lost = Range(hooks) \cup Range(redo)

(* A detour on the game thread can always call on: hooks that others set    *)
(* and disable while it runs never leave it with a freed trampoline, unless *)
(* it failed itself to be set again.                                        *)
GameCallSafe ==
  body[Game] \in Detours \ lost /\ redo = << >> => original[body[Game]] \in Addresses

(* For the calls of the game thread the chain implements HookList, also     *)
(* when some hooks fail to be set again: the others keep their order.       *)
AllHooks == hooks \o redo
Below(seq, b) ==
  IF Contains(seq, b) THEN SubSeq(seq, 1, (CHOOSE i \in DOMAIN seq : seq[i] = b) - 1) ELSE << >>
List == INSTANCE HookList WITH
          list    <- AllHooks,
          running <- body[Game],
          todo    <- Below(AllHooks, body[Game])
KeepsList == List!Spec
================================================================================
