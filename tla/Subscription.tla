------------------------------ MODULE Subscription ------------------------------
(****************************************************************************)
(* What the plugin's Redis side promises, with no threads, pointers or      *)
(* callbacks: while activated it may hold a subscription, never two; a      *)
(* subscription is only ever replaced by dropping it first; an activation   *)
(* starts with no subscription left over from an earlier one.               *)
(****************************************************************************)
CONSTANT Subscribers

VARIABLES active, subs

svars == <<active, subs>>

Init == active = FALSE /\ subs = {}

Activate   == ~active /\ subs = {} /\ active' = TRUE /\ subs' = {}
Deactivate == active /\ active' = FALSE /\ UNCHANGED subs
Subscribe  == subs = {} /\ (\E s \in Subscribers : subs' = {s}) /\ UNCHANGED active
Drop       == subs # {} /\ subs' = {} /\ UNCHANGED active
Restart    == active' = FALSE /\ subs' = {}

Next == Activate \/ Deactivate \/ Subscribe \/ Drop \/ Restart

Spec == Init /\ [][Next]_svars
================================================================================
