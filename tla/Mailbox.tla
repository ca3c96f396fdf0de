--------------------------------- MODULE Mailbox ---------------------------------
(****************************************************************************)
(* What Requests promises (Requests.h): results are handed to the main      *)
(* thread one at a time, each once, in the order in which they came in. A   *)
(* callback that throws may take results that wait with it, the oldest      *)
(* first.                                                                   *)
(****************************************************************************)
EXTENDS Naturals, Sequences

CONSTANTS Reqs, NoRequest

VARIABLES arrived,   \* requests whose result ever came in
          waiting,   \* results not yet handed over, oldest first
          current    \* the request whose callback is running, or NoRequest

mvars == <<arrived, waiting, current>>

Init == arrived = {} /\ waiting = << >> /\ current = NoRequest

Arrive(r) == /\ r \notin arrived
             /\ arrived' = arrived \cup {r} /\ waiting' = Append(waiting, r)
             /\ UNCHANGED current

HandOver == /\ current = NoRequest /\ waiting # << >>
            /\ current' = Head(waiting) /\ waiting' = Tail(waiting)
            /\ UNCHANGED arrived

Return == current # NoRequest /\ current' = NoRequest /\ UNCHANGED <<arrived, waiting>>

Throw == /\ current # NoRequest /\ current' = NoRequest
         /\ \E k \in 1..Len(waiting) + 1 : waiting' = SubSeq(waiting, k, Len(waiting))
         /\ UNCHANGED arrived

Next == (\E r \in Reqs : Arrive(r)) \/ HandOver \/ Return \/ Throw

Spec == Init /\ [][Next]_mvars
==================================================================================
