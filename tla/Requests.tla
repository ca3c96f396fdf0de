-------------------------------- MODULE Requests --------------------------------
(****************************************************************************)
(* HTTP requests of plugins (Requests.cpp). Every request has a thread,     *)
(* which ends by adding the result to RequestsVec_; the game thread takes   *)
(* the vector over once a tick and calls the callbacks. What the server     *)
(* answers, or which exception of the library is caught, decides what the   *)
(* callback is told, not what happens. A POST whose two lists differ in     *)
(* length is refused: it changes nothing.                                   *)
(****************************************************************************)
EXTENDS Naturals, Sequences, SequencesExt

CONSTANTS Reqs,        \* requests, each made at most once
          Free, NoRequest   \* RequestMutex_ without owner; no request

ASSUME ReqsAssumption == Free \notin Reqs /\ NoRequest \notin Reqs

VARIABLES thread,         \* thread[r]: where the thread of r is
          RequestsVec,    \* results for the game thread
          mutex,          \* owner of RequestMutex_
          update,         \* game thread: outside Update, about to lock, in the loop
          requests_temp,  \* results taken over and not yet called back
          current,        \* the request whose callback runs, or NoRequest
          called,         \* history: callbacks called
          dropped         \* history: results lost to a callback that threw

requestVars == <<thread, RequestsVec, mutex, update, requests_temp, current, called, dropped>>

RequestsInit ==
  /\ thread = [r \in Reqs |-> "none"] /\ mutex = Free
  /\ RequestsVec = << >> /\ requests_temp = << >> /\ current = NoRequest
  /\ update = "rest" /\ called = {} /\ dropped = {}

(****************************************************************************)
(* The request's thread.                                                    *)
(****************************************************************************)
(* CreateGetRequest, CreateDeleteRequest and the three CreatePostRequest. *)
CreateRequest(r) ==
  /\ thread[r] = "none" /\ thread' = [thread EXCEPT ![r] = "sent"]
  /\ UNCHANGED <<RequestsVec, mutex, update, requests_temp, current, called, dropped>>

(* The answer is there, or an exception was caught. *)
Answered(r) ==
  /\ thread[r] = "sent" /\ thread' = [thread EXCEPT ![r] = "answered"]
  /\ UNCHANGED <<RequestsVec, mutex, update, requests_temp, current, called, dropped>>

(* WriteRequest, around the push_back. *)
WriteLock(r) ==
  /\ thread[r] = "answered" /\ mutex = Free
  /\ mutex' = r /\ thread' = [thread EXCEPT ![r] = "writing"]
  /\ UNCHANGED <<RequestsVec, update, requests_temp, current, called, dropped>>

WriteRequest(r) ==
  /\ thread[r] = "writing"
  /\ RequestsVec' = Append(RequestsVec, r)
  /\ mutex' = Free /\ thread' = [thread EXCEPT ![r] = "done"]
  /\ UNCHANGED <<update, requests_temp, current, called, dropped>>

(****************************************************************************)
(* Update, on the game thread.                                              *)
(****************************************************************************)
(* The first test is made without the lock. While a thread is writing it    *)
(* may see either result.                                                   *)
MaybeEmpty    == RequestsVec = << >> \/ mutex # Free
MaybeNonempty == RequestsVec # << >> \/ mutex # Free

Update ==
  /\ update = "rest"
  /\ \/ MaybeNonempty /\ update' = "lock"
     \/ MaybeEmpty /\ UNCHANGED update
  /\ UNCHANGED <<thread, RequestsVec, mutex, requests_temp, current, called, dropped>>

(* Mutant: the results are copied, and the vector cleared after the loop.   *)
MutCopies ==
  /\ update = "lock" /\ mutex = Free /\ update' = "loop"
  /\ requests_temp' = RequestsVec
  /\ UNCHANGED <<thread, RequestsVec, mutex, current, called, dropped>>

TakeOver ==
  /\ update = "lock" /\ mutex = Free /\ update' = "loop"
  /\ requests_temp' = RequestsVec /\ RequestsVec' = << >>
  /\ UNCHANGED <<thread, mutex, current, called, dropped>>

CallBack ==
  /\ update = "loop" /\ current = NoRequest /\ requests_temp # << >>
  /\ current' = Head(requests_temp) /\ requests_temp' = Tail(requests_temp)
  /\ called' = called \cup {Head(requests_temp)}
  /\ UNCHANGED <<thread, RequestsVec, mutex, update, dropped>>

CallbackReturns ==
  /\ current # NoRequest /\ current' = NoRequest
  /\ UNCHANGED <<thread, RequestsVec, mutex, update, requests_temp, called, dropped>>

(* The exception leaves Update, and the results taken over go with it. *)
CallbackThrows ==
  /\ current # NoRequest /\ current' = NoRequest
  /\ update' = "rest" /\ requests_temp' = << >>
  /\ dropped' = dropped \cup Range(requests_temp)
  /\ UNCHANGED <<thread, RequestsVec, mutex, called>>

(* Mutant: RequestsVec_ is emptied when the callbacks are done. *)
MutClearsLate ==
  /\ update = "loop" /\ current = NoRequest /\ requests_temp = << >>
  /\ update' = "rest" /\ RequestsVec' = << >>
  /\ UNCHANGED <<thread, mutex, requests_temp, current, called, dropped>>

EndLoop ==
  /\ update = "loop" /\ current = NoRequest /\ requests_temp = << >> /\ update' = "rest"
  /\ UNCHANGED <<thread, RequestsVec, mutex, requests_temp, current, called, dropped>>

ThreadStep(r) == Answered(r) \/ WriteLock(r) \/ WriteRequest(r)
UpdateStep    == TakeOver \/ CallBack \/ CallbackReturns \/ CallbackThrows \/ EndLoop

RequestsNext == (\E r \in Reqs : CreateRequest(r) \/ ThreadStep(r)) \/ Update \/ UpdateStep

RequestsSpec == RequestsInit /\ [][RequestsNext]_requestVars

(****************************************************************************)
(* Properties.                                                              *)
(****************************************************************************)
(* Every variable keeps its type. *)
RequestsTypeOK ==
  /\ thread \in [Reqs -> {"none", "sent", "answered", "writing", "done"}]
  /\ RequestsVec \in Seq(Reqs) /\ requests_temp \in Seq(Reqs)
  /\ mutex \in Reqs \cup {Free} /\ update \in {"rest", "lock", "loop"}
  /\ current \in Reqs \cup {NoRequest}
  /\ called \subseteq Reqs /\ dropped \subseteq Reqs

(* Requests implements Mailbox: no result is handed over twice, out of      *)
(* order or lost, however its arrival meets Update, except behind a         *)
(* callback that throws.                                                    *)
Box == INSTANCE Mailbox WITH
         arrived <- {r \in Reqs : thread[r] = "done"},
         waiting <- requests_temp \o RequestsVec
KeepsMailbox == Box!Spec
=================================================================================
