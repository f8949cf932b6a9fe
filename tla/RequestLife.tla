------------------------------ MODULE RequestLife ------------------------------
(***************************************************************************)
(* What a gateway may rely on for a request it writes into the request     *)
(* memory (mem_broker/mem_server.cc): the life of a request, without       *)
(* queues, threads or memories.  A request only ever moves forward: it is  *)
(* taken by one process, reaches the counter at most once, is answered at  *)
(* most once, and what died with a process never comes back to life.       *)
(***************************************************************************)
CONSTANT Requests

VARIABLE phase   \* of each request

Phases == {"new", "waiting", "taken", "refused", "sent", "answered", "lost"}

LifeInit == phase = [r \in Requests |-> "new"]

Moves(r, from, to) == phase[r] \in from /\ phase' = [phase EXCEPT ![r] = to]

Write(r)  == Moves(r, {"new"}, "waiting")
Take(r)   == Moves(r, {"waiting"}, "taken")
Refuse(r) == Moves(r, {"waiting", "taken"}, "refused")   \* by a check, a risker or an exception
Send(r)   == Moves(r, {"taken"}, "sent")
Answer(r) == Moves(r, {"refused", "sent"}, "answered")
Drop(r)   == Moves(r, {"refused"}, "lost")               \* an answer nobody gets

\* The process dies: what it held and had not passed on is lost, all at once.
Crash == phase' = [r \in Requests |-> IF phase[r] \in {"taken", "refused"}
                                      THEN "lost" ELSE phase[r]]

LifeNext ==
  \/ Crash
  \/ \E r \in Requests : \/ Write(r) \/ Take(r) \/ Refuse(r) \/ Send(r)
                         \/ Answer(r) \/ Drop(r)

LifeSpec == LifeInit /\ [][LifeNext]_phase
==============================================================================
