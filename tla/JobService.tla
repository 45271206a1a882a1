----------------------------- MODULE JobService ------------------------------
(***************************************************************************)
(* What the scheduler promises a client: a request that is taken is served *)
(* by one slot or abandoned, and finishes exactly once; a slot serves one  *)
(* request at a time; once the service is closed it takes nothing new, yet *)
(* everything it took still finishes.                                      *)
(***************************************************************************)
CONSTANTS Job, Slot, NoJob

VARIABLES
  phase,    \* of each request
  serving,  \* the request each slot serves, or NoJob
  open      \* does the service still take requests?

vars == <<phase, serving, open>>

Phase == {"new", "taken", "serving", "finished", "refused"}

TypeOK ==
  /\ phase \in [Job -> Phase]
  /\ serving \in [Slot -> Job \cup {NoJob}]
  /\ open \in BOOLEAN

Init ==
  /\ phase = [j \in Job |-> "new"]
  /\ serving = [s \in Slot |-> NoJob]
  /\ open = TRUE

Take(j) ==
  /\ open
  /\ phase[j] = "new"
  /\ phase' = [phase EXCEPT ![j] = "taken"]
  /\ UNCHANGED <<serving, open>>

\* A request that carries no work, or that comes too late.
Refuse(j) ==
  /\ phase[j] = "new"
  /\ phase' = [phase EXCEPT ![j] = "refused"]
  /\ UNCHANGED <<serving, open>>

Serve(j, s) ==
  /\ phase[j] = "taken"
  /\ serving[s] = NoJob
  /\ phase' = [phase EXCEPT ![j] = "serving"]
  /\ serving' = [serving EXCEPT ![s] = j]
  /\ UNCHANGED open

Finish(j, s) ==
  /\ serving[s] = j
  /\ phase' = [phase EXCEPT ![j] = "finished"]
  /\ serving' = [serving EXCEPT ![s] = NoJob]
  /\ UNCHANGED open

\* The client left before any slot served it.
Abandon(j) ==
  /\ phase[j] = "taken"
  /\ phase' = [phase EXCEPT ![j] = "finished"]
  /\ UNCHANGED <<serving, open>>

Close ==
  /\ open
  /\ open' = FALSE
  /\ UNCHANGED <<phase, serving>>

Progress(j) == Abandon(j) \/ \E s \in Slot : Serve(j, s) \/ Finish(j, s)

Next ==
  \/ \E j \in Job : Take(j) \/ Refuse(j) \/ Progress(j)
  \/ Close

Spec == Init /\ [][Next]_vars

FairSpec == Spec /\ \A j \in Job : WF_vars(Progress(j))

=============================================================================
