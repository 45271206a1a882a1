----------------------------- MODULE ServerSched -----------------------------
(***************************************************************************)
(* The request scheduler of ds4_server.c: everything guarded by server.mu, *)
(* plus the life of the stack-owned job each client thread lends to it.    *)
(*                                                                         *)
(* Threads: one client thread per request (client_main), one worker per    *)
(* session slot (slot_worker_main; worker_main when not batched), and the  *)
(* main thread that accepts, drains and tears down.  A critical section is *)
(* one step, except that dispatch_jobs_locked takes and drops tool_mu on   *)
(* every iteration, so a dispatch loop is a run of steps during which its  *)
(* thread holds mu while workers may still change live bindings.           *)
(*                                                                         *)
(* pthread_cond_wait is explicit: a thread that finds its predicate false  *)
(* goes to sleep and runs again only after a broadcast.                    *)
(***************************************************************************)
EXTENDS Integers, Sequences, FiniteSets, SequencesExt

CONSTANTS
  Job,          \* requests; a job and the client thread that owns it are one
  Slot,         \* resident session slots, each with its worker thread
  NoJob,        \* the NULL job pointer
  Main,         \* the main thread
  Nobody,       \* the owner of mu when it is free
  Continues,    \* Continues[j] = k: j carries tool results for the calls of k
  BatchedMode   \* s->batched_mode

ASSUME ConstantsAssumption ==
  /\ NoJob \notin Job
  /\ Job \cap Slot = {}
  /\ Main \notin Job \cup Slot
  /\ Nobody \notin Job \cup Slot \cup {Main}
  /\ Continues \in [Job -> Job \cup {NoJob}]
  /\ BatchedMode \in BOOLEAN
  /\ ~BatchedMode => \E s \in Slot : Slot = {s}

VARIABLES
  queue,      \* s->head .. s->tail
  assigned,   \* slot->assigned: dispatched, not yet taken by the worker
  busy,       \* slot->busy
  held,       \* the worker's local j, until its last use of the pointer
  running,    \* slot->running (guarded by model_mu)
  binding,    \* the job whose tool-call ids the slot's live state remembers
  answered,   \* jobs whose tool calls have been sent to their client
  cancelled,  \* j->cancelled
  done,       \* j->done
  detached,   \* server_cancel_job's local: this client unlinked its own job
  stopRequested, \* g_stop_requested, set by the signal handler
  stopping,   \* s->stopping
  clients,    \* s->clients
  mu,         \* the thread inside a dispatch loop, or Nobody
  asleep,     \* workers blocked on s->cv
  mainAsleep, \* main blocked on s->clients_cv
  cpc,        \* client program counters
  wpc,        \* worker program counters
  mainpc      \* main program counter

slotVars   == <<assigned, busy, held, running>>
jobVars    == <<cancelled, done, detached>>
liveVars   == <<binding, answered>>
serverVars == <<queue, stopRequested, stopping, clients>>
syncVars   == <<mu, asleep, mainAsleep>>
pcVars     == <<cpc, wpc, mainpc>>
vars == <<slotVars, jobVars, liveVars, serverVars, syncVars, pcVars>>

Thread == Job \cup Slot \cup {Main}

ClientPC == {"absent", "reading", "enqueuing", "waiting", "polled", "cancel",
             "detaching", "cancel_model", "completing", "closing", "gone"}
WorkerPC == {"unborn", "wait", "start", "check", "run", "answering", "clear",
             "complete", "release", "redispatch", "exited"}
MainPC   == {"spawn", "accept", "stopping", "join", "drain", "closed"}

Init ==
  /\ queue = <<>>
  /\ assigned = [s \in Slot |-> NoJob]
  /\ busy = [s \in Slot |-> FALSE]
  /\ held = [s \in Slot |-> NoJob]
  /\ running = [s \in Slot |-> NoJob]
  /\ binding = [s \in Slot |-> NoJob]
  /\ answered = {}
  /\ cancelled = [j \in Job |-> FALSE]
  /\ done = [j \in Job |-> FALSE]
  /\ detached = [j \in Job |-> FALSE]
  /\ stopRequested = FALSE
  /\ stopping = FALSE
  /\ clients = 0
  /\ mu = Nobody
  /\ asleep = {}
  /\ mainAsleep = FALSE
  /\ cpc = [j \in Job |-> "absent"]
  /\ wpc = [s \in Slot |-> "unborn"]
  /\ mainpc = "spawn"

-----------------------------------------------------------------------------
(* dispatch_jobs_locked *)

\* Mutant: continuations are not routed.
RequiredSlotsIgnored(j) == IF j \in Job THEN {} ELSE {}

\* job_required_slot_locked: the slot whose live state knows the job's calls.
\* Call ids are random and remembered by one slot, so
\* the first such slot is the only one.
RequiredSlots(j) ==
  {s \in Slot : Continues[j] # NoJob /\ binding[s] = Continues[j]}

\* job_slot_score > INT_MIN.  The score itself (common prefix, visible text)
\* ranks token contents, which are abstracted: any eligible slot may win.
EligibleSlots(j) ==
  {s \in Slot : /\ ~busy[s]
                /\ assigned[s] = NoJob
                /\ RequiredSlots(j) # {} => s \in RequiredSlots(j)}

CanDispatch(j) == BatchedMode /\ EligibleSlots(j) # {}

\* Mutant: any runnable job, not the first one.
AnyRunnable(i) == CanDispatch(queue[i])

\* The first queued job, in arrival order, that some slot can take now.
FirstRunnable(i) ==
  /\ CanDispatch(queue[i])
  /\ \A k \in 1..(i-1) : ~CanDispatch(queue[k])

DispatchOne ==
  /\ mu # Nobody
  /\ \E i \in 1..Len(queue) :
       /\ FirstRunnable(i)
       /\ \E s \in EligibleSlots(queue[i]) :
            /\ assigned' = [assigned EXCEPT ![s] = queue[i]]
            /\ busy' = [busy EXCEPT ![s] = TRUE]
       /\ queue' = RemoveAt(queue, i)
  /\ asleep' = {}
  /\ UNCHANGED <<held, running, jobVars, liveVars, stopRequested, stopping,
                 clients, mu, mainAsleep, pcVars>>

\* The loop of thread t ends: it releases mu.
DispatchEnds(t) ==
  /\ mu = t
  /\ \A i \in 1..Len(queue) : ~CanDispatch(queue[i])
  /\ mu' = Nobody

-----------------------------------------------------------------------------
(* Client threads *)

\* main's accept loop: count the client, then start its thread (a thread that
\* cannot be started is uncounted at once, as if it had not connected).  A
\* request that answers tool calls exists only once those have been sent.
Accept(j) ==
  /\ mainpc = "accept" /\ ~stopRequested /\ mu = Nobody
  /\ cpc[j] = "absent"
  /\ Continues[j] # NoJob => Continues[j] \in answered
  /\ clients' = clients + 1
  /\ cpc' = [cpc EXCEPT ![j] = "reading"]
  /\ UNCHANGED <<slotVars, jobVars, liveVars, queue, stopRequested, stopping,
                 syncVars, wpc, mainpc>>

\* client_main returns before enqueue: bad request, model listing, 400, 404.
ClientWithoutJob(j) ==
  /\ cpc[j] = "reading"
  /\ cpc' = [cpc EXCEPT ![j] = "closing"]
  /\ UNCHANGED <<slotVars, jobVars, liveVars, serverVars, syncVars, wpc, mainpc>>

\* enqueue refuses once stopping is set: the client answers 503.
EnqueueRefused(j) ==
  /\ cpc[j] = "reading" /\ mu = Nobody
  /\ stopping
  /\ cpc' = [cpc EXCEPT ![j] = "closing"]
  /\ UNCHANGED <<slotVars, jobVars, liveVars, serverVars, syncVars, wpc, mainpc>>

Enqueue(j) ==
  /\ cpc[j] = "reading" /\ mu = Nobody
  /\ ~stopping
  /\ queue' = Append(queue, j)
  /\ mu' = j
  /\ cpc' = [cpc EXCEPT ![j] = "enqueuing"]
  /\ UNCHANGED <<slotVars, jobVars, liveVars, stopRequested, stopping, clients,
                 asleep, mainAsleep, wpc, mainpc>>

\* Mutant: the worker is not signalled.
EnqueueUnsignalled(j) ==
  /\ cpc[j] = "enqueuing"
  /\ DispatchEnds(j)
  /\ cpc' = [cpc EXCEPT ![j] = "waiting"]
  /\ UNCHANGED <<slotVars, jobVars, liveVars, serverVars, asleep, mainAsleep,
                 wpc, mainpc>>

\* A broadcast; when not batched a signal, which wakes the only worker.
EnqueueEnd(j) ==
  /\ cpc[j] = "enqueuing"
  /\ DispatchEnds(j)
  /\ asleep' = {}
  /\ cpc' = [cpc EXCEPT ![j] = "waiting"]
  /\ UNCHANGED <<slotVars, jobVars, liveVars, serverVars, mainAsleep, wpc, mainpc>>

\* wait_for_job_or_disconnect sees done, and client_main frees the job.
SeeDone(j) ==
  /\ cpc[j] = "waiting" /\ done[j]
  /\ cpc' = [cpc EXCEPT ![j] = "closing"]
  /\ UNCHANGED <<slotVars, jobVars, liveVars, serverVars, syncVars, wpc, mainpc>>

\* The 100 ms wait times out with done still false; j->mu is dropped before
\* the socket is probed, so the job may complete in between.
PollTimeout(j) ==
  /\ cpc[j] = "waiting" /\ ~done[j]
  /\ cpc' = [cpc EXCEPT ![j] = "polled"]
  /\ UNCHANGED <<slotVars, jobVars, liveVars, serverVars, syncVars, wpc, mainpc>>

StillConnected(j) ==
  /\ cpc[j] = "polled"
  /\ cpc' = [cpc EXCEPT ![j] = "waiting"]
  /\ UNCHANGED <<slotVars, jobVars, liveVars, serverVars, syncVars, wpc, mainpc>>

\* server_cancel_job: job_mark_cancelled, before any scheduler lock.
MarkCancelled(j) ==
  /\ cpc[j] = "polled"
  /\ cancelled' = [cancelled EXCEPT ![j] = TRUE]
  /\ detached' = [detached EXCEPT ![j] = FALSE]
  /\ cpc' = [cpc EXCEPT ![j] = "cancel"]
  /\ UNCHANGED <<slotVars, done, liveVars, serverVars, syncVars, wpc, mainpc>>

\* Mutant: the client unlinks its job and forgets that it must complete it.
CancelQueuedForgotten(j) ==
  /\ cpc[j] = "cancel" /\ mu = Nobody
  /\ \E i \in 1..Len(queue) : queue[i] = j /\ queue' = RemoveAt(queue, i)
  /\ asleep' = {}
  /\ cpc' = [cpc EXCEPT ![j] = "cancel_model"]
  /\ UNCHANGED <<slotVars, jobVars, liveVars, stopRequested, stopping, clients,
                 mu, mainAsleep, wpc, mainpc>>

\* server_cancel_job under mu: the job is still queued.
CancelQueued(j) ==
  /\ cpc[j] = "cancel" /\ mu = Nobody
  /\ \E i \in 1..Len(queue) : queue[i] = j /\ queue' = RemoveAt(queue, i)
  /\ detached' = [detached EXCEPT ![j] = TRUE]
  /\ asleep' = {}
  /\ cpc' = [cpc EXCEPT ![j] = "cancel_model"]
  /\ UNCHANGED <<slotVars, cancelled, done, liveVars, stopRequested, stopping,
                 clients, mu, mainAsleep, wpc, mainpc>>

\* ... or handed to a worker that has not picked it up: the slot is idle again.
CancelAssigned(j) ==
  /\ cpc[j] = "cancel" /\ mu = Nobody
  /\ BatchedMode
  /\ \E s \in Slot :
       /\ assigned[s] = j
       /\ assigned' = [assigned EXCEPT ![s] = NoJob]
       /\ busy' = [busy EXCEPT ![s] = FALSE]
  /\ detached' = [detached EXCEPT ![j] = TRUE]
  /\ mu' = j
  /\ cpc' = [cpc EXCEPT ![j] = "detaching"]
  /\ UNCHANGED <<held, running, cancelled, done, liveVars, serverVars, asleep,
                 mainAsleep, wpc, mainpc>>

CancelAssignedEnd(j) ==
  /\ cpc[j] = "detaching"
  /\ DispatchEnds(j)
  /\ asleep' = {}
  /\ cpc' = [cpc EXCEPT ![j] = "cancel_model"]
  /\ UNCHANGED <<slotVars, jobVars, liveVars, serverVars, mainAsleep, wpc, mainpc>>

\* Mutant: a job some worker has taken counts as detached.
CancelTakenDetaches(j) ==
  /\ cpc[j] = "cancel" /\ mu = Nobody
  /\ \A i \in 1..Len(queue) : queue[i] # j
  /\ BatchedMode => \A s \in Slot : assigned[s] # j
  /\ detached' = [detached EXCEPT ![j] = TRUE]
  /\ asleep' = {}
  /\ cpc' = [cpc EXCEPT ![j] = "cancel_model"]
  /\ UNCHANGED <<slotVars, cancelled, done, liveVars, serverVars, mu, mainAsleep,
                 wpc, mainpc>>

\* ... or already taken: only the flag can stop it.
CancelTaken(j) ==
  /\ cpc[j] = "cancel" /\ mu = Nobody
  /\ \A i \in 1..Len(queue) : queue[i] # j
  /\ BatchedMode => \A s \in Slot : assigned[s] # j
  /\ asleep' = {}
  /\ cpc' = [cpc EXCEPT ![j] = "cancel_model"]
  /\ UNCHANGED <<slotVars, jobVars, liveVars, serverVars, mu, mainAsleep, wpc,
                 mainpc>>

\* Mutant: the client leaves without waiting for the worker.
CancelModelLeaves(j) ==
  /\ cpc[j] = "cancel_model"
  /\ cpc' = [cpc EXCEPT ![j] = IF detached[j] THEN "completing" ELSE "closing"]
  /\ UNCHANGED <<slotVars, jobVars, liveVars, serverVars, syncVars, wpc, mainpc>>

\* server_cancel_job under model_mu: the pending decode of the slot that runs
\* j is withdrawn (ModelGate); nothing guarded by mu changes.
CancelModel(j) ==
  /\ cpc[j] = "cancel_model"
  /\ cpc' = [cpc EXCEPT ![j] = IF detached[j] THEN "completing" ELSE "waiting"]
  /\ UNCHANGED <<slotVars, jobVars, liveVars, serverVars, syncVars, wpc, mainpc>>

CancelComplete(j) ==
  /\ cpc[j] = "completing"
  /\ done' = [done EXCEPT ![j] = TRUE]
  /\ cpc' = [cpc EXCEPT ![j] = "waiting"]
  /\ UNCHANGED <<slotVars, cancelled, detached, liveVars, serverVars, syncVars,
                 wpc, mainpc>>

\* client_done: the job is gone, the client is uncounted, main is woken.
ClientDone(j) ==
  /\ cpc[j] = "closing" /\ mu = Nobody
  /\ clients' = IF clients > 0 THEN clients - 1 ELSE clients
  /\ mainAsleep' = FALSE
  /\ cpc' = [cpc EXCEPT ![j] = "gone"]
  /\ UNCHANGED <<slotVars, jobVars, liveVars, queue, stopRequested, stopping,
                 mu, asleep, wpc, mainpc>>

-----------------------------------------------------------------------------
(* Worker threads *)

WorkerHasNothing(s) ==
  IF BatchedMode THEN assigned[s] = NoJob /\ (~stopping \/ queue # <<>>)
                 ELSE queue = <<>> /\ ~stopping

WorkerSleep(s) ==
  /\ wpc[s] = "wait" /\ s \notin asleep /\ mu = Nobody
  /\ WorkerHasNothing(s)
  /\ asleep' = asleep \cup {s}
  /\ UNCHANGED <<slotVars, jobVars, liveVars, serverVars, mu, mainAsleep, pcVars>>

\* Mutant: slot->assigned is not reset.
TakeAssignedKept(s) ==
  /\ wpc[s] = "wait" /\ s \notin asleep /\ mu = Nobody
  /\ BatchedMode /\ assigned[s] # NoJob
  /\ held' = [held EXCEPT ![s] = assigned[s]]
  /\ wpc' = [wpc EXCEPT ![s] = "start"]
  /\ UNCHANGED <<assigned, busy, running, jobVars, liveVars, serverVars,
                 syncVars, cpc, mainpc>>

\* slot_worker_main takes what the dispatcher assigned.
TakeAssigned(s) ==
  /\ wpc[s] = "wait" /\ s \notin asleep /\ mu = Nobody
  /\ BatchedMode /\ assigned[s] # NoJob
  /\ held' = [held EXCEPT ![s] = assigned[s]]
  /\ assigned' = [assigned EXCEPT ![s] = NoJob]
  /\ wpc' = [wpc EXCEPT ![s] = "start"]
  /\ UNCHANGED <<busy, running, jobVars, liveVars, serverVars, syncVars, cpc, mainpc>>

\* worker_main/dequeue, when not batched: the head of the queue.
Dequeue(s) ==
  /\ wpc[s] = "wait" /\ s \notin asleep /\ mu = Nobody
  /\ ~BatchedMode /\ queue # <<>>
  /\ held' = [held EXCEPT ![s] = Head(queue)]
  /\ queue' = Tail(queue)
  /\ wpc' = [wpc EXCEPT ![s] = "start"]
  /\ UNCHANGED <<assigned, busy, running, jobVars, liveVars, stopRequested,
                 stopping, clients, syncVars, cpc, mainpc>>

\* Mutant: a worker leaves as soon as it is told to, the queue regardless.
WorkerExitAtOnce(s) ==
  /\ wpc[s] = "wait" /\ s \notin asleep /\ mu = Nobody
  /\ stopping
  /\ BatchedMode => assigned[s] = NoJob
  /\ wpc' = [wpc EXCEPT ![s] = "exited"]
  /\ UNCHANGED <<slotVars, jobVars, liveVars, serverVars, syncVars, cpc, mainpc>>

WorkerExit(s) ==
  /\ wpc[s] = "wait" /\ s \notin asleep /\ mu = Nobody
  /\ stopping /\ queue = <<>>
  /\ BatchedMode => assigned[s] = NoJob
  /\ wpc' = [wpc EXCEPT ![s] = "exited"]
  /\ UNCHANGED <<slotVars, jobVars, liveVars, serverVars, syncVars, cpc, mainpc>>

\* generate_job publishes the job to server_cancel_job ...
StartJob(s) ==
  /\ wpc[s] = "start"
  /\ running' = [running EXCEPT ![s] = held[s]]
  /\ wpc' = [wpc EXCEPT ![s] = "check"]
  /\ UNCHANGED <<assigned, busy, held, jobVars, liveVars, serverVars, syncVars,
                 cpc, mainpc>>

\* ... and skips the generation if the client has already left.
CheckCancelled(s) ==
  /\ wpc[s] = "check"
  /\ wpc' = [wpc EXCEPT ![s] = IF cancelled[held[s]] THEN "clear" ELSE "run"]
  /\ UNCHANGED <<slotVars, jobVars, liveVars, serverVars, syncVars, cpc, mainpc>>

\* generate_job_inner drops the slot's live state (a new prefix, an error, a
\* disconnect).  It takes tool_mu, not mu.
ForgetLive(s) ==
  /\ wpc[s] \in {"run", "answering"}
  /\ binding' = [binding EXCEPT ![s] = NoJob]
  /\ UNCHANGED <<slotVars, jobVars, answered, serverVars, syncVars, pcVars>>

\* generate_job_inner remembers the new tool calls, then sends them.
RememberLive(s) ==
  /\ wpc[s] = "run"
  /\ binding' = [binding EXCEPT ![s] = held[s]]
  /\ answered' = answered \cup {held[s]}
  /\ wpc' = [wpc EXCEPT ![s] = "answering"]
  /\ UNCHANGED <<slotVars, jobVars, serverVars, syncVars, cpc, mainpc>>

\* A streamed write to the client fails: the worker marks the job itself.
StreamWriteFails(s) ==
  /\ wpc[s] \in {"run", "answering"}
  /\ cancelled' = [cancelled EXCEPT ![held[s]] = TRUE]
  /\ UNCHANGED <<slotVars, done, detached, liveVars, serverVars, syncVars, pcVars>>

\* Mutant: the slot is released before its job is completed.
FinishInnerReleases(s) ==
  /\ wpc[s] \in {"run", "answering"}
  /\ busy' = [busy EXCEPT ![s] = FALSE]
  /\ wpc' = [wpc EXCEPT ![s] = "clear"]
  /\ UNCHANGED <<assigned, held, running, jobVars, liveVars, serverVars,
                 syncVars, cpc, mainpc>>

\* generate_job_inner returns.
FinishInner(s) ==
  /\ wpc[s] \in {"run", "answering"}
  /\ wpc' = [wpc EXCEPT ![s] = "clear"]
  /\ UNCHANGED <<slotVars, jobVars, liveVars, serverVars, syncVars, cpc, mainpc>>

ClearRunning(s) ==
  /\ wpc[s] = "clear"
  /\ running' = [running EXCEPT ![s] = IF @ = held[s] THEN NoJob ELSE @]
  /\ wpc' = [wpc EXCEPT ![s] = "complete"]
  /\ UNCHANGED <<assigned, busy, held, jobVars, liveVars, serverVars, syncVars,
                 cpc, mainpc>>

\* job_complete: the worker's last use of the pointer.
WorkerComplete(s) ==
  /\ wpc[s] = "complete"
  /\ done' = [done EXCEPT ![held[s]] = TRUE]
  /\ held' = [held EXCEPT ![s] = NoJob]
  /\ wpc' = [wpc EXCEPT ![s] = IF BatchedMode THEN "release" ELSE "wait"]
  /\ UNCHANGED <<assigned, busy, running, cancelled, detached, liveVars,
                 serverVars, syncVars, cpc, mainpc>>

ReleaseSlot(s) ==
  /\ wpc[s] = "release" /\ mu = Nobody
  /\ busy' = [busy EXCEPT ![s] = FALSE]
  /\ mu' = s
  /\ wpc' = [wpc EXCEPT ![s] = "redispatch"]
  /\ UNCHANGED <<assigned, held, running, jobVars, liveVars, serverVars, asleep,
                 mainAsleep, cpc, mainpc>>

ReleaseEnd(s) ==
  /\ wpc[s] = "redispatch"
  /\ DispatchEnds(s)
  /\ wpc' = [wpc EXCEPT ![s] = "wait"]
  /\ UNCHANGED <<slotVars, jobVars, liveVars, serverVars, asleep, mainAsleep,
                 cpc, mainpc>>

-----------------------------------------------------------------------------
(* The main thread and the signal handler *)

SpawnWorker(s) ==
  /\ mainpc = "spawn" /\ wpc[s] = "unborn"
  /\ wpc' = [wpc EXCEPT ![s] = "wait"]
  /\ UNCHANGED <<slotVars, jobVars, liveVars, serverVars, syncVars, cpc, mainpc>>

Listen ==
  /\ mainpc = "spawn"
  /\ \A s \in Slot : wpc[s] # "unborn"
  /\ mainpc' = "accept"
  /\ UNCHANGED <<slotVars, jobVars, liveVars, serverVars, syncVars, cpc, wpc>>

\* A slot worker cannot be started, or the port cannot be opened: the workers
\* that did start are stopped and joined.  (There is no client to drain.)
StartupFails ==
  /\ mainpc = "spawn" /\ mu = Nobody
  /\ BatchedMode \/ \A s \in Slot : wpc[s] # "unborn"
  /\ stopping' = TRUE
  /\ mu' = Main
  /\ mainpc' = "stopping"
  /\ UNCHANGED <<slotVars, jobVars, liveVars, queue, stopRequested, clients,
                 asleep, mainAsleep, cpc, wpc>>

\* The handler only sets the flag: no condition variable is broadcast.
StopSignal ==
  /\ ~stopRequested
  /\ stopRequested' = TRUE
  /\ UNCHANGED <<slotVars, jobVars, liveVars, queue, stopping, clients, syncVars,
                 pcVars>>

\* server_request_worker_stop
RequestWorkerStop ==
  /\ mainpc = "accept" /\ stopRequested /\ mu = Nobody
  /\ stopping' = TRUE
  /\ mu' = Main
  /\ mainpc' = "stopping"
  /\ UNCHANGED <<slotVars, jobVars, liveVars, queue, stopRequested, clients,
                 asleep, mainAsleep, cpc, wpc>>

\* Mutant: sleeping workers are not woken.
RequestWorkerStopUnheard ==
  /\ mainpc = "stopping"
  /\ DispatchEnds(Main)
  /\ mainpc' = "join"
  /\ UNCHANGED <<slotVars, jobVars, liveVars, serverVars, asleep, mainAsleep,
                 cpc, wpc>>

RequestWorkerStopEnd ==
  /\ mainpc = "stopping"
  /\ DispatchEnds(Main)
  /\ asleep' = {}
  /\ mainpc' = "join"
  /\ UNCHANGED <<slotVars, jobVars, liveVars, serverVars, mainAsleep, cpc, wpc>>

JoinWorkers ==
  /\ mainpc = "join"
  /\ \A s \in Slot : wpc[s] \in {"unborn", "exited"}
  /\ mainpc' = "drain"
  /\ UNCHANGED <<slotVars, jobVars, liveVars, serverVars, syncVars, cpc, wpc>>

DrainSleep ==
  /\ mainpc = "drain" /\ mu = Nobody /\ ~mainAsleep
  /\ clients > 0
  /\ mainAsleep' = TRUE
  /\ UNCHANGED <<slotVars, jobVars, liveVars, serverVars, mu, asleep, pcVars>>

\* No client left: persist the resident sessions and free the server.
CloseResources ==
  /\ mainpc = "drain" /\ mu = Nobody /\ ~mainAsleep
  /\ clients = 0
  /\ mainpc' = "closed"
  /\ UNCHANGED <<slotVars, jobVars, liveVars, serverVars, syncVars, cpc, wpc>>

-----------------------------------------------------------------------------

CancelStep(j) ==
  \/ CancelQueued(j) \/ CancelAssigned(j) \/ CancelAssignedEnd(j)
  \/ CancelTaken(j) \/ CancelModel(j) \/ CancelComplete(j)

ClientStep(j) ==
  \/ ClientWithoutJob(j) \/ EnqueueRefused(j) \/ Enqueue(j) \/ EnqueueEnd(j)
  \/ SeeDone(j) \/ StillConnected(j) \/ CancelStep(j) \/ ClientDone(j)

WorkerStep(s) ==
  \/ WorkerSleep(s) \/ TakeAssigned(s) \/ Dequeue(s) \/ WorkerExit(s)
  \/ StartJob(s) \/ CheckCancelled(s) \/ FinishInner(s) \/ ClearRunning(s)
  \/ WorkerComplete(s) \/ ReleaseSlot(s) \/ ReleaseEnd(s)

\* What generate_job_inner may do on its way, any number of times.
GenerateStep(s) == ForgetLive(s) \/ RememberLive(s) \/ StreamWriteFails(s)

MainStep ==
  \/ Listen \/ RequestWorkerStop \/ RequestWorkerStopEnd \/ JoinWorkers
  \/ DrainSleep \/ CloseResources

\* The process has exited: the only way for the server to stop.
Exited ==
  /\ mainpc = "closed"
  /\ UNCHANGED vars

Next ==
  \/ \E j \in Job : Accept(j) \/ ClientStep(j) \/ PollTimeout(j) \/ MarkCancelled(j)
  \/ \E s \in Slot : SpawnWorker(s) \/ WorkerStep(s) \/ GenerateStep(s)
  \/ DispatchOne
  \/ MainStep \/ StartupFails
  \/ StopSignal
  \/ Exited

Spec == Init /\ [][Next]_vars

\* Every thread that can run does.  Requests need not arrive, sockets need
\* not hang up and nobody has to send a signal.  A generation ends because it
\* is bounded by its token budget (ModelGate), hence FinishInner is fair.
Fairness ==
  /\ WF_vars(DispatchOne)
  /\ \A j \in Job : WF_vars(ClientStep(j))
  /\ \A s \in Slot : WF_vars(SpawnWorker(s)) /\ WF_vars(WorkerStep(s))
  /\ WF_vars(MainStep)

FairSpec == Spec /\ Fairness

-----------------------------------------------------------------------------
(* Properties *)

\* Types of the variables.
TypeOK ==
  /\ queue \in Seq(Job)
  /\ assigned \in [Slot -> Job \cup {NoJob}]
  /\ busy \in [Slot -> BOOLEAN]
  /\ held \in [Slot -> Job \cup {NoJob}]
  /\ running \in [Slot -> Job \cup {NoJob}]
  /\ binding \in [Slot -> Job \cup {NoJob}]
  /\ answered \in SUBSET (Job \cup {NoJob})
  /\ cancelled \in [Job -> BOOLEAN]
  /\ done \in [Job -> BOOLEAN]
  /\ detached \in [Job -> BOOLEAN]
  /\ stopRequested \in BOOLEAN
  /\ stopping \in BOOLEAN
  /\ clients \in Nat
  /\ mu \in Thread \cup {Nobody}
  /\ asleep \in SUBSET Slot
  /\ mainAsleep \in BOOLEAN
  /\ cpc \in [Job -> ClientPC]
  /\ wpc \in [Slot -> WorkerPC]
  /\ mainpc \in MainPC

Queued(j) == \E i \in 1..Len(queue) : queue[i] = j
AssignedTo(j, s) == assigned[s] = j
HeldBy(j, s) == held[s] = j

\* Has a scheduler structure or a worker a pointer to j?
Referenced(j) ==
  \/ Queued(j)
  \/ \E s \in Slot : assigned[s] = j \/ held[s] = j \/ running[s] = j

\* A job is in one place: once in the queue, or assigned to one slot, or held
\* by one worker (enqueue, dispatch_jobs_locked, slot_worker_main and
\* server_cancel_job all move the same pointer).
OneOwner ==
  /\ \A i, k \in 1..Len(queue) : queue[i] = queue[k] => i = k
  /\ \A j \in Job, s \in Slot :
       /\ AssignedTo(j, s) => ~Queued(j) /\ \A t \in Slot : held[t] # j
       /\ HeldBy(j, s) => ~Queued(j)
       /\ \A t \in Slot : t # s => /\ AssignedTo(j, s) => assigned[t] # j
                                   /\ HeldBy(j, s) => held[t] # j

\* The job lives on its client's stack: once client_main has left
\* wait_for_job_or_disconnect (or never enqueued), no queue, slot or worker
\* may still point to it.
NoDanglingJob ==
  \A j \in Job : cpc[j] \in {"absent", "reading", "closing", "gone"} => ~Referenced(j)

\* A job is completed once: whoever may still call job_complete on it finds
\* it incomplete, and a client that detached its job competes with no worker.
CompletedOnce ==
  /\ \A s \in Slot : held[s] # NoJob => ~done[held[s]]
  /\ \A j \in Job :
       cpc[j] \in {"detaching", "completing"} \/ (cpc[j] = "cancel_model" /\ detached[j])
         => ~done[j] /\ ~Referenced(j)

\* The dispatcher scores an idle slot by reading its session without the
\* inference lock (job_slot_score): no worker may be using that session.
IdleSlotIsQuiet ==
  BatchedMode => \A s \in Slot : ~busy[s] =>
    /\ assigned[s] = NoJob /\ held[s] = NoJob /\ running[s] = NoJob
    /\ wpc[s] \in {"unborn", "wait", "redispatch", "exited"}

\* A worker that has exited leaves no work behind, neither its own nor queued.
NoStrandedWork ==
  \A s \in Slot : wpc[s] = "exited" =>
    /\ queue = <<>> /\ assigned[s] = NoJob /\ held[s] = NoJob
    /\ \A j \in Job : cpc[j] # "enqueuing"

\* A request never goes to another slot than the one whose live state knows
\* its tool calls, from dispatch to the start of its generation.
ContinuationOnItsSlot ==
  \A j \in Job, s, t \in Slot :
    /\ Continues[j] # NoJob
    /\ AssignedTo(j, s) \/ (HeldBy(j, s) /\ wpc[s] \in {"start", "check"})
    /\ binding[t] = Continues[j]
    => s = t

\* "FIFO among jobs that can run now": a job is dispatched past an earlier one
\* only if the earlier one waits for the slot of its own conversation.
FifoAmongRunnable ==
  [][\A i, k \in 1..Len(queue) :
       /\ i < k
       /\ \E s \in Slot : assigned[s] = NoJob /\ assigned'[s] = queue[k]
       => \E s \in RequiredSlots(queue[i]) : busy[s]]_vars

\* Every accepted client gets its answer (or its refusal) and leaves.
EveryClientLeaves == \A j \in Job : cpc[j] = "reading" ~> cpc[j] = "gone"

\* After a stop signal, which wakes nobody, the server drains and exits.
ShutdownCompletes == stopRequested ~> mainpc = "closed"

-----------------------------------------------------------------------------
(* The inductive invariant behind OneOwner, NoDanglingJob, CompletedOnce,  *)
(* IdleSlotIsQuiet and NoStrandedWork (proved in ServerSchedProofs).       *)

Holding == {"start", "check", "run", "answering", "clear", "complete"}
Published == {"check", "run", "answering", "clear"}
Waiting == {"enqueuing", "waiting", "polled", "cancel", "cancel_model"}

\* A worker holds a job, and shows it in slot->running, by program counter.
SlotShape ==
  \A s \in Slot :
    /\ held[s] # NoJob <=> wpc[s] \in Holding
    /\ running[s] = IF wpc[s] \in Published THEN held[s] ELSE NoJob

\* What makes a slot busy.
SlotBusy ==
  \A s \in Slot :
    /\ assigned[s] # NoJob => BatchedMode /\ wpc[s] \in {"unborn", "wait", "redispatch"}
    /\ BatchedMode => (busy[s] <=> assigned[s] # NoJob
                                    \/ wpc[s] \in Holding \cup {"release"})

Detached(j) ==
  \/ cpc[j] \in {"detaching", "completing"}
  \/ cpc[j] = "cancel_model" /\ detached[j]

\* The client of a job that is still referenced waits for it, and has not
\* detached it; the job is incomplete.
ReferencedIsAwaited ==
  \A j \in Job : Referenced(j) => ~done[j] /\ cpc[j] \in Waiting /\ ~Detached(j)

\* Nobody completes a job before it is enqueued, or after its client took it
\* back; the client decides to detach only under mu.
NotYetDone ==
  \A j \in Job :
    /\ cpc[j] \in {"absent", "reading"} \/ Detached(j) => ~done[j]
    /\ cpc[j] = "cancel" => ~detached[j]

\* A client in the dispatch loop of enqueue is inside mu.
EnqueueHoldsMu == \A j \in Job : cpc[j] = "enqueuing" => mu = j

ExitedIsFinal ==
  \A s \in Slot : wpc[s] = "exited" =>
    stopping /\ queue = <<>> /\ \A j \in Job : cpc[j] # "enqueuing"

SchedInv ==
  /\ TypeOK /\ OneOwner /\ SlotShape /\ SlotBusy
  /\ ReferencedIsAwaited /\ NotYetDone /\ EnqueueHoldsMu /\ ExitedIsFinal

(* What ContinuationOnItsSlot needs besides SchedInv.                      *)

\* A request whose calls have been sent is past its own dispatch for good.
AnsweredIsOver ==
  \A j \in answered \cap Job :
    /\ cpc[j] \notin {"absent", "reading"} /\ ~Queued(j)
    /\ \A s \in Slot : /\ assigned[s] # j
                       /\ held[s] = j => wpc[s] \notin {"start", "check", "run"}

\* Live states remember calls that have been sent, no two of them the same.
BindingsAreAnswered ==
  \A s \in Slot : binding[s] # NoJob =>
    binding[s] \in answered /\ \A t \in Slot : binding[t] = binding[s] => t = s

\* Nobody answers calls before they have been sent.
FollowsAnswer ==
  \A j \in Job : cpc[j] # "absent" /\ Continues[j] # NoJob => Continues[j] \in answered

RouteInv ==
  AnsweredIsOver /\ BindingsAreAnswered /\ FollowsAnswer /\ ContinuationOnItsSlot

-----------------------------------------------------------------------------
(* Refinement *)

PhaseOf(j) ==
  IF cpc[j] \in {"absent", "reading"} THEN "new"
  ELSE IF \E s \in Slot : held[s] = j THEN "serving"
  ELSE IF Queued(j) \/ \E s \in Slot : assigned[s] = j THEN "taken"
  ELSE IF done[j] \/ detached[j] THEN "finished" ELSE "refused"

\* No job gets lost: while its client waits it is referenced, completed, or
\* taken back by the client.
NothingLost ==
  \A j \in Job :
    /\ cpc[j] \in Waiting => Referenced(j) \/ done[j] \/ Detached(j)
    /\ cpc[j] \in {"absent", "reading"} => ~detached[j]
    /\ cpc[j] \in {"detaching", "completing"} => detached[j]

Service == INSTANCE JobService WITH
  phase <- [j \in Job |-> PhaseOf(j)],
  serving <- held,
  open <- ~stopping

\* The scheduler implements JobService, its fairness included.
ImplementsJobService == Service!FairSpec

=============================================================================
