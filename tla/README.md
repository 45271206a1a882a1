# A verification of ds4

TLA+ models of the concurrent core of ds4 (ArgoDrive), an inference server and
coding agent for large language models, with the TLC runs that check them and TLAPS proofs about
them. File and line references are to the repository (`src/`); `PROJECT.json`
gives the source lines of every definition.

## 1. The system

| Part | State it keeps | Operations | Interaction |
|---|---|---|---|
| Scheduler (`ds4_server.c`) | the job queue, per slot `assigned`, `busy`, `running`; client count; `stopping` | `enqueue`, `dispatch_jobs_locked`, `slot_worker_main`, `worker_main`, `server_cancel_job`, `client_main`, startup and shutdown in `main` | one thread per client, one worker per slot, `main`; mutex `mu`, condition variables `cv`, `clients_cv` |
| Executor admission (`ds4_server.c`) | `model_busy`, `decode_pending`, `active_generations`, `last_prefill_slot`, per slot `prefill_waiting` and the decode mailbox | `server_prefill_enter/leave`, `server_eval_token`, `decode_worker_main`, `server_generation_enter/leave` | slot workers and the decode worker; mutexes `model_mu`, `inference_mu`; `model_cv` |
| Request execution and live bindings (`ds4_server.c`) | per slot the session's tokens, the live tool state, the visible transcript, the thinking checkpoint | `generate_job_inner`, `*_live_remember`, `*_live_clear`, `canonicalize_tool_checkpoint` | read by the dispatcher under `tool_mu` |
| Tool memory, image cache (`ds4_server.c`) | bounded LRUs | put, get, evict | `tool_mu`; `inference_mu` |
| HTTP, request parsing, rendering, streaming (`ds4_server.c`) | per request | text in, text out | sockets |
| Disk KV cache (`ds4_kvstore.c`) | checkpoint files, hit counters, a byte budget | store (temporary file, rename), rewrite a tool map in place, load, evict, discard | called by workers under `kv_mu`; files outlive the process |
| Session and engine (`ds4.c`) | tokens, position, KV rows | sync, eval, batch eval, rewind, invalidate, speculative decoding | called under `inference_mu` |
| Distributed inference (`ds4_distributed.c`) | the registry of workers, route plans, worker sessions, in-flight activations | register, plan, evaluate, forward, recover, reconnect | TCP between coordinator and workers; a thread per connection |
| Tensor parallelism (`ds4_tp.c`, `ds4.c`) | a mirrored session, gate counters, failure flags | commands, gates, cancellation votes, acknowledgements | leader and worker over TCP or RDMA |
| Expert streaming, decode (`ds4_metal.m`, `ds4.c`) | entries, buffers, epochs, the pending load | select, load, join, evict, prune, read ahead | main thread, service thread, read pool, GPU |
| Expert streaming, prefill (`ds4_metal.m`, `ds4.c`) | a job, two sets of buffers, a state array per parity | install, hint, claim, read, await | lock-free reader lanes, main thread, GPU |
| Argodrive reads (`argodrive_read.h`) | a read plan | `ar_plan`, `ar_exact`, `ar_complete`, `ar_read` | called by the expert and engram readers |
| Engram reader (`ds4_engram.c`) | a table file | hash, batched read | a parallel loop |
| Layer packing, SSD plan, prompt prefix, GPU arguments | none | pure functions | |
| Agent (`ds4_agent.c`) | a worker's command, requests and status; a prompt queue | submit, defer, interrupt, approve, drain, save, leave | one worker thread and a terminal or headless loop; mutex `mu`, `cond`, a wake pipe |
| CLI, bench, eval, web, image decoding | | front ends | |
| GPU back ends, vendored `rax.c`, `linenoise.c`, `third_party/`, `cuda/mmq` | | | |

What is hard in it, and where: threads hand over a *stack-owned* job whose owner
may leave at any moment (14057, 14322, 14334); the dispatcher reads sessions
without their lock (13928); three threads keep one counter (12408); a signal
handler that wakes nobody must still end every wait (57); main, workers and
clients wait for one another in a circle at shutdown (15167, 15175); a binding is
trusted by position alone (11000); a checkpoint is rewritten in the only copy
(`ds4_kvstore.c:898`); two ranks each keep their own counter of the gates
(`ds4_tp.c:1967`); a descriptor is closed under a thread that polls its number
(`ds4_distributed.c:2121`); reader lanes know by a generation alone for which
job they read (`ds4_metal.m:13525`); worker and front end of the agent share a
session by looking at a status (`ds4_agent.c:10914`). The complete list, each at
its line with the properties that would catch it, is under `hazards` in
`PROJECT.json`.

What makes each part correct, in a sentence: the *scheduler* never loses,
doubles or outlives a job, and ends; the *admission* lets one executor run at a
time and starves nobody; a *binding* names the session state it was taken from;
the *disk cache* answers with what was stored under the text, whatever crashed;
a *distributed call* that succeeds has evaluated its own tokens on every worker,
and returns; the ranks of a *tensor-parallel pair* stay mirrored; a *kernel*
finds in its buffers the experts it was encoded for; the *agent's* session has
one user at a time, and its prompts reach the model once.

## 2. Modules

| Module | Part | Promise it implements |
|---|---|---|
| `ServerSched` | scheduler | `JobService` |
| `ModelGate` | executor admission | |
| `LiveBinding` | request execution of one slot | uses what `PrefixCache` promises |
| `KvStore` | disk KV cache | `PrefixCache` |
| `TensorParallel` | a pair of ranks | |
| `DistSession` | calls over a route of workers | |
| `DistRegistry` | registration and route search | |
| `PrefillReader` | expert reads during prefill | |
| `ExpertCache` | expert cache during decode | |
| `AgentWorker` | agent | |

A module `MC...` gives a module its constants, a module `...Proofs` holds its
theorems, those about `TensorParallel` in `DistributionProofs`.

### The scheduler

`JobService` is the abstract promise to a client: a request that is taken is
served by one slot or abandoned, and finishes once; a slot serves one request at
a time; after closing, nothing new is taken and everything taken finishes.

The state of `ServerSched`:

| Variable | Code |
|---|---|
| `queue` | the list from `s->head` to `s->tail` |
| `assigned`, `busy`, `running` | the fields of `server_slot` |
| `held` | a worker's local `j`, from taking a job to `job_complete` |
| `binding`, `answered` | the live tool state of a slot, by the request that made it; the requests whose calls have been sent |
| `cancelled`, `done` | the fields of `job`; `detached` is the local of `server_cancel_job` |
| `stopRequested`, `stopping`, `clients` | `g_stop_requested`, `s->stopping`, `s->clients` |
| `mu`, `asleep`, `mainAsleep` | the mutex where it is held over several steps; the workers blocked on `cv`; main blocked on `clients_cv` |
| `cpc`, `wpc`, `mainpc` | program counters |

A critical section of `mu` is one step unless it contains
`dispatch_jobs_locked`: that loop releases and takes `tool_mu` in each round and
workers change live bindings under `tool_mu` alone. So the section keeps `mu`
over several steps: one to enter (`Enqueue`, `CancelAssigned`, `ReleaseSlot`,
`RequestWorkerStop`), one for each job placed (`DispatchOne`), one to leave
(`...End`, which waits until no queued job can be placed).
`pthread_cond_wait` is a step that adds the worker to `asleep`, and only a
broadcast empties that set, so that a lost wake-up is visible. A signal to the
single worker of the unbatched server is the same as a broadcast.

The score that ranks eligible slots depends on token contents; any eligible slot
may win. A continuation (`Continues[j] = i`) answers the tool calls of request
`i` and may arrive once these have been sent. `generate_job_inner` is one worker
phase in which the live state may be dropped, remembered (then the answer is
sent) and the job marked as cancelled by a failed write; what it does to the
executor is in `ModelGate`. A worker thread that cannot be started, or a port
that cannot be opened, is `StartupFails`. A client thread that cannot be started
is uncounted at once, which is as if the client had not connected.

### ModelGate

A slot worker goes through `generate_job`: it reads the position of its session,
prefills in quanta, may store, load, rewind or invalidate the session under
`inference_mu` alone, then asks for one token at a time from the decode worker.
`decode_pending`, `decode_in_flight` and `decode_done` are the mailbox between
them (`slotPending`, `inFlight`, `decodeAnswer`, the last with the result while
`decode_done` is set). `inference` is the owner of `inference_mu`; the mutex is
recursive, and the checkpoints that the prefill's progress callback stores run
inside `PrefillRun`. `Encoders` are client threads that encode images under
`inference_mu` before their request is queued. `asleep` works as above, for
`model_cv`. Entering a wait loop and testing its predicate are two steps, a
behaviour that POSIX allows by spurious wake-ups. The 2 ms coalescing wait may
end at any moment.

`withdrawn` and `passedBy` are history variables: whether `server_cancel_job`
has been through `model_mu` for the slot's job, and which slots have been
granted a quantum since a slot began to wait.

`RequestProofs` has the theorems about its states and its steps. Jobs arrive at
a slot without the scheduler, which gives every order of jobs the scheduler can
give and more.

### LiveBinding

One slot across requests. A session holds more than a client replays (reasoning,
the exact spelling of sampled tool calls), so the server remembers, after an
answer, the position of the session with the transcript the client will replay
or the ids of the calls it was sent: `responses`, `anthropic`, `thinking` are
the three live states of a `server_slot`. `Source` is the order in which
`generate_job_inner` looks for cached tokens; `Start`, `StoreCurrent`,
`LoadDisk`, `Prefilled`, `Generate`, `Publish`, `Canonicalize`, `Send` are its
phases, and `PrefillFails`, `PrefillCancelled`, `CancelledInDecode`,
`StopSequence`, `Truncated` its other ends. Text is a sequence of letters;
`Thought` and `Noise` are tokens a client does not replay, and `Agreed` is what
both sides see (`Only` keeps the tokens of a set). The disk cache is the table
`PrefixCache` promises. `RequestProofs` has its theorems too; for its sake the
initial condition and the next-state relation are named `BindingInit` and
`BindingNext`.

### PrefixCache and KvStore

`PrefixCache` is the promise: a lossy table from texts to token histories, per
model. `KvStore` is the directory of `ds4_kvstore.c`: `files` are the `*.kv`
files with the tokens their payload holds, their size and what of it is
`durable`; `litter` is what dead processes left in temporary files; `job` and
`pc` are the local state of one `ds4_kvstore_store_live_prefix_text`. `Kill` and
`PowerLoss` may come between any two steps, and the process after them may have
another model or context. Sizes are counted in units, so that the two
interesting ends of a file (a byte short of the payload, and the trailer) exist.

### TensorParallel

Each rank turns a command of the leader into a list of steps from its *own*
session (`todo`; `sent` once its own part of the first one is written): gates,
cancellation votes, acknowledgements, halves of the logits, commits. The two lists differ where the ranks' sessions do. A gate is
matched as the code matches it, by a counter each rank keeps (`gateSeq`), with
`gateDead` for `g_tp_failed_flag`, `frames` for the control socket and `gates`
for the data socket. The activations of a token are represented by the tokens
they were computed for, and `pure` records whether every gate so far joined two
halves of the same computation. A worker that dies (`Crash`) is frozen where it
stands: what it has sent can still be read, then both sockets are at their end.
(A reset connection may also lose what was sent; the leader then sees the end
sooner, as if the worker had died earlier.)

### DistSession and DistRegistry

`DistSession` is the life of a call: `Sync`, `Eval`, spans that are sent to the
first worker (`EvalSpan`, or `Produce`, `ReadAhead`, `Join` with several chunks
in flight), `Serve` on a worker, which checks position and prefix hash, forwards
and answers, `Relay` on the first worker on behalf of the second one, then
`Receive` and `Finish`, or recovery: `Refused`, `Forget`, `Reroute`, `GiveUp`.
The environment cuts a connection, drops what is queued in it, kills a worker, or
lets the monitor of the registry notice a dead connection. `Rejoin` is a worker
that comes back with no sessions.

`DistRegistry` is the thread per connection (`AddWorker`, `HelloFails`,
`Notice`, `RemoveWorker`, `Close`), the registry and its generation, the route
search (`Search`, `Paths`), `dist_session_ensure_route` (`Ensure`) and
`forget_route_workers` (`Forget`). Descriptors are numbers the system hands out
again, lowest first.

### PrefillReader

The reader of Argodrive fills one of two sets of buffers with the next layer's
experts while the GPU computes the current one. Lanes claim an expert by
compare-and-swap in one of two state arrays, chosen by the parity of the job's
generation. The fields of `ar_rd` are variables of their names, written in the
order of `ar_rd_install_job` (`Install`, `InstallSet`, `InstallFields`,
`InstallGen`); a lane's loads (`gen`, the index, the fields, the claim, the check
of the generation, the read, the publication) are steps of `Lane`. Neither side
waits for the other: a lane may load, claim, read and publish while a job is
installed, and lag behind any number of them (`Late`). Two history variables
serve the properties only: `begun`, the experts a lane has begun to read for the
current job, and `strays`, the experts a late lane has laid hands on, with the
job that was the newest then.

### ExpertCache

The decode-time cache of the Metal back end. `entry` is
`g_stream_expert_cache`, `content` what a buffer really holds, `load` the
pending load, `seq` the epochs that tell which buffers a command buffer may
still read, `gpu` the open, the queued and the held command buffer, `call` the
load in progress by either thread. Three schedules are modelled: the service
thread, the mailbox with read-ahead, and the mailbox with a held command buffer.

### AgentWorker

The worker thread of `ds4_agent.c` (`wpc`) and its front end (`upc`), terminal
or headless. The fields of `struct agent_worker` are variables of their names;
`want` is the set of `*_requested` flags; `"busy"` stands for PREFILL,
GENERATING, COMPACTING, SAVING and DRAINING, which no guard tells apart.
`WorkerStep` covers start-up, waiting, deferred jobs (thinking, power, save,
compact), a turn with its rounds, tools, questions to the user and the hand-over
of queued prompts, and the end; `UiStep` the poll loops, the queue, commands,
saving, switching, leaving. A prompt is a number, so that `told`, the transcript,
shows loss, duplication and order.

## 3. Runs

Twelve runs. Each property has a mutant of a mapped definition (a dropped guard,
a missing reset, a missing broadcast, a swapped order) that its run reports; the
mutants stand in the modules, before the definitions they replace.

| Run | Instance | Shows | States |
|---|---|---|---|
| `sched_safety` | 3 requests (one continues another), 2 slots | `OneOwner`, `NoDanglingJob`, `CompletedOnce`, `IdleSlotIsQuiet`, `NoStrandedWork`, `ContinuationOnItsSlot`, `FifoAmongRunnable` | 3.9 M |
| `sched_live` | a request and its continuation, 2 slots | `ShutdownCompletes`, and `ImplementsJobService`: every behaviour, with its fairness, is one of `JobService` | 102 k |
| `sched_single` | 2 requests, the unbatched server | `EveryClientLeaves` when the one worker takes the head of the queue | 35 k |
| `gate` | 2 slots, 2 units of work a job, an encoder | `OneExecutor`, `TokenInOnePlace`, `BatchOwnsItsSessions`, `CancelledJobRunsNothingNew`, `NoSlotPassedTwice`, `EveryJobEnds` | 266 k |
| `live` | 2 requests of three protocols with canonical tool calls and a rewinding back end, or 3 with exact replay | `AnswersItsRequest`, `BindingFollowsSession`, `AnswerIsContinuable` | 4.5 M |
| `kv` | histories that extend one another, one with a thought; 3 engines; one crash | `HitAnswersPrompt`, `RewriteKeepsPayload`, `ImplementsPrefixCache` | 1.3 M |
| `tp` | 2 sessions, 3 commands: a healthy pair, one whose worker may die, one whose gates also time out and whose syncs fail on one rank; 1 session, 4 commands, evaluations that fail on the leader alone | `LogitsAgree`, `PairInStep`, `LeaderReturns` | 468 k |
| `dist` | 2 workers, one fault; chunk by chunk with two prompts that fork, pipelined with two chunks in flight | `CallsExact`, `CallsReturn`, `RetrySucceeds` | 548 k |
| `routes` | 4 workers with overlapping ranges, 3 connections, a forgotten route | `SearchFindsRoute`, `RegistryHolds` | 134 k |
| `reader` | 2 lanes, 2 experts, 3 jobs, lanes as late as they like, reads and the GPU may fail | `KernelsReadTheirLayer`, `ReadOnce`, `StageEnds` | 2.1 M |
| `cache` | 2 layers of 3 experts, 2 chosen, 2 tokens, four settings, failing reads, a budget below one token | `BuffersHold`, `TokenIsExact`, `TokensEnd` | 782 k |
| `agent` | stdin, one-shot and four terminals with different commands; a failing engine | `OneUserOfTheSession`, `PromptsKept`, `InterruptEndsTurn`, `ShutsDown` | 339 k |

Some properties are conjunctions of facts that belong together and would be
checked on the same instance: `CallsExact` (the slices hold what they say, and a
call's logits are its own), `PairInStep` (the sessions are mirrored, and a
cancellation does not cost the pair), `RegistryHolds` (a plan names registered
workers, an entry's descriptor leads to its worker), `BuffersHold` (buffers are
not overwritten under a kernel, epochs are sound, command buffers are in order,
a buffer has one owner), `PromptsKept` (each prompt is in one place, and none
left behind).

### Bounds

- *Scheduler.* Three jobs are the fewest with which one is overtaken in the
  queue by two others, and a queued job is unlinked from the middle or the tail
  while the slots are taken. Two slots are the fewest where a continuation must
  wait for its slot while another one is idle. `SYMMETRY` permutes the slots
  only, and no liveness is checked in that run; the liveness runs are smaller
  because the graph of all behaviours is searched for cycles.
- *Admission.* `MaxWork` bounds the quanta, tokens and stores of *one* job; a
  slot runs jobs without end. With two units a job prefills and then asks for a
  token, prefills twice, or stores in between, and a second job finds what the
  first one left. The cyclic turn among more than two slots is left to the proof
  of `NoSlotPassedTwiceCorrect`.
- *Bindings.* Two requests suffice for a binding to be taken and used, three for
  a conversation that another one has displaced in between. The context is short
  enough that answers run out of it.
- *Disk cache.* `Budget` holds the larger checkpoint with its trailer, not
  everything. A crash between any two steps and a second engine need one crash;
  the second one of `KvStore_litter.cfg` only adds litter.
- *Tensor parallelism.* Three commands: one that differs on the ranks, one that
  meets what the first one left, and another session's. A sync has up to two
  chunks, so that a vote lies between them.
- *Distributed.* `MaxLen` holds a prompt of two chunks and two more tokens; one
  fault, then retries. Two connections to the second worker are an old and a new
  one. Frames of a connection that was cut may survive or be lost.
- *Registry.* Three connections of four workers, with four descriptors, so that
  a number is handed out again while a thread still has it. The longest first
  range ends where nobody goes on, which makes the search backtrack.
- *Prefill reader.* Three jobs, because a lane of the first one meets the third
  one in the state array of the same parity. What the router may choose is fixed
  per layer (`MCChosen`): not the guess, so that its read outlasts the layer; one
  of two or both; the guess alone. One wave splits off what has landed already.
  The configurations run by hand leave the choice free.
- *Expert cache.* A layer needs two experts, a token four. The four settings:
  the service thread with a budget of four and failing reads; the same with three,
  below one token, where pruning may not end; the mailbox with read-ahead, and
  with a held command buffer, each with three, so that every layer replaces.
- *Agent.* Three prompts where they queue up, one where the front end's commands
  matter. The rounds of a turn are not bounded, so that only the interrupt ends a
  turn that goes on calling tools.

### Fairness

Every thread that can run does. `ServerSched`, `ModelGate`: weak fairness for
each client, worker, `main`, each slot and decode step; a generation ends because
its token budget ends it; a thread that waits for `inference_mu` gets it if it
becomes free again and again (strong fairness for `ReadPosition`, `PrefillLock`
and `BatchLock`). Requests need not arrive, clients need not hang up and no
signal need be sent. In `ModelGate` clients hang up only finitely often: nothing
orders the threads that contend for `model_mu`, and a client that hangs up for
ever at the worst moment could keep a slot from its turn. The arrival of a
request is fair because the socket has a receive timeout, and `accept` is taken
to return after a stop signal.

`KvStore`: none is assumed. `TensorParallel`: `LeaderStep` and
`WorkerStep`; a gate nobody answers times out. `DistSession`: the coordinator,
each worker connection, the relay and its end, and a worker that tries to
reconnect; `RetrySpec` adds that the caller tries again. There is *no* fairness
for `Monitor`: it polls with no events requested, which need not report the
plain end of a connection, so nothing may depend on it. `PrefillReader`: the
main thread and each lane, as every read returns. `ExpertCache`: the two
threads, the GPU, the read pool. `AgentWorker`: the worker and the front end,
with a bounded number of tokens a round and questions the user answers; strong
fairness for `TakeInput`, whose quiet period of 200 ms ends at some time though
typing restarts it.

### Behaviours the runs leave out

Some statements of the comments or the documentation do not hold of the code.
They are not runs of the project, and the hazards of `PROJECT.json` that they
stand for name no property; each has a configuration that shows the
behaviour, to be run by hand (`tlc -config X.cfg MC<module>.tla`; of the four
invariants in `AgentWorker_claims`, keep the one of interest).

| Configuration | Statement | What the code does |
|---|---|---|
| `LiveBinding_broken` | `LiveFrontierIsExact` | A prefill that fails (`ds4_server.c:12909`) does not clear the live states, as the cancelled branch does. A binding whose position the failed prompt happens to reach is then trusted. The invariants of run `live` exclude what follows such a failure (`broken`). |
| `KvStore_litter` | `DiskWithinBudget` | Temporary files of dead processes are neither counted nor removed (`ds4_kvstore.c:1055`). |
| `TensorParallel_evalfault` | `LogitsAgree` | A leader whose own evaluation fails does not read the worker's half of the logits (`ds4.c:72992`), and the evaluation of the next session takes it for its own. |
| `TensorParallel_verify` | `GateFailureAborts` | A speculative block does not ask whether a gate has failed (`ds4.c:74849`). |
| `DistSession_mismatch` | `CalmCallSucceeds` | A refusal in a pipelined prefill shuts the first hop down, and the replay on the same plan meets the dead descriptor (`ds4_distributed.c:3367`). |
| `DistSession_logits` | `LogitsAnswerCall` | The local slice has committed tokens the workers never answered for (5536); the same prompt again returns old logits. |
| `DistSession_callback` | `PlanOutlivesPrefill` | The progress callback can have the route plan replaced under a running prefill (4341). |
| `DistRegistry_forget` | `EntriesNameWorkers` | `forget_route_workers` closes a descriptor its thread will close again (2121). |
| `PrefillReader_hang` | `EveryStageEnds` | A lane between its loads while a job is installed spends an index of the new list on the old job (`ds4_metal.m:13525`). |
| `PrefillReader_stale` | `StaleStaysOld` | A read that outlasts a whole layer marks an expert of the job two later as landed (13551). |
| `PrefillReader_torn` | `StaleSlotUnused` | A lane copies half of the old and half of the new job's fields (13589). |
| `PrefillReader_open` | `SweepClosesItsStage` | A wave that cannot be encoded leaves the stage open (`ds4.c:41034`). |
| `ExpertCache_waits` | `ServiceNeverWaits` | With all victims in flight, the service thread commits the main thread's command buffer (`ds4_metal.m:17175`). |
| `ExpertCache_prune` | `EveryTokenEnds` | Pruning below the experts of one token does not end (17575). |
| `ExpertCache_torn` | `TokenIsExact` | A read fails after its kernel has been encoded into the held command buffer (9759). |
| `ExpertCache_leak` | `NoSlabLost` | A buffer released after a failed load is not given back to the slab (17911). |
| `AgentWorker_claims` | `SessionIsTheWorkers` | Work deferred to an idle worker (10851) leaves the status idle, and the front end may use the session (12928). |
| `AgentWorker_claims` | `NoStaleInterrupt` | Clearing the interrupt and publishing the status are two critical sections; the error path does not clear it (4361). |
| `AgentWorker_claims` | `BusyHasWork` | A failed `/new` or `/switch` leaves the status PREFILL (5144). |
| `AgentWorker_claims` | `FailureIsReported` | The headless loop takes ERROR for idle (12672), so a failed turn can end with exit status 0. |

What the runs still say beside these:

- Run `reader` puts no bound on how late a lane is. Its properties excuse single
  experts, not behaviours: `KernelsReadTheirLayer` those a late lane has taken,
  written or published while the layer's job or the one after it was the newest
  (`Strayed`), `StageEnds` a stage that waits for ever for an expert whose index a
  late lane has spent. `ReadOnce` holds without exception, as the comment at 13467
  promises.
- Run `cache` includes a budget below the experts of a token. `TokensEnd` says
  that every token ends unless the cache is stuck for ever as 17575 describes
  (`PruneStuck`: over such a budget, one of its experts in flight); reads that
  fail behind a held command buffer are left to `ExpertCache_torn`.
- Run `live` excuses what follows a prefill that failed half way (`broken`), run
  `routes` the descriptors after a route was forgotten; run `tp` lets the leader's
  evaluation fail only where one session is in use; run `dist` pipelines prompts
  of two chunks, without the disk cache's callback.
- In run `agent`, `OneUserOfTheSession` speaks of an agent with no work deferred,
  `InterruptEndsTurn` of an interrupt that comes after the turn has begun, and
  `PromptsKept` of order only headless; a prompt whose turn fails or is
  interrupted is set aside, which it counts as kept.

Further observations without a model of their own: canonicalization moves the
session after the Anthropic binding was taken, which is then not trusted; a
prefill that is cancelled after a disk hit unlinks the checkpoint, which was good
(`ds4_server.c:12881`); a payload that cannot be read keeps its file and is tried
again; an interrupt pressed between the submission of a prompt and the start of
its turn is cleared with it (`ds4_agent.c:9956`); on a terminal a prompt typed at
an idle worker overtakes those still queued (13124).

## 4. Proofs

`ServerSchedProofs` proves, for every set of requests and slots, batched or not:

- `TypeCorrect`: `Spec => []TypeOK`.
- `InvCorrect`: `Spec => []SchedInv`, the inductive invariant.
- `OneOwnerCorrect`, `NoDanglingJobCorrect`, `CompletedOnceCorrect`,
  `IdleSlotIsQuietCorrect`, `NoStrandedWorkCorrect`: the safety properties of
  the same names.
- `ContinuationOnItsSlotCorrect`, `FifoAmongRunnableCorrect`: where and in which
  order requests go.
- `NothingLostCorrect`: an accepted request is referenced, completed, or taken
  back by its client.
- `SchedulerImplementsService`: `Spec => Service!Spec`, the safety part of the
  refinement of `JobService`, step by step.

None of these properties is inductive. `NoDanglingJob`, for one, says that the
job of a client that has returned is referenced nowhere; this holds because a
job is referenced only while its client waits and has not seen `done`, which
holds because a detached job is unreferenced at once and a worker completes its
job with its last use of the pointer. `SchedInv` adds these facts:

- `SlotShape`, `SlotBusy`: what a worker holds, publishes in `slot->running` and
  marks busy, by its program counter;
- `ReferencedIsAwaited`: a referenced job belongs to a client that waits for it
  and has not detached it;
- `NotYetDone`: a referenced job, and one being detached, is not done;
- `EnqueueHoldsMu`: between linking a job and releasing it the client holds `mu`;
- `ExitedIsFinal`: once a worker has exited the queue is empty for good.

The step proof has a lemma for each kind of change to the pointers. `Unlink` and
`TailUnlinks` say what removing one element does to a queue in which no job is
twice, `Link` what appending does. `ClientInv` and `WorkerInv` carry the
invariant over the steps of a client or a worker that leave the pointers of
others alone; `EnqueueInv`, `DispatchOneInv`, `CancelQueuedInv`,
`CancelAssignedInv`, `DequeueInv`, `WorkerCompleteInv` and `WorkerMuInv` treat
the steps that move a job.

`ContinuationOnItsSlot` needs `RouteInv`: a live state remembers calls that have
been sent (`BindingsAreAnswered`), whoever sent them is past its generation
(`AnsweredIsOver`), and nobody answers calls before they have been sent
(`FollowsAnswer`), so that a generation never binds the calls which a request on
its way answers. `FifoAmongRunnable` follows from `SchedInv` and the choice of
the first eligible job. The refinement has a lemma for the steps of clients, of
workers, of the dispatcher and of main; `NothingLost` excludes that a request
which is still awaited looks refused. `SchedInv`, `RouteInv` and `NothingLost`
were checked with TLC on the instances of the runs before they were proved.

The proofs assume `ConstantsAssumption`: `NoJob`, `Main` and `Nobody` are no
jobs, no slots, and distinct; `Continues` maps each job to a job or `NoJob`;
the unbatched server has one slot. TLC evaluates it in every run.

`RequestProofs` proves of the executor admission, for any number of slots and
encoders and any bound on the work of a job:

- `GateTypeCorrect`, and `GateInvariant`: `Spec => []GateInv`, the inductive
  invariant, which stands at the end of `ModelGate`.
- `OneExecutorCorrect`, `CountersCorrect` (`PendingIsCounted` and
  `GenerationsAreCounted`), `TokenInOnePlaceCorrect`,
  `BatchOwnsItsSessionsCorrect`, `DecoderLeavesNobodyCorrect`,
  `CancelledJobQueuesNothingCorrect`.
- `BlockedForAReasonCorrect`: no wake-up is lost.
- `NoSlotPassedTwiceCorrect`, `CancelledJobRunsNothingNewCorrect`: the two
  action properties.

`GateInv` adds to the properties: `PromptHasWork` (a bound of the model, for the
types), `InferenceIsOwned` (who holds `inference_mu`, by program counter, so that
a batch and a store never meet in a session), `WaitingIsShown` and
`OnlyWaitersSleep` (only a slot in one of the two wait loops waits for a turn or
sleeps), `WithdrawnIsCancelled`, and `StoppedIsIdle` (main stops the decode
worker after the last job, so that it leaves nobody). The step proof has one
lemma for each group of properties that depend on the same variables, with one
step per action. The counters follow from `CountAdd` and `CountRemove`: adding
or taking one slot changes the cardinality by one. Lost wake-ups come down to
`StillWaits`: a step that does not broadcast either leaves a waiting slot's
predicate alone, or makes the executor busy, or interrupts the slot.

Round robin needs an invariant over the cyclic order. `Turns(a, b)` is the
number of turns from slot `a` to slot `b`; `NextIsFirst` shows that
`NextPrefillSlot` picks the waiting slot with the fewest turns after the last
one served; `PassedComeLater` says that whoever has passed a waiting slot is
further away than the slot itself, and every grant keeps it (`PassedStep`).
`GateInv` was checked with TLC on the instance of `gate` before it was proved. The
proofs assume `GateAssumption`: at least one slot, at least one unit of work, and
names that are no slots and distinct.

`RequestProofs` proves of one slot across requests, for every alphabet, context,
set of clients and conversations and any number of requests:

- `LiveTypeCorrect`, and `LiveInvariant`: `BindingSpec => []LiveInv`, the
  inductive invariant at the end of `LiveBinding`;
- `AnswersItsRequestCorrect`, `BindingFollowsSessionCorrect`: the invariants of
  run `live`, which excuse what follows a prefill that failed half way;
- `AnswerIsContinuableCorrect`: the action property, also after failures: when an
  answer that was not cut short has been sent to a Responses client, the binding
  stands at the session's position; canonicalization has not moved it. Truncated
  answers are outside it, and after a stop sequence both stand at 0, where no
  live continuation exists.

The code compares positions and call ids, never texts; why that is enough is what
`Agree`, the main part of `LiveInv`, says. Everything that holds a conversation
agrees on it: a checkpoint with the text it is filed under (`KeysAgree`), a
binding with the session wherever a request may trust or store it (`Follows`), a
request that sends only a tool result with an answer that was sent (`Recalled`),
and calls are numbered, so that a bound id names the answer it was sent with
(`Numbered`). In between, `Serves` follows a request from its source to its
answer, and `EffectiveAgrees` goes through the sources of `generate_job_inner`. The
agreement is on texts as both sides see them, so the proof needs what `Only`, a
recursive function, makes of texts put together (`OnlyConcat`) and filtered twice
(`OnlyOnly`), by an induction on their length (`FromEmpty`). `Continues` is apart
from `Agree`: it holds also after a failure. TLC checked `LiveInv` on the instance
of run `live`. `LiveAssumption` states the types of the settings and that the
names are distinct and none of them a letter or a binding.

`KvStoreProofs` proves, for every set of histories, engines and prompts, every
budget and any number of crashes:

- `KvTypeCorrect`, and `KvInvariant`: `Spec => []KvInv`, the inductive invariant
  at the end of `KvStore`;
- `HitAnswersPromptCorrect` and `RewriteKeepsPayloadCorrect`;
- `ImplementsPrefixCacheCorrect`: the disk cache implements `PrefixCache`.

`KvInv` says that every file says the text of its name in a context that holds
it, that a store in progress is about to publish such a pair, whole
(`job.tmp`), and that a tool map is rewritten only in a file that is whole. The
invariant has one lemma for the steps on files, one for the store's, one each
for hits and rewriting; the refinement follows from what a step does to the set
of whole files: `RenameStores` adds one, `LoadHits` looks one up, and all others
only forget (`FilesForgotten`). `KvAssumption` states the types of the
constants; that texts are sequences is assumed there because the provers know
nothing of `SelectSeq`.

`AgentWorkerProofs` proves, for every front end, set of commands and number of
prompts:

- `OneUserOfTheSessionCorrect`: as long as nothing is deferred to the worker, the
  two threads never use the session together;
- `PromptsKeptCorrect`: each prompt is in exactly one place, waiting, on its way,
  in the transcript, or set aside because its turn failed or was interrupted;
  headless they also keep their order, and a front end that leaves without having
  seen an error leaves none on its way. That the transcript has them all is *not*
  said: the headless loop takes ERROR for idle (12672), so a prompt whose turn
  failed may be set aside though no error was seen.

The invariant of the first, `IInv`, is that the status tells "busy" from the
submission of a prompt to the end of its turn (`StatusTells`), and that what the
front end found at rest stays so until it is done, because nobody else submits
(`FrontHolds`). `WorkerKeeps` and `FrontKeeps` have one step per action.

The second needs more, `PromptInv`. `Places` says of the seven texts between the
transcript and stdin that each is free of repetition and apart from every other,
headless also in order; this follows every move of a text, with one lemma about
texts per kind of move (`Told`, `Queued`, `Answered`, ...) and one about each of
the twelve actions that make one; it makes `OnePlace`, about all of them joined.
That a move overwrites nothing is `WorkerHas`: the worker's hand is empty unless
a turn is about to append, and a hand-over is under way exactly while the worker
waits for it, which it does only in a turn, when nothing is submitted. That the
headless front end submits what it has read only behind an empty queue is
`FrontHas`; what it goes by when it leaves, `NothingLeft`. Of `FlattenSeq`, a
recursive function, the lemmas `FlattenType` to `FlattenHead` say what it makes
of a queue that grows or loses its first text; they rest on `Upward`, an
induction like the one of `DistributionProofs` below. TLC checked `PromptInv` on
the instance of run `agent`.

`ExpertCacheProofs` proves about the decode-time expert cache, for any numbers of
layers, experts, buffers and tokens and every setting a process may be started
with:

- `CacheTypeCorrect`, and `CacheInvariant`: `Spec => []CacheInv`, the inductive
  invariant at the end of `ExpertCache`;
- `EpochsAndOwnersCorrect`: `EpochSound`, `CommitOrder` and `OneOwner`, always;
- `BuffersHoldCorrect`, `TokenIsExactCorrect`: the properties of these names, if
  the setting is `Careful`.

`CacheInv` says where the load in progress stands: which thread runs it, at which
place of the main thread (`CallFits`), what it still lacks and has been given
(`CallHas`, `LoadFits`), and that the pending load is the one a held command
buffer waits for (`HeldWaits`); that every epoch committed is below the held
one's, that below the open one's, and `done` below all of them (`Epochs`); and
which buffers belong to whom (`Owners`), from which `OneOwner`'s cardinalities
follow by bijections. What makes a kernel's weights right is `UsesMarked`: what a
command buffer reads is resident and marked with an epoch not older than its own
until it has run, so it is in flight and no victim; what the held one reads ahead
is in the pending load until the drain marks it. `Careful` excludes kernels
encoded ahead of reads that may fail (`Gather /\ ReadsFail`): there `TokenIsExact`
does not hold, as `ExpertCache_torn` shows. Each part has a lemma that it is
preserved, with a case per action.

`PrefillReaderProofs` proves, for any numbers of lanes, experts and jobs, any
guesses, waves and failures, and lanes that lag behind as many jobs as they like:

- `ReaderInvariant`: the inductive invariant `ReaderInv` at the end of
  `PrefillReader`;
- `KernelsReadTheirLayerCorrect`, `ReadOnceCorrect`: the properties of these
  names.

`ReaderInv` gives every set of buffers a job, the newest one's or the one's before
(`JobOf`), and says that a lane that is not late reads its own job's bytes into
its own job's set (`LaneFits`), that what the kernels may read is of the job of the
published set (`Published`), and that an expert which counts as landed, or which
a stage does not wait for any more, has its bytes in its slot or was handled by a
late lane (`Landed`). No step of the main thread makes a kernel's slot wrong:
installing a job only makes lanes late. A lane that is not late writes a slot of
the job it reads for; one that is late leaves its expert in `strays` with the
newest job, so whatever it writes is excused for that job and the one before
(`LaneFrame`, `Ages`, `NotesAre`), and for no other.

`ClaimInv` is the second invariant, for `ReadOnce`: what was begun is not
untouched, and the lanes on their way to read for the current job have experts
of their own. A late lane claims in the other array, and its check of the
generation stops it before it reads (`ClaimClaims`); if it reaches the array of
the current job, two jobs late, it only takes experts away.

`DistributionProofs` proves of the registry, for any workers, offers, layers,
descriptors and numbers of connections:

- `SearchFindsRouteCorrect`: the route search answers with routes only, and
  answers when there is one;
- `RegistryInvariant`, and from it `RegistryHoldsCorrect`.

The search is a recursive function over the layers, so what it computes needs an
induction. The library's induction theorems take an operator as a parameter; here
the claim is a set of layers instead, and `Downward` (from the last layer down)
follows from `LeastNatural`, which follows from the well-foundedness of `<`. With
it: the recursion has a solution, everything it holds is a route from its layer
on, and it holds something wherever a route exists, because among candidates from
which the search goes on there is a first one in `qsort`'s order (`SomeFirst`).

Of `RegistryInv`, `PlanMade` keeps a plan's generation not newer than the
registry's. `Owners`, until a route is forgotten, ties every descriptor to its
holder: a thread's descriptor names its own connection and is never the plan's,
every entry is that of a thread which will remove it, and the plan's descriptor
leads to its first worker. A descriptor handed out again is free, hence none of
these; `forget_route_workers` closes one that is a thread's, which is why the
property stops there and `DistRegistry_forget` finds what comes after.

`DistributionProofs` proves of a tensor-parallel pair of which nothing fails but the
worker as a whole (`FailStop`: the worker may die at any moment; no gate times out
while the peer still works, nothing fails on one rank alone, and where the worker may
die no blocks are verified, for `TensorParallel_verify` shows what happens there), for
any tokens, prompts, sessions, context sizes and numbers of commands, and whatever the
leader cancels:

- `PairInvariant`: `PairSpec => []PairInv`, the inductive invariant, which stands
  before its proof;
- `PairInStepCorrect`, `LogitsAgreeCorrect`: the invariants of run `tp`.

`PairInv` describes a pair that is in step, and a leader whose worker has died. Of the
first, `LocallySound` is about each rank alone: the list it
works on has the shape of its command's (`Shape`), and its flags tell of no failure.
`InStep` is about the two and the sockets between them. It describes a pair from the
rank that is behind: a rank waits at a gate or a vote that its peer has passed, so
the peer's list, sessions, counter and messages are what this rank will have once it
has passed it too (`Together`), except that a worker may have answered for steps the
leader is still to read (`Replied`). Only in one way can the leader be further
ahead: it does not wait after announcing a command, an invalidation or the end
(`Announcing`), nor after committing a block (`Keeping`, `Replaying`), and then its
sessions are the worker's with what is on the control socket applied. So the lists,
which each rank makes from its own session, are equal because at the point where the
worker makes its own the sessions are (`StepsEqual`). `LogitsFit` says that the
halves the leader holds are those of its checkpoints, but for one that is owed and
for a block not yet committed.

The death of the worker by itself changes nothing of this: the descriptions speak of
what it has sent, and the leader may go on reading that. They cease to hold when the
leader waits for something that is not there or announces another command (`Misses`);
by then, it has read all there was (`MissesAll`), and is `Bereft`: the sessions of the
command it is in may hold anything, for a gate that ends without the dead worker's half
lets the evaluation go on, but every other valid session has the logits it had
(`Sampled`). No command of a bereft leader can succeed, since each ends with an answer
of the worker, so each ends by forgetting its sessions (`BereftEnds`). A block would
not: its commit asks for no answer.

Each kind of step has a lemma for each form that a pair can be in (`Written...`,
`Pass...`, `Gives...`, `AnswerTaken`, `LeaderCommits`, `WorkerCommits`,
`IssueAnnounces`, `ReceiveHears`), one for the soundness of what it leaves
(`...Sound`) and one for the logits (`...Fits`); `NoTimeout` and `NothingFails` show
that in step no gate times out while the worker lives, no frame is a wrong one and nobody
gives up. Failures of one rank alone and gates that time out early are left to run
`tp`, because they break what the descriptions say in as many ways as there are
failures; `TensorParallel_evalfault` shows that `LogitsAgree` is not true of every
one. TLC checked `PairInv` on pairs of both kinds before it was proved.

`DistSessionProofs` proves, for one or two workers and any vocabulary, prompts,
chunk size, window, context size and number of faults:

- `DistInvariant`: `Spec => []DistInv`, the inductive invariant at the end of
  `DistSession`;
- `CallsExactCorrect`: the property of run `dist` of that name.

That a valid slice is exact is part of what a slice is (`Slices`), and so it is
with what is under way: a frame has exact rows and a reset if it begins a
timeline, a good answer is exact (`Frames`, `Answers`). A worker keeps this
because it takes a frame only on a session which holds the frame's prefix and is
valid or newly begun (`ServedFrame`). `SliceExtends` says that the coordinator's
slice is valid wherever the next span extends it, up to the failure that makes it
invalid, and begins anew where a prefill does; `LogitsFollow` that the logits are
the target's once its last chunk has been answered for, which needs the
arithmetic of the chunks (`Ceiling`, `PipelinedChunks`). TLC checked `DistInv` on
the instance of run `dist`. `LogitsAnswerCall`, the same for calls that evaluate
nothing, does not hold (`DistSession_logits`).

`TypeOK` of the scheduler, the admission, the disk cache and the expert cache,
`PendingIsCounted`, `GenerationsAreCounted`, `BlockedForAReason`,
`DecoderLeavesNobody`, `CancelledJobQueuesNothing` and `NothingLost` are proved
and have no run of their own.

Only model-checked: the fairness of `JobService`; `LogitsAgree` and `PairInStep` of
a tensor-parallel pair in which one rank alone fails or a gate times out early; and
liveness, which is out of the
prover's reach: that calls of a distributed session return and a retry succeeds, that
commands of a pair end (`LeaderReturns`), and the other `~>` properties of the runs.

## 5. Abstractions, and what is not modelled

Within the modelled parts:

- *Scheduler, admission.* The unbatched branches of `server_prefill_enter` and
  `server_eval_token` (one worker takes `inference_mu` around each call);
  `server_generation_rewind` (11915: in batched mode a step decodes one token, so
  nothing is rewound); a second stop signal, which ends the process at once;
  failure to create the decode thread or the unbatched worker, which ends it
  before other threads exist.
- *Bindings.* Requests with images, the recovery loop for malformed tool calls,
  and the contents of an answer. The three protocols differ as the code has it in
  which states they keep and which they clear.
- *Disk cache.* The file system keeps the order of appended data, and a power
  loss leaves a prefix of it; the directory survives. The eviction score is a
  free choice of the victim; the thresholds and the cadence of cold and continued
  checkpoints are free choices too.
- *Tensor parallelism.* One gate stands for those of a token or chunk, a chunk
  has one token, the transport is TCP, and the verification of a speculative
  block fails only after its gate. The handshake, session creation, rewind,
  images, the mixed batch, GLM's speculative cycle and RDMA are left out.
- *Distributed.* A token hash is the sequence it is computed from, taken to be
  free of collisions. Request ids start again when nothing is outstanding. The
  sender thread's queue is part of the socket. A worker's clearing of its
  sessions, reconnection and HELLO are one step. Snapshots over connections of
  their own, the handshake's contents, one-shot generation and telemetry are left
  out.
- *Registry.* A worker always says the same HELLO; a HELLO read by a thread whose
  descriptor has been handed out again counts as failed; forgetting a route and
  dropping its plan are one step. The coordinator always needs a remote part.
- *Prefill reader.* Loads and stores of different fields are not reordered by the
  machine; an expert is written in one step; the cursor is not counted past the
  end of the list.
- *Expert cache.* Any idle victim may be evicted; an allocation beyond the slab
  may fail. The drain in the middle of a token, the relief of locked memory,
  deferred growth, seeding, split kernels, copies on the GPU and GLM's path are
  left out.
- *Agent.* The tools, the parsing of tool calls, the editor, session files,
  images, the text of the output, the value of the power setting, read and poll
  errors, and spurious wake-ups. The terminal polls every 100 ms, so the wake
  pipe matters to the headless loop only.

Parts without a model, with the reason: the contents of prompts and answers, HTTP
and rendering (text in, text out); the numerical engine, its sessions and
speculative decoding (the models carry of a session its tokens and validity); the
GPU back ends; the tool memory and image cache (LRUs in one critical section
each), Argodrive's exact read and the engram reader (sequential algorithms), which
are in the plan; layer packing, GPU arguments, the prompt prefix (small pure
functions with unit tests); the web tools, the other front ends and vendored
code. `PROJECT.json` lists them with their status.

## 6. Plan

Done: the scheduler and its promise, the admission, the bindings, the disk cache
and its promise, both forms of distribution, both forms of expert streaming, the
agent; the theorems of section 4.

Next, in this order:

1. Theorems about the two ranks of `TensorParallel` when a step fails on one alone.
2. `ArRead` (the parts of a plan cover the request once) and `Engram` (a batch
   equals single reads) against reference definitions.
3. The tool memory and the image cache: budget, recency, no foreign value.
4. The lock order of `mu`, `tool_mu`, `kv_mu`, `inference_mu`, `model_mu`.
