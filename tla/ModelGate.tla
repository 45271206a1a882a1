------------------------------ MODULE ModelGate ------------------------------
(***************************************************************************)
(* Admission to the one model executor in batched mode: everything of      *)
(* ds4_server.c guarded by model_mu and inference_mu.                      *)
(*                                                                         *)
(* Each slot worker runs one job through generate_job: it prefills the     *)
(* prompt in quanta (server_session_sync), then generates token by token   *)
(* (server_eval_token).  The decode worker gathers the pending tokens of   *)
(* all slots into one batch.  A quantum and a batch exclude one another.   *)
(*                                                                         *)
(* A critical section of model_mu is one step.  pthread_cond_wait is       *)
(* explicit: a thread whose predicate fails joins asleep, and only a       *)
(* broadcast of model_cv empties that set.  Entering a wait loop and       *)
(* testing its predicate are two steps, as if the first wait returned      *)
(* spuriously, which POSIX allows.                                         *)
(***************************************************************************)
EXTENDS Integers, FiniteSets

CONSTANTS
  SlotCount,  \* s->slot_count
  MaxWork,    \* bound: prefill quanta, tokens and cache stores of one job
  Decoder,    \* the decode worker thread
  Encoders,   \* client threads that encode the images of their requests
  Free        \* the owner of inference_mu when it is unlocked

Slot == 0..(SlotCount - 1)

ASSUME GateAssumption ==
  /\ SlotCount \in Nat \ {0}
  /\ MaxWork \in Nat \ {0}
  /\ Decoder \notin Int /\ Free \notin Int /\ Decoder # Free
  /\ Encoders \cap ({Decoder, Free} \cup Int) = {}

VARIABLES
  gpc,              \* slot worker program counters, inside generate_job
  work,             \* what the slot's job may still do (MaxWork bounds it)
  cancelled,        \* slot->running->cancelled
  stopRequested,    \* g_stop_requested
  prefillWaiting,   \* slot->prefill_waiting
  slotPending,      \* slot->decode_pending
  inFlight,         \* slot->decode_in_flight
  decodeAnswer,     \* slot->decode_rc once slot->decode_done, NoAnswer before
  decodePending,    \* s->decode_pending
  activeGenerations,\* s->active_generations
  modelBusy,        \* s->model_busy
  modelStopping,    \* s->model_stopping
  lastPrefillSlot,  \* s->last_prefill_slot
  inference,        \* the thread that holds inference_mu
  dpc,              \* decode worker program counter
  batch,            \* its members array
  batchRc,          \* its rc
  asleep,           \* threads blocked on model_cv
  withdrawn,        \* history: server_cancel_job went through model_mu
  passedBy          \* history: slots granted a quantum since s began to wait

slotState   == <<gpc, work, cancelled>>
decodeState == <<slotPending, inFlight, decodeAnswer, decodePending>>
decoder     == <<dpc, batch, batchRc>>
prefill     == <<prefillWaiting, lastPrefillSlot, passedBy>>
gateVars == <<slotState, stopRequested, decodeState, decoder, prefill,
              activeGenerations, modelBusy, modelStopping, inference, asleep,
              withdrawn>>

Rc == {"ok", "error", "interrupted"}
NoAnswer == "none"

GatePC == {"out", "begun", "prompt", "storing_prompt", "sync", "prefill_wait",
           "prefill_enter", "prefill_run", "prefill_leave", "synced", "storing",
           "generate",
           "storing_token", "storing_answer", "decode_request", "decode_wait",
           "gen_end", "gen_left", "leave"}
Generating == {"generate", "storing_token", "decode_request", "decode_wait", "gen_end"}

Init ==
  /\ gpc = [s \in Slot |-> "out"]
  /\ work = [s \in Slot |-> 0]
  /\ cancelled = [s \in Slot |-> FALSE]
  /\ stopRequested = FALSE
  /\ prefillWaiting = [s \in Slot |-> FALSE]
  /\ slotPending = [s \in Slot |-> FALSE]
  /\ inFlight = [s \in Slot |-> FALSE]
  /\ decodeAnswer = [s \in Slot |-> NoAnswer]
  /\ decodePending = 0
  /\ activeGenerations = 0
  /\ modelBusy = FALSE
  /\ modelStopping = FALSE
  /\ lastPrefillSlot = SlotCount - 1
  /\ inference = Free
  /\ dpc = "top"
  /\ batch = {}
  /\ batchRc = "ok"
  /\ asleep = {}
  /\ withdrawn = [s \in Slot |-> FALSE]
  /\ passedBy = [s \in Slot |-> {}]

\* Mutant: a client that has left is not noticed.
InterruptedByStopOnly(s) == s \in Slot /\ stopRequested

Interrupted(s) == stopRequested \/ cancelled[s]
Awake(t) == t \notin asleep
Broadcast == asleep' = {}
Sleep(t) == asleep' = asleep \cup {t}

Goto(s, pc) == gpc' = [gpc EXCEPT ![s] = pc]
Spend(s) == work' = [work EXCEPT ![s] = @ - 1]

-----------------------------------------------------------------------------
(* generate_job *)

\* slot->running = j.  The client may already have left.
BeginJob(s) ==
  /\ gpc[s] = "out"
  /\ Goto(s, "begun")
  /\ work' = [work EXCEPT ![s] = MaxWork]
  /\ cancelled' \in {cancelled, [cancelled EXCEPT ![s] = TRUE]}
  /\ UNCHANGED <<stopRequested, decodeState, decoder, prefill,
                 activeGenerations, modelBusy, modelStopping, inference,
                 asleep, withdrawn>>

\* A job cancelled before its generation starts is skipped.
CheckJob(s) ==
  /\ gpc[s] = "begun"
  /\ Goto(s, IF cancelled[s] THEN "leave" ELSE "prompt")
  /\ UNCHANGED <<work, cancelled, stopRequested, decodeState, decoder, prefill,
                 activeGenerations, modelBusy, modelStopping, inference,
                 asleep, withdrawn>>

\* slot->running = NULL
LeaveJob(s) ==
  /\ gpc[s] = "leave"
  /\ Goto(s, "out")
  /\ work' = [work EXCEPT ![s] = 0]
  /\ cancelled' = [cancelled EXCEPT ![s] = FALSE]
  /\ withdrawn' = [withdrawn EXCEPT ![s] = FALSE]
  /\ Broadcast
  /\ UNCHANGED <<stopRequested, decodeState, decoder, prefill,
                 activeGenerations, modelBusy, modelStopping, inference>>

-----------------------------------------------------------------------------
(* Prefill: server_session_sync, server_prefill_enter, server_prefill_leave *)

\* Mutant: the lowest waiting slot, whoever was served last.
LowestPrefillSlot ==
  LET waiting == {s \in Slot : prefillWaiting[s]}
  IN  IF waiting = {} THEN -1 ELSE CHOOSE s \in waiting : \A t \in waiting : s <= t

\* server_next_prefill_slot_locked: the first waiting slot after the last one
\* served, cyclically.
NextPrefillSlot ==
  LET after(n) == (lastPrefillSlot + n) % SlotCount
      turns == {n \in 1..SlotCount : prefillWaiting[after(n)]}
  IN  IF turns = {} THEN -1
      ELSE after(CHOOSE n \in turns : \A m \in turns : n <= m)

\* The live position and the common prefix are read under inference_mu.
ReadPosition(s) ==
  /\ gpc[s] = "prompt" /\ inference = Free
  /\ Goto(s, "sync")
  /\ UNCHANGED <<work, cancelled, stopRequested, decodeState, decoder, prefill,
                 activeGenerations, modelBusy, modelStopping, inference,
                 asleep, withdrawn>>

SyncInterrupted(s) ==
  /\ gpc[s] = "sync" /\ Interrupted(s)
  /\ Goto(s, "leave")
  /\ UNCHANGED <<work, cancelled, stopRequested, decodeState, decoder, prefill,
                 activeGenerations, modelBusy, modelStopping, inference,
                 asleep, withdrawn>>

\* server_prefill_enter announces the slot.
PrefillRequest(s) ==
  /\ gpc[s] = "sync" /\ ~cancelled[s]
  /\ prefillWaiting' = [prefillWaiting EXCEPT ![s] = TRUE]
  /\ passedBy' = [passedBy EXCEPT ![s] = {}]
  /\ Broadcast
  /\ Goto(s, "prefill_wait")
  /\ UNCHANGED <<work, cancelled, stopRequested, decodeState, decoder,
                 lastPrefillSlot, activeGenerations, modelBusy, modelStopping,
                 inference, withdrawn>>

\* Mutant: a running batch does not keep a quantum out.
MustWaitForTurnOnly(s) ==
  ~Interrupted(s) /\ (decodePending > 0 \/ NextPrefillSlot # s)

MustWaitForPrefill(s) ==
  ~Interrupted(s) /\ (modelBusy \/ decodePending > 0 \/ NextPrefillSlot # s)

PrefillSleep(s) ==
  /\ gpc[s] = "prefill_wait" /\ Awake(s)
  /\ MustWaitForPrefill(s)
  /\ Sleep(s)
  /\ UNCHANGED <<slotState, stopRequested, decodeState, decoder, prefill,
                 activeGenerations, modelBusy, modelStopping, inference,
                 withdrawn>>

PrefillAbort(s) ==
  /\ gpc[s] = "prefill_wait" /\ Awake(s)
  /\ Interrupted(s)
  /\ prefillWaiting' = [prefillWaiting EXCEPT ![s] = FALSE]
  /\ passedBy' = [passedBy EXCEPT ![s] = {}]
  /\ Broadcast
  /\ Goto(s, "leave")
  /\ UNCHANGED <<work, cancelled, stopRequested, decodeState, decoder,
                 lastPrefillSlot, activeGenerations, modelBusy,
                 modelStopping, inference, withdrawn>>

PrefillGrant(s) ==
  /\ gpc[s] = "prefill_wait" /\ Awake(s)
  /\ ~Interrupted(s) /\ ~MustWaitForPrefill(s)
  /\ prefillWaiting' = [prefillWaiting EXCEPT ![s] = FALSE]
  /\ lastPrefillSlot' = s
  /\ modelBusy' = TRUE
  /\ passedBy' = [t \in Slot |-> IF t # s /\ prefillWaiting[t]
                                 THEN passedBy[t] \cup {s}
                                 ELSE IF t = s THEN {} ELSE passedBy[t]]
  /\ Goto(s, "prefill_enter")
  /\ UNCHANGED <<work, cancelled, stopRequested, decodeState, decoder,
                 activeGenerations, modelStopping, inference, asleep,
                 withdrawn>>

\* model_mu is dropped before inference_mu is taken.
PrefillLock(s) ==
  /\ gpc[s] = "prefill_enter" /\ inference = Free
  /\ inference' = s
  /\ Goto(s, "prefill_run")
  /\ UNCHANGED <<work, cancelled, stopRequested, decodeState, decoder, prefill,
                 activeGenerations, modelBusy, modelStopping, asleep,
                 withdrawn>>

\* ds4_session_sync of one quantum; inference_mu is released.
PrefillRun(s) ==
  /\ gpc[s] = "prefill_run"
  /\ inference' = Free
  /\ Spend(s)
  /\ Goto(s, "prefill_leave")
  /\ UNCHANGED <<cancelled, stopRequested, decodeState, decoder, prefill,
                 activeGenerations, modelBusy, modelStopping, asleep,
                 withdrawn>>

\* The executor is free again; the quantum failed or was interrupted, it
\* reached the end of the prompt, or there is more to prefill.
PrefillLeave(s) ==
  /\ gpc[s] = "prefill_leave"
  /\ modelBusy' = FALSE
  /\ Broadcast
  /\ \/ Goto(s, "leave")
     \/ Goto(s, "synced")
     \/ work[s] > 0 /\ Goto(s, "sync")
  /\ UNCHANGED <<work, cancelled, stopRequested, decodeState, decoder, prefill,
                 activeGenerations, modelStopping, inference, withdrawn>>

\* A second sync: the full prompt after the cold-store boundary, a tool-error
\* suffix, or a canonical checkpoint after the generation.
SyncAgain(s) ==
  /\ gpc[s] \in {"synced", "gen_left"} /\ work[s] > 0
  /\ Goto(s, "prompt")
  /\ UNCHANGED <<work, cancelled, stopRequested, decodeState, decoder, prefill,
                 activeGenerations, modelBusy, modelStopping, inference,
                 asleep, withdrawn>>

\* The session is loaded, stored, rewound or invalidated under inference_mu
\* alone: before and after a prefill, from the decode loop, after the answer.
Using == [prompt |-> "storing_prompt", synced |-> "storing",
          generate |-> "storing_token", gen_left |-> "storing_answer"]

StoreLock(s) ==
  /\ gpc[s] \in DOMAIN Using
  /\ work[s] > (IF gpc[s] = "prompt" THEN 1 ELSE 0)
  /\ inference = Free
  /\ inference' = s
  /\ Spend(s)
  /\ Goto(s, Using[gpc[s]])
  /\ UNCHANGED <<cancelled, stopRequested, decodeState, decoder, prefill,
                 activeGenerations, modelBusy, modelStopping, asleep,
                 withdrawn>>

\* The decode loop stores the prefix before it samples the next token without
\* another look at the flags; a stop sequence invalidates the session and ends
\* the loop.
StoreUnlock(s) ==
  /\ \/ \E pc \in DOMAIN Using \ {"generate"} : gpc[s] = Using[pc] /\ Goto(s, pc)
     \/ /\ gpc[s] = "storing_token"
        /\ \E pc \in {"decode_request", "gen_end"} : Goto(s, pc)
  /\ inference' = Free
  /\ UNCHANGED <<work, cancelled, stopRequested, decodeState, decoder, prefill,
                 activeGenerations, modelBusy, modelStopping, asleep,
                 withdrawn>>

\* generate_job_inner returns: a 409, an error, a disconnect, or the answer.
FinishJob(s) ==
  /\ gpc[s] \in {"prompt", "synced", "gen_left"}
  /\ Goto(s, "leave")
  /\ UNCHANGED <<work, cancelled, stopRequested, decodeState, decoder, prefill,
                 activeGenerations, modelBusy, modelStopping, inference,
                 asleep, withdrawn>>

-----------------------------------------------------------------------------
(* Generation: server_generation_enter/leave, server_eval_token *)

GenerationEnter(s) ==
  /\ gpc[s] = "synced"
  /\ activeGenerations' = activeGenerations + 1
  /\ Broadcast
  /\ Goto(s, "generate")
  /\ UNCHANGED <<work, cancelled, stopRequested, decodeState, decoder, prefill,
                 modelBusy, modelStopping, inference, withdrawn>>

\* The decode loop of generate_job_inner samples a token to evaluate ...
SampleToken(s) ==
  /\ gpc[s] = "generate" /\ ~Interrupted(s)
  /\ work[s] > 0
  /\ Spend(s)
  /\ Goto(s, "decode_request")
  /\ UNCHANGED <<cancelled, stopRequested, decodeState, decoder, prefill,
                 activeGenerations, modelBusy, modelStopping, inference,
                 asleep, withdrawn>>

\* ... or ends: stop token, budget, disconnect, shutdown.
EndLoop(s) ==
  /\ gpc[s] = "generate"
  /\ Goto(s, "gen_end")
  /\ UNCHANGED <<work, cancelled, stopRequested, decodeState, decoder, prefill,
                 activeGenerations, modelBusy, modelStopping, inference,
                 asleep, withdrawn>>

GenerationLeave(s) ==
  /\ gpc[s] = "gen_end"
  /\ activeGenerations' =
       IF activeGenerations > 0 THEN activeGenerations - 1 ELSE activeGenerations
  /\ Broadcast
  /\ Goto(s, "gen_left")
  /\ UNCHANGED <<work, cancelled, stopRequested, decodeState, decoder, prefill,
                 modelBusy, modelStopping, inference, withdrawn>>

EvalRefused(s) ==
  /\ gpc[s] = "decode_request"
  /\ Interrupted(s) \/ slotPending[s] \/ inFlight[s]
  /\ Goto(s, "gen_end")
  /\ UNCHANGED <<work, cancelled, stopRequested, decodeState, decoder, prefill,
                 activeGenerations, modelBusy, modelStopping, inference,
                 asleep, withdrawn>>

\* Mutant: the decode worker is not woken.
EvalRequestSilent(s) ==
  /\ gpc[s] = "decode_request"
  /\ ~Interrupted(s) /\ ~slotPending[s] /\ ~inFlight[s]
  /\ decodeAnswer' = [decodeAnswer EXCEPT ![s] = NoAnswer]
  /\ slotPending' = [slotPending EXCEPT ![s] = TRUE]
  /\ decodePending' = decodePending + 1
  /\ Goto(s, "decode_wait")
  /\ UNCHANGED <<work, cancelled, stopRequested, inFlight, decoder, prefill,
                 activeGenerations, modelBusy, modelStopping, inference, asleep,
                 withdrawn>>

EvalRequest(s) ==
  /\ gpc[s] = "decode_request"
  /\ ~Interrupted(s) /\ ~slotPending[s] /\ ~inFlight[s]
  /\ decodeAnswer' = [decodeAnswer EXCEPT ![s] = NoAnswer]
  /\ slotPending' = [slotPending EXCEPT ![s] = TRUE]
  /\ decodePending' = decodePending + 1
  /\ Broadcast
  /\ Goto(s, "decode_wait")
  /\ UNCHANGED <<work, cancelled, stopRequested, inFlight, decoder, prefill,
                 activeGenerations, modelBusy, modelStopping, inference,
                 withdrawn>>

\* server_cancel_pending_decode_locked may withdraw a pending token, never one
\* that is in flight.
CanWithdraw(s) == slotPending[s] /\ ~inFlight[s]

EvalSleep(s) ==
  /\ gpc[s] = "decode_wait" /\ Awake(s)
  /\ decodeAnswer[s] = NoAnswer /\ ~(Interrupted(s) /\ CanWithdraw(s))
  /\ Sleep(s)
  /\ UNCHANGED <<slotState, stopRequested, decodeState, decoder, prefill,
                 activeGenerations, modelBusy, modelStopping, inference,
                 withdrawn>>

\* Mutant: the worker leaves although its token is in flight.
EvalWithdrawInFlight(s) ==
  /\ gpc[s] = "decode_wait" /\ Awake(s)
  /\ decodeAnswer[s] = NoAnswer /\ Interrupted(s)
  /\ slotPending' = [slotPending EXCEPT ![s] = FALSE]
  /\ decodePending' = IF slotPending[s] THEN decodePending - 1 ELSE decodePending
  /\ Broadcast
  /\ Goto(s, "gen_end")
  /\ UNCHANGED <<work, cancelled, stopRequested, inFlight, decodeAnswer, decoder,
                 prefill, activeGenerations, modelBusy, modelStopping,
                 inference, withdrawn>>

\* The worker withdraws its own token on shutdown or disconnect.
EvalWithdraw(s) ==
  /\ gpc[s] = "decode_wait" /\ Awake(s)
  /\ decodeAnswer[s] = NoAnswer /\ Interrupted(s) /\ CanWithdraw(s)
  /\ slotPending' = [slotPending EXCEPT ![s] = FALSE]
  /\ decodePending' = decodePending - 1
  /\ Broadcast
  /\ Goto(s, "gen_end")
  /\ UNCHANGED <<work, cancelled, stopRequested, inFlight, decodeAnswer, decoder,
                 prefill, activeGenerations, modelBusy, modelStopping,
                 inference, withdrawn>>

EvalReturn(s) ==
  /\ gpc[s] = "decode_wait" /\ Awake(s)
  /\ decodeAnswer[s] # NoAnswer
  /\ decodeAnswer' = [decodeAnswer EXCEPT ![s] = NoAnswer]
  /\ Goto(s, IF decodeAnswer[s] = "ok" /\ ~stopRequested THEN "generate"
             ELSE "gen_end")
  /\ UNCHANGED <<work, cancelled, stopRequested, slotPending, inFlight,
                 decodePending, decoder, prefill, activeGenerations,
                 modelBusy, modelStopping, inference, asleep, withdrawn>>

-----------------------------------------------------------------------------
(* decode_worker_main *)

\* The coalescing wait goes on: someone else may still send a token.
KeepCoalescing ==
  /\ ~modelStopping
  /\ decodePending < SlotCount
  /\ decodePending < activeGenerations

DecoderSleep ==
  /\ dpc = "top" /\ Awake(Decoder)
  /\ decodePending = 0 /\ ~modelStopping
  /\ Sleep(Decoder)
  /\ UNCHANGED <<slotState, stopRequested, decodeState, decoder, prefill,
                 activeGenerations, modelBusy, modelStopping, inference,
                 withdrawn>>

DecoderCoalesce ==
  /\ dpc = "top" /\ Awake(Decoder)
  /\ decodePending > 0 /\ KeepCoalescing
  /\ dpc' = "coalesce"
  /\ UNCHANGED <<slotState, stopRequested, decodeState, batch, batchRc, prefill,
                 activeGenerations, modelBusy, modelStopping, inference,
                 asleep, withdrawn>>

\* Past the coalescing loop: nothing to wait for, or the 2 ms are over (the
\* timed wait may time out at any moment).
AtGate ==
  \/ dpc = "top" /\ Awake(Decoder) /\ decodePending > 0 /\ ~KeepCoalescing
  \/ dpc = "coalesce"
  \/ dpc = "gate" /\ Awake(Decoder)

\* A prefill quantum runs.
DecoderBlocked ==
  /\ AtGate /\ modelBusy
  /\ dpc' = "gate"
  /\ Sleep(Decoder)
  /\ UNCHANGED <<slotState, stopRequested, decodeState, batch, batchRc, prefill,
                 activeGenerations, modelBusy, modelStopping, inference,
                 withdrawn>>

\* Every pending token was withdrawn meanwhile.
DecoderNoWork ==
  /\ AtGate /\ ~modelBusy
  /\ ~(modelStopping /\ decodePending = 0)
  /\ \A s \in Slot : ~slotPending[s]
  /\ dpc' = "top"
  /\ UNCHANGED <<slotState, stopRequested, decodeState, batch, batchRc, prefill,
                 activeGenerations, modelBusy, modelStopping, inference,
                 asleep, withdrawn>>

DecoderCollect ==
  /\ AtGate /\ ~modelBusy
  /\ ~(modelStopping /\ decodePending = 0)
  /\ \E s \in Slot : slotPending[s]
  /\ batch' = {s \in Slot : slotPending[s]}
  /\ slotPending' = [s \in Slot |-> FALSE]
  /\ inFlight' = [s \in Slot |-> slotPending[s] \/ inFlight[s]]
  /\ decodePending' = decodePending - Cardinality(batch')
  /\ modelBusy' = TRUE
  /\ dpc' = "lock"
  /\ UNCHANGED <<slotState, stopRequested, decodeAnswer, batchRc,
                 prefill, activeGenerations, modelStopping, inference, asleep,
                 withdrawn>>

BatchLock ==
  /\ dpc = "lock" /\ inference = Free
  /\ inference' = Decoder
  /\ dpc' = "eval"
  /\ UNCHANGED <<slotState, stopRequested, decodeState, batch, batchRc, prefill,
                 activeGenerations, modelBusy, modelStopping, asleep,
                 withdrawn>>

\* ds4_sessions_eval_batch: one result for all members.
BatchEval ==
  /\ dpc = "eval"
  /\ batchRc' \in {"ok", "error"}
  /\ inference' = Free
  /\ dpc' = "publish"
  /\ UNCHANGED <<slotState, stopRequested, decodeState, batch, prefill,
                 activeGenerations, modelBusy, modelStopping, asleep,
                 withdrawn>>

BatchPublish ==
  /\ dpc = "publish"
  /\ modelBusy' = FALSE
  /\ inFlight' = [s \in Slot |-> inFlight[s] /\ s \notin batch]
  /\ decodeAnswer' = [s \in Slot |-> IF s \in batch THEN batchRc ELSE decodeAnswer[s]]
  /\ batch' = {}
  /\ batchRc' = "ok"
  /\ Broadcast
  /\ dpc' = "top"
  /\ UNCHANGED <<slotState, stopRequested, slotPending, decodePending, prefill,
                 activeGenerations, modelStopping, inference, withdrawn>>

DecoderExit ==
  /\ \/ dpc = "top" /\ Awake(Decoder)
     \/ AtGate /\ ~modelBusy
  /\ decodePending = 0 /\ modelStopping
  /\ dpc' = "exited"
  /\ UNCHANGED <<slotState, stopRequested, decodeState, batch, batchRc, prefill,
                 activeGenerations, modelBusy, modelStopping, inference,
                 asleep, withdrawn>>

-----------------------------------------------------------------------------
(* Other threads *)

\* A request with images is parsed: its client thread runs the vision encoder
\* under inference_mu, whatever model_busy says.
EncodeLock(c) ==
  /\ ~modelStopping /\ inference = Free
  /\ inference' = c
  /\ UNCHANGED <<slotState, stopRequested, decodeState, decoder, prefill,
                 activeGenerations, modelBusy, modelStopping, asleep, withdrawn>>

EncodeUnlock(c) ==
  /\ inference = c
  /\ inference' = Free
  /\ UNCHANGED <<slotState, stopRequested, decodeState, decoder, prefill,
                 activeGenerations, modelBusy, modelStopping, asleep, withdrawn>>

\* The client of the slot's job hangs up, or a write to it fails:
\* job_mark_cancelled ...
CancelJob(s) ==
  /\ gpc[s] # "out" /\ ~cancelled[s]
  /\ cancelled' = [cancelled EXCEPT ![s] = TRUE]
  /\ UNCHANGED <<gpc, work, stopRequested, decodeState, decoder, prefill,
                 activeGenerations, modelBusy, modelStopping, inference,
                 asleep, withdrawn>>

\* Mutant: the waiting worker gets no answer for the token withdrawn.
WithdrawDecodeUnanswered(s) ==
  /\ gpc[s] # "out" /\ cancelled[s]
  /\ slotPending' = [slotPending EXCEPT ![s] = @ /\ ~CanWithdraw(s)]
  /\ decodePending' = IF CanWithdraw(s) THEN decodePending - 1 ELSE decodePending
  /\ withdrawn' = [withdrawn EXCEPT ![s] = TRUE]
  /\ Broadcast
  /\ UNCHANGED <<slotState, stopRequested, inFlight, decodeAnswer, decoder,
                 prefill, activeGenerations, modelBusy, modelStopping, inference>>

\* ... then the model_mu part of server_cancel_job.
WithdrawDecode(s) ==
  /\ gpc[s] # "out" /\ cancelled[s]
  /\ IF CanWithdraw(s)
     THEN /\ slotPending' = [slotPending EXCEPT ![s] = FALSE]
          /\ decodePending' = decodePending - 1
          /\ decodeAnswer' = [decodeAnswer EXCEPT ![s] = "interrupted"]
     ELSE UNCHANGED <<slotPending, decodePending, decodeAnswer>>
  /\ withdrawn' = [withdrawn EXCEPT ![s] = TRUE]
  /\ Broadcast
  /\ UNCHANGED <<slotState, stopRequested, inFlight, decoder, prefill,
                 activeGenerations, modelBusy, modelStopping, inference>>

\* The signal handler sets a flag and wakes no one.
StopSignal ==
  /\ ~stopRequested
  /\ stopRequested' = TRUE
  /\ UNCHANGED <<slotState, decodeState, decoder, prefill, activeGenerations,
                 modelBusy, modelStopping, inference, asleep, withdrawn>>

\* server_request_decode_stop, after main has joined the slot workers.
RequestDecodeStop ==
  /\ ~modelStopping
  /\ modelStopping' = TRUE
  /\ Broadcast
  /\ UNCHANGED <<slotState, stopRequested, decodeState, decoder, prefill,
                 activeGenerations, modelBusy, inference, withdrawn>>

-----------------------------------------------------------------------------

SlotStep(s) ==
  \/ CheckJob(s) \/ LeaveJob(s)
  \/ ReadPosition(s) \/ SyncInterrupted(s) \/ PrefillRequest(s) \/ PrefillSleep(s)
  \/ PrefillAbort(s) \/ PrefillGrant(s) \/ PrefillLock(s) \/ PrefillRun(s)
  \/ PrefillLeave(s) \/ SyncAgain(s) \/ StoreLock(s) \/ StoreUnlock(s)
  \/ FinishJob(s) \/ GenerationEnter(s) \/ SampleToken(s) \/ EndLoop(s)
  \/ GenerationLeave(s) \/ EvalRefused(s) \/ EvalRequest(s) \/ EvalSleep(s)
  \/ EvalWithdraw(s) \/ EvalReturn(s)

DecoderStep ==
  \/ DecoderSleep \/ DecoderCoalesce \/ DecoderBlocked \/ DecoderNoWork
  \/ DecoderCollect \/ BatchLock \/ BatchEval \/ BatchPublish \/ DecoderExit

\* Without the scheduler: jobs arrive on idle slots until the slot workers
\* have been joined.
JobArrives(s) == ~modelStopping /\ BeginJob(s)

StopDecoder == stopRequested /\ (\A s \in Slot : gpc[s] = "out") /\ RequestDecodeStop
Exited == dpc = "exited" /\ UNCHANGED gateVars

Next ==
  \/ \E s \in Slot : JobArrives(s) \/ SlotStep(s) \/ CancelJob(s) \/ WithdrawDecode(s)
  \/ DecoderStep
  \/ \E c \in Encoders : EncodeLock(c) \/ EncodeUnlock(c)
  \/ StopSignal
  \/ StopDecoder
  \/ Exited

Spec == Init /\ [][Next]_gateVars

\* A slot worker and the decode worker run whenever they can, and one that
\* waits for inference_mu gets it if it is free again and again.  Jobs need not
\* arrive, clients need not hang up, nobody has to send a signal.  Nothing
\* orders the threads that contend for model_mu, so clients that keep hanging
\* up for ever at the worst moment could starve a slot: they do so only
\* finitely often.
Fairness ==
  /\ \A s \in Slot : /\ WF_gateVars(SlotStep(s))
                     /\ SF_gateVars(ReadPosition(s) \/ PrefillLock(s))
  /\ WF_gateVars(DecoderStep) /\ SF_gateVars(BatchLock)
  /\ \A c \in Encoders : WF_gateVars(EncodeUnlock(c))
  /\ <>[][\A s \in Slot : cancelled'[s] => cancelled[s]]_gateVars

FairSpec == Spec /\ Fairness

-----------------------------------------------------------------------------
(* Properties *)

\* Types of the variables.
TypeOK ==
  /\ gpc \in [Slot -> GatePC]
  /\ work \in [Slot -> 0..MaxWork]
  /\ cancelled \in [Slot -> BOOLEAN]
  /\ stopRequested \in BOOLEAN
  /\ prefillWaiting \in [Slot -> BOOLEAN]
  /\ slotPending \in [Slot -> BOOLEAN]
  /\ inFlight \in [Slot -> BOOLEAN]
  /\ decodeAnswer \in [Slot -> Rc \cup {NoAnswer}]
  /\ decodePending \in Nat
  /\ activeGenerations \in Nat
  /\ modelBusy \in BOOLEAN
  /\ modelStopping \in BOOLEAN
  /\ lastPrefillSlot \in Slot
  /\ inference \in Slot \cup {Decoder, Free} \cup Encoders
  /\ dpc \in {"top", "coalesce", "gate", "lock", "eval", "publish", "exited"}
  /\ batch \in SUBSET Slot
  /\ batchRc \in Rc
  /\ asleep \in SUBSET (Slot \cup {Decoder})
  /\ withdrawn \in [Slot -> BOOLEAN]
  /\ passedBy \in [Slot -> SUBSET Slot]

PrefillOwner(s) == gpc[s] \in {"prefill_enter", "prefill_run", "prefill_leave"}
BatchRuns == dpc \in {"lock", "eval", "publish"}

\* model_busy is set exactly while one prefill quantum or one decode batch is
\* admitted, never two of them (server_prefill_enter, decode_worker_main).
OneExecutor ==
  /\ modelBusy <=> BatchRuns \/ \E s \in Slot : PrefillOwner(s)
  /\ BatchRuns => \A s \in Slot : ~PrefillOwner(s)
  /\ \A s, t \in Slot : PrefillOwner(s) /\ PrefillOwner(t) => s = t

\* The server-wide counter agrees with the slots' flags across requests,
\* batches and the three places that withdraw a token: a count too high blocks
\* every prefill for good, one too low starves the token.
PendingIsCounted == decodePending = Cardinality({s \in Slot : slotPending[s]})

\* The coalescing bound counts the slots that are generating.
GenerationsAreCounted ==
  activeGenerations = Cardinality({s \in Slot : gpc[s] \in Generating})

\* A token that is asked for is in one place until its worker resumes: pending,
\* in the running batch, or answered; nothing is left behind for the next job.
TokenInOnePlace ==
  \A s \in Slot :
    /\ gpc[s] = "decode_wait" =>
         \/ slotPending[s] /\ ~inFlight[s] /\ decodeAnswer[s] = NoAnswer
         \/ ~slotPending[s] /\ inFlight[s] /\ decodeAnswer[s] = NoAnswer
         \/ ~slotPending[s] /\ ~inFlight[s] /\ decodeAnswer[s] # NoAnswer
    /\ gpc[s] # "decode_wait" =>
         ~slotPending[s] /\ ~inFlight[s] /\ decodeAnswer[s] = NoAnswer

\* "An in-flight backend call still owns the session": while a batch with the
\* slot runs, its worker stays in server_eval_token, so the stack-owned job is
\* not completed and the session is not touched by anyone else.
BatchOwnsItsSessions ==
  \A s \in Slot :
    /\ inFlight[s] <=> s \in batch
    /\ inFlight[s] => BatchRuns /\ gpc[s] = "decode_wait" /\ inference # s

\* Once server_cancel_job has been through model_mu, no further token of the
\* slot's job is queued for the executor.
CancelledJobQueuesNothing == \A s \in Slot : withdrawn[s] => ~slotPending[s]

\* ... nor enters a batch, nor is admitted to prefill.
CancelledJobRunsNothingNew ==
  [][\A s \in Slot : withdrawn[s] =>
       /\ ~inFlight[s] => ~inFlight'[s]
       /\ ~PrefillOwner(s) => ~PrefillOwner(s)']_gateVars

\* Round robin: while a slot waits to prefill, no other is granted twice.
NoSlotPassedTwice ==
  [][\A s, t \in Slot :
       prefillWaiting[s] /\ t \in passedBy[s] /\ ~PrefillOwner(t)
         => ~PrefillOwner(t)' \/ ~prefillWaiting'[s]]_gateVars

\* The decode worker leaves only when no slot waits for a token.
DecoderLeavesNobody ==
  dpc = "exited" => \A s \in Slot : gpc[s] # "decode_wait"

\* A thread is blocked on model_cv only if its predicate still holds: every
\* change that matters to it is broadcast.  A stop signal is the exception, it
\* only sets a flag: then somebody who will broadcast is still at work.
BlockedForAReason ==
  /\ \A s \in asleep \ {Decoder} :
       \/ stopRequested
       \/ cancelled[s]
       \/ gpc[s] = "prefill_wait" /\ MustWaitForPrefill(s)
       \/ gpc[s] = "decode_wait" /\ decodeAnswer[s] = NoAnswer
  /\ Decoder \in asleep =>
       \/ dpc = "top" /\ decodePending = 0 /\ ~modelStopping
       \/ dpc = "gate" /\ modelBusy

\* A job that has started ends, whoever else keeps the executor busy: its waits
\* for a prefill turn and for each token are all served or given up, also when
\* its client leaves or a signal arrives while it sleeps (server_prefill_enter,
\* server_eval_token, decode_worker_main).
EveryJobEnds == \A s \in Slot : gpc[s] = "begun" ~> gpc[s] = "out"

-----------------------------------------------------------------------------
(* What the properties rest on: with them, an inductive invariant *)

\* A prompt on its way to the executor has a quantum left.
PromptHasWork ==
  \A s \in Slot :
    gpc[s] \in {"begun", "prompt", "storing_prompt", "sync", "prefill_wait",
               "prefill_enter", "prefill_run"} => work[s] > 0

\* inference_mu is owned by the thread that is inside its critical section.
UsesSession == {"prefill_run"} \cup {Using[pc] : pc \in DOMAIN Using}

InferenceIsOwned ==
  /\ \A s \in Slot : inference = s <=> gpc[s] \in UsesSession
  /\ inference = Decoder <=> dpc = "eval"

WaitingIsShown == \A s \in Slot : prefillWaiting[s] <=> gpc[s] = "prefill_wait"

\* A job is withdrawn only after it is cancelled, and both end with the job.
WithdrawnIsCancelled ==
  \A s \in Slot : withdrawn[s] => cancelled[s] /\ gpc[s] # "out"

\* main stops the decode worker after the last job.
StoppedIsIdle ==
  /\ modelStopping => \A s \in Slot : gpc[s] = "out"
  /\ dpc = "exited" => modelStopping

OnlyWaitersSleep ==
  \A s \in Slot : s \in asleep => gpc[s] \in {"prefill_wait", "decode_wait"}

GateInv ==
  /\ TypeOK /\ PromptHasWork /\ OneExecutor /\ InferenceIsOwned /\ WaitingIsShown
  /\ PendingIsCounted /\ GenerationsAreCounted
  /\ TokenInOnePlace /\ BatchOwnsItsSessions
  /\ WithdrawnIsCancelled /\ CancelledJobQueuesNothing
  /\ StoppedIsIdle /\ DecoderLeavesNobody
  /\ OnlyWaitersSleep /\ BlockedForAReason

=============================================================================
