---------------------------- MODULE AgentWorker ----------------------------
(***************************************************************************)
(* The coding agent (ds4_agent.c): a worker thread that owns the session   *)
(* and runs the turns, and the thread of the front end, which reads the    *)
(* user, queues prompts while a turn runs and answers what the worker asks.*)
(* The front end is the terminal (run_agent) or the headless loop          *)
(* (run_agent_non_interactive), which reads stdin or has one prompt.       *)
(*                                                                         *)
(* A prompt is a number, a text a sequence of prompts.  The status of the  *)
(* worker keeps what the guards tell apart: "busy" stands for PREFILL,     *)
(* GENERATING, COMPACTING, SAVING and DRAINING.                            *)
(***************************************************************************)
EXTENDS Integers, Sequences, SequencesExt

CONSTANTS
  Settings   \* the front end, the commands of its user (terminal), a bound on
             \* the prompts typed, and whether the engine may fail

ASSUME AgentAssumption ==
  \A e \in Settings :
    /\ e.mode \in {"terminal", "stdin", "oneshot"}
    /\ e.commands \subseteq {"power", "think", "compact", "save", "new", "switch",
                             "steer", "edit", "quit", "exit"}
    /\ e.prompts \in Nat \ {0} /\ e.fails \in BOOLEAN

VARIABLES
  env,             \* the setting
  (* struct agent_worker, under w->mu *)
  state,           \* status.state
  initialized, stop, interrupt,
  want,            \* the *_requested flags that are set
  cmd,             \* cmd_text, <<>> for NULL
  approvalPending, approvalAnswered,            \* web_approval_*
  drainPending, drainAnswered, drainText,     \* queued_user_drain_*
  wakePending, pipe,                          \* wake_pending, a byte in wake_fd
  active, dirty,   \* user_activity, session_dirty
  asleep,          \* the worker sleeps on w->cond
  (* the worker thread *)
  wpc,
  todo,            \* deferred jobs to look at before it waits; <<>> in a turn
  ret,             \* where a compaction returns to
  hand,            \* the text it is about to append to the transcript
  (* the thread of the front end *)
  upc,
  then,            \* the command a save has to precede
  queue,           \* agent_prompt_queue
  input,           \* the text read but not yet submitted or queued
  eof, failed,     \* stdin_eof; the last status read was ERROR
  (* outside, and history *)
  stdin, closed,   \* typed and not yet read; the user has closed stdin
  typed, told,     \* prompts typed so far; those in the transcript
  aside,           \* given back to the editor, or dropped by a failed turn
  deferred         \* has anything been requested from the worker?

turnVars == <<todo, ret, hand>>
askVars  == <<approvalPending, approvalAnswered, drainPending, drainAnswered, drainText>>
wakeVars == <<wakePending, pipe>>
sessVars == <<active, dirty>>
uiVars   == <<then, queue, input, eof, failed>>
userVars == <<stdin, closed, typed>>
histVars == <<told, aside>>
flagVars == <<initialized, stop>>
wantVars == <<want, deferred>>
vars == <<env, state, flagVars, interrupt, wantVars, cmd, askVars, wakeVars,
          sessVars, asleep, wpc, turnVars, upc, uiVars, userVars, histVars>>

Jobs == <<"power", "compact", "save">>

Headless == env.mode # "terminal"

\* A slip: only the end of the program interrupts a turn.
CancelledByStop == stop

\* worker_should_interrupt
Cancelled == interrupt \/ stop

Idle == /\ initialized /\ "think" \notin want
        /\ state \in {"idle", "error"}
CanSubmit == initialized /\ state = "idle" /\ cmd = <<>> /\ "think" \notin want

\* agent_wake_locked: one byte until the front end has read the status.  Only
\* the headless loop depends on it: the terminal's looks every 100 ms.
Wake ==
  /\ wakePending' = Headless
  /\ pipe' = (Headless /\ (pipe \/ ~wakePending))
\* pthread_cond_signal: only the worker waits on w->cond.
Signal == asleep' = FALSE
Publish(s) == state' = s /\ Wake

-----------------------------------------------------------------------------
Init ==
  /\ env \in Settings
  /\ state = "idle" /\ initialized = FALSE /\ stop = FALSE /\ interrupt = FALSE
  /\ want = {} /\ cmd = <<>> /\ asleep = FALSE /\ deferred = FALSE
  /\ approvalPending = FALSE /\ approvalAnswered = FALSE
  /\ drainPending = FALSE /\ drainAnswered = FALSE /\ drainText = <<>>
  /\ wakePending = FALSE /\ pipe = FALSE /\ active = FALSE /\ dirty = FALSE
  /\ wpc = "boot" /\ todo = <<>> /\ ret = "none" /\ hand = <<>>
  /\ upc = IF env.mode = "terminal" THEN "keys" ELSE "top"
  /\ then = "none" /\ input = <<>> /\ failed = FALSE
  /\ queue = IF env.mode = "oneshot" THEN << <<1>> >> ELSE <<>>
  /\ typed = IF env.mode = "oneshot" THEN 1 ELSE 0
  /\ eof = (env.mode = "oneshot")
  /\ stdin = <<>> /\ closed = (env.mode = "oneshot")
  /\ told = <<>> /\ aside = {}

-----------------------------------------------------------------------------
(* The worker: start, the wait loop and the deferred jobs. *)

\* agent_worker_reset_to_sysprompt, after the route of a coordinator.
Boot ==
  /\ wpc = "boot"
  /\ \/ Publish("idle") /\ active' = FALSE /\ dirty' = FALSE
     \/ /\ Cancelled \/ env.fails
        /\ Publish("error") /\ UNCHANGED sessVars
  /\ wpc' = "booted"
  /\ UNCHANGED <<env, flagVars, interrupt, wantVars, cmd, askVars, asleep,
                 turnVars, upc, uiVars, userVars, histVars>>

Booted ==
  /\ wpc = "booted"
  /\ initialized' = TRUE /\ Wake /\ wpc' = "wait"
  /\ UNCHANGED <<env, state, stop, interrupt, wantVars, cmd, askVars, sessVars,
                 asleep, turnVars, upc, uiVars, userVars, histVars>>

\* A slip: the wait for the queued prompts does not look at w->stop.
AwaitedToTheEnd ==
  \/ wpc = "wait" /\ (stop \/ cmd # <<>> \/ want # {})
  \/ wpc = "ask" /\ (Cancelled \/ approvalAnswered)
  \/ wpc = "draining" /\ drainAnswered

\* What each of the three waits on w->cond waits for.
Awaited ==
  \/ wpc = "wait" /\ (stop \/ cmd # <<>> \/ want # {})
  \/ wpc = "ask" /\ (Cancelled \/ approvalAnswered)
  \/ wpc = "draining" /\ (stop \/ drainAnswered)

Sleep ==
  /\ wpc \in {"wait", "ask", "draining"} /\ ~asleep /\ ~Awaited
  /\ asleep' = TRUE
  /\ UNCHANGED <<env, state, flagVars, interrupt, wantVars, cmd, askVars, wakeVars,
                 sessVars, wpc, turnVars, upc, uiVars, userVars, histVars>>

\* worker_main: stop, then power, think, save, compact; the latter two wait
\* for a submitted prompt.
FirstJob ==
  IF "power" \in want THEN "power" ELSE
  IF "think" \in want THEN "think" ELSE
  IF cmd # <<>> THEN "cmd" ELSE
  IF "save" \in want THEN "save" ELSE "compact"

Awake ==
  /\ wpc = "wait" /\ ~asleep /\ Awaited
  /\ IF stop THEN wpc' = "ending" /\ UNCHANGED <<state, cmd, hand, todo>>
     ELSE \/ /\ FirstJob = "think" /\ wpc' = "think" /\ state' = "busy"
             /\ UNCHANGED <<cmd, hand, todo>>
          \/ /\ FirstJob = "cmd" /\ wpc' = "turn" /\ hand' = cmd /\ cmd' = <<>>
             /\ UNCHANGED <<state, todo>>
          \/ /\ FirstJob \in {"power", "save", "compact"}
             /\ wpc' = "jobs" /\ todo' = <<FirstJob>>
             /\ UNCHANGED <<state, cmd, hand>>
  /\ UNCHANGED <<env, flagVars, interrupt, wantVars, askVars, wakeVars, sessVars,
                 asleep, ret, upc, uiVars, userVars, histVars>>

End ==
  /\ wpc = "ending"
  /\ Publish("stopped") /\ wpc' = "gone"
  /\ UNCHANGED <<env, flagVars, interrupt, wantVars, cmd, askVars, sessVars,
                 asleep, turnVars, upc, uiVars, userVars, histVars>>

\* worker_apply_requested_think: the request is taken, the prefix is changed.
TakeThink ==
  /\ wpc = "think"
  /\ want' = want \ {"think"} /\ wpc' = "thinking"
  /\ UNCHANGED <<env, state, flagVars, interrupt, deferred, cmd, askVars, wakeVars,
                 sessVars, asleep, turnVars, upc, uiVars, userVars, histVars>>

Think ==
  /\ wpc = "thinking"
  /\ dirty' \in {dirty, TRUE}
  /\ Publish(IF cmd # <<>> THEN "busy" ELSE "idle") /\ wpc' = "wait"
  /\ UNCHANGED <<env, flagVars, interrupt, wantVars, cmd, askVars, active, asleep,
                 turnVars, upc, uiVars, userVars, histVars>>

\* worker_apply_pending_power, worker_run_deferred_compact, _save: nothing
\* happens unless the request is there.
TakeJob ==
  /\ wpc = "jobs"
  /\ IF todo = <<>> THEN wpc' = "wait" /\ UNCHANGED <<want, todo>>
     ELSE IF Head(todo) \in want
          THEN want' = want \ {Head(todo)} /\ wpc' = Head(todo) /\ UNCHANGED todo
          ELSE todo' = Tail(todo) /\ UNCHANGED <<want, wpc>>
  /\ UNCHANGED <<env, state, flagVars, interrupt, deferred, cmd, askVars, wakeVars,
                 sessVars, asleep, ret, hand, upc, uiVars, userVars, histVars>>

\* The turn, or a deferred job, is over.
Over ==
  /\ wpc' = "jobs"
  /\ todo' = IF todo = <<>> THEN Jobs ELSE Tail(todo)

Power ==
  /\ wpc = "power"
  /\ Over /\ Wake
  /\ UNCHANGED <<env, state, flagVars, interrupt, wantVars, cmd, askVars, sessVars,
                 asleep, ret, hand, upc, uiVars, userVars, histVars>>

SaveBegins ==
  /\ wpc = "save"
  /\ Publish("busy") /\ wpc' = "saving"
  /\ UNCHANGED <<env, flagVars, interrupt, wantVars, cmd, askVars, sessVars, asleep,
                 turnVars, upc, uiVars, userVars, histVars>>

\* agent_worker_save_session_now; a failed save is only reported.
SaveEnds ==
  /\ wpc = "saving"
  /\ \/ active /\ dirty' = FALSE
     \/ (Cancelled \/ env.fails \/ ~active) /\ UNCHANGED dirty
  /\ wpc' = "publish"
  /\ UNCHANGED <<env, state, flagVars, interrupt, wantVars, cmd, askVars, wakeVars,
                 active, asleep, turnVars, upc, uiVars, userVars, histVars>>

\* worker_run_deferred_compact: skipped without a user session; the status
\* changes only once the summary's prompt has been built.
CompactBegins ==
  /\ wpc = "compact"
  /\ IF ~active THEN Over /\ UNCHANGED <<ret, state, wakeVars>>
     ELSE \/ /\ Publish("busy") /\ wpc' = "compacting" /\ ret' = "publish"
             /\ UNCHANGED todo
          \/ /\ wpc' \in IF env.fails THEN {"publish", "error"} ELSE {"publish"}
             /\ UNCHANGED <<state, wakeVars, todo, ret>>
  /\ UNCHANGED <<env, flagVars, interrupt, wantVars, cmd, askVars, sessVars, asleep,
                 hand, upc, uiVars, userVars, histVars>>

-----------------------------------------------------------------------------
(* The worker: a turn. *)

\* worker_run_turn: a new turn forgets an earlier interrupt.
Turn ==
  /\ wpc = "turn"
  /\ interrupt' = FALSE /\ Wake /\ wpc' = "before"
  /\ UNCHANGED <<env, state, flagVars, wantVars, cmd, askVars, sessVars, asleep,
                 turnVars, upc, uiVars, userVars, histVars>>

\* Where the turn goes on when it need not compact, or has compacted.
Onward == [before |-> "append", append |-> "appending", round |-> "prefill",
           generate |-> "round", commit |-> "drain"]

\* agent_worker_compact_transcript, at the points where a turn may need room.
TurnCompacts ==
  /\ wpc \in {"before", "append", "round", "commit"} \/ (wpc = "generate" /\ ~Cancelled)
  /\ Publish("busy") /\ wpc' = "compacting" /\ ret' = Onward[wpc]
  /\ UNCHANGED <<env, flagVars, interrupt, wantVars, cmd, askVars, sessVars, asleep,
                 todo, hand, upc, uiVars, userVars, histVars>>

\* There is room; committing the tool's result may fail.
TurnHasRoom ==
  /\ wpc \in {"before", "append", "round", "commit"}
  /\ \/ wpc' = Onward[wpc]
     \/ wpc = "commit" /\ env.fails /\ wpc' = "error"
  /\ UNCHANGED <<env, state, flagVars, interrupt, wantVars, cmd, askVars, wakeVars,
                 sessVars, asleep, turnVars, upc, uiVars, userVars, histVars>>

\* An interrupted compaction acknowledges the interrupt itself; a text that
\* was to be appended after it is dropped with the turn.
CompactEnds ==
  /\ wpc = "compacting" /\ ret' = "none"
  /\ \/ /\ wpc' = ret
        /\ dirty' \in IF todo = <<>> THEN {dirty} ELSE {dirty, TRUE}
        /\ UNCHANGED <<interrupt, hand, aside>>
     \/ /\ Cancelled
        /\ interrupt' = FALSE /\ wpc' = "acknowledge"
        /\ hand' = <<>> /\ aside' = aside \cup ToSet(hand) /\ UNCHANGED dirty
     \/ /\ env.fails
        /\ wpc' = "error"
        /\ hand' = <<>> /\ aside' = aside \cup ToSet(hand) /\ UNCHANGED <<dirty, interrupt>>
  /\ UNCHANGED <<env, state, flagVars, wantVars, cmd, askVars, wakeVars, active, asleep,
                 todo, upc, uiVars, userVars, told>>

\* agent_worker_append_user; a message larger than the context is an error.
AppendUser ==
  /\ wpc = "appending"
  /\ \/ /\ told' = told \o hand /\ active' = TRUE /\ dirty' = TRUE
        /\ Wake /\ wpc' = "round" /\ UNCHANGED aside
     \/ /\ env.fails
        /\ aside' = aside \cup ToSet(hand) /\ wpc' = "error"
        /\ UNCHANGED <<told, sessVars, wakeVars>>
  /\ hand' = <<>>
  /\ UNCHANGED <<env, state, flagVars, interrupt, wantVars, cmd, askVars, asleep,
                 todo, ret, upc, uiVars, userVars>>

\* ds4_session_sync of the transcript; it polls for the interrupt.
Prefill ==
  /\ wpc = "prefill"
  /\ Publish("busy")
  /\ \/ wpc' = "generate"
     \/ Cancelled /\ wpc' = "acknowledge"
     \/ env.fails /\ wpc' = "error"
  /\ UNCHANGED <<env, flagVars, interrupt, wantVars, cmd, askVars, sessVars, asleep,
                 turnVars, upc, uiVars, userVars, histVars>>

\* The generation loop: power changes, an interrupt, the answer or a tool call.
Generate ==
  /\ wpc = "generate"
  /\ IF Cancelled THEN wpc' = "acknowledge" /\ UNCHANGED want
     ELSE \/ "power" \in want /\ want' = want \ {"power"} /\ UNCHANGED wpc
          \/ wpc' \in {"publish", "tool"} /\ UNCHANGED want
          \/ env.fails /\ wpc' = "error" /\ UNCHANGED want
  /\ Publish("busy")
  /\ UNCHANGED <<env, flagVars, interrupt, deferred, cmd, askVars, sessVars, asleep,
                 turnVars, upc, uiVars, userVars, histVars>>

\* agent_execute_tool_observation; agent_web_confirm asks, but not headless.
Tool ==
  /\ wpc = "tool"
  /\ \/ wpc' = "commit" /\ UNCHANGED <<approvalPending, approvalAnswered, wakeVars>>
     \/ /\ env.mode = "terminal"
        /\ approvalPending' = TRUE /\ approvalAnswered' = FALSE /\ Wake /\ wpc' = "ask"
  /\ UNCHANGED <<env, state, flagVars, interrupt, wantVars, cmd, drainPending,
                 drainAnswered, drainText, sessVars, asleep, turnVars, upc, uiVars,
                 userVars, histVars>>

\* The answer is not read again; the next question clears it.
Approved ==
  /\ wpc = "ask" /\ ~asleep /\ Awaited
  /\ approvalPending' = (approvalPending /\ approvalAnswered)
  /\ approvalAnswered' = FALSE /\ wpc' = "commit"
  /\ UNCHANGED <<env, state, flagVars, interrupt, wantVars, cmd, drainPending,
                 drainAnswered, drainText, wakeVars, sessVars, asleep, turnVars, upc,
                 uiVars, userVars, histVars>>

\* worker_request_queued_user_drain, once the tool's result is committed.
RequestDrain ==
  /\ wpc = "drain"
  /\ drainPending' = TRUE /\ drainAnswered' = FALSE /\ drainText' = <<>>
  /\ Wake /\ wpc' = "draining"
  /\ UNCHANGED <<env, state, flagVars, interrupt, wantVars, cmd, approvalPending,
                 approvalAnswered, sessVars, asleep, turnVars, upc, uiVars, userVars,
                 histVars>>

Drained ==
  /\ wpc = "draining" /\ ~asleep /\ Awaited
  /\ hand' = drainText /\ drainText' = <<>>
  /\ drainPending' = FALSE /\ drainAnswered' = FALSE
  /\ wpc' = IF drainText = <<>> THEN "round" ELSE "append"
  /\ UNCHANGED <<env, state, flagVars, interrupt, wantVars, cmd, approvalPending,
                 approvalAnswered, wakeVars, sessVars, asleep, todo, ret, upc, uiVars,
                 userVars, histVars>>

\* worker_clear_interrupt, then agent_set_status(IDLE): two critical sections.
Acknowledge ==
  /\ wpc = "acknowledge"
  /\ interrupt' = FALSE /\ wpc' = "publish"
  /\ UNCHANGED <<env, state, flagVars, wantVars, cmd, askVars, wakeVars, sessVars,
                 asleep, turnVars, upc, uiVars, userVars, histVars>>

PublishIdle ==
  /\ wpc = "publish"
  /\ Publish("idle") /\ Over
  /\ UNCHANGED <<env, flagVars, interrupt, wantVars, cmd, askVars, sessVars, asleep,
                 ret, hand, upc, uiVars, userVars, histVars>>

\* agent_set_error
Error ==
  /\ wpc = "error"
  /\ Publish("error") /\ Over
  /\ UNCHANGED <<env, flagVars, interrupt, wantVars, cmd, askVars, sessVars, asleep,
                 ret, hand, upc, uiVars, userVars, histVars>>

WorkerStep ==
  /\ upc # "killed"
  /\ \/ Boot \/ Booted \/ Sleep \/ Awake \/ End \/ TakeThink \/ Think \/ TakeJob
     \/ Power \/ SaveBegins \/ SaveEnds \/ CompactBegins \/ Turn \/ TurnCompacts
     \/ TurnHasRoom \/ CompactEnds \/ AppendUser \/ Prefill \/ Generate \/ Tool
     \/ Approved \/ RequestDrain \/ Drained \/ Acknowledge \/ PublishIdle \/ Error

-----------------------------------------------------------------------------
(* The front end: submitting, and answering the worker. *)

UiKeeps == UNCHANGED <<env, initialized, wpc, turnVars, sessVars, histVars>>

\* A slip: the status stays IDLE until the worker takes the prompt.
SubmitLate(text) ==
  /\ CanSubmit
  /\ cmd' = text /\ Signal /\ UNCHANGED state

\* worker_submit.
Submit(text) ==
  /\ CanSubmit
  /\ cmd' = text /\ state' = "busy" /\ Signal

\* worker_consume, after the wake pipe has been emptied.
Consume ==
  /\ upc = "consume"
  /\ wakePending' = FALSE
  /\ failed' = (Headless /\ state = "error")
  /\ upc' = IF env.mode = "terminal" /\ state = "error" THEN "reset" ELSE "drain"
  /\ UNCHANGED <<state, stop, interrupt, wantVars, cmd, askVars, pipe, asleep, then,
                 queue, input, eof, userVars>>
  /\ UiKeeps

\* The terminal shows the error and makes the worker idle again.
ResetError ==
  /\ upc = "reset"
  /\ state' = "idle" /\ upc' = "drain"
  /\ UNCHANGED <<stop, interrupt, wantVars, cmd, askVars, wakeVars, asleep, uiVars, userVars>>
  /\ UiKeeps

\* The headless loop leaves on an error, after it has answered the drain.
AfterDrain == IF env.mode = "terminal" THEN "approve" ELSE IF failed THEN "leave" ELSE "input"

TakeDrain ==
  /\ upc = "drain"
  /\ drainPending' = FALSE
  /\ upc' = IF drainPending THEN "answer" ELSE AfterDrain
  /\ UNCHANGED <<state, stop, interrupt, wantVars, cmd, approvalPending, approvalAnswered,
                 drainAnswered, drainText, wakeVars, asleep, uiVars, userVars>>
  /\ UiKeeps

\* A slip: the prompts handed over stay in the queue.
AnswerDrainKeeps ==
  /\ upc = "answer"
  /\ drainText' = FlattenSeq(queue) /\ drainAnswered' = TRUE /\ UNCHANGED queue
  /\ Signal /\ Wake
  /\ upc' = IF env.mode = "terminal" THEN "keys" ELSE AfterDrain
  /\ UNCHANGED <<state, stop, interrupt, wantVars, cmd, approvalPending, approvalAnswered,
                 drainPending, then, input, eof, failed, userVars>>
  /\ UiKeeps

\* The queue is taken whole and handed over (agent_prompt_queue_take_all,
\* worker_answer_queued_user_drain).
AnswerDrain ==
  /\ upc = "answer"
  /\ drainText' = FlattenSeq(queue) /\ drainAnswered' = TRUE /\ queue' = <<>>
  /\ Signal /\ Wake
  /\ upc' = IF env.mode = "terminal" THEN "keys" ELSE AfterDrain
  /\ UNCHANGED <<state, stop, interrupt, wantVars, cmd, approvalPending, approvalAnswered,
                 drainPending, then, input, eof, failed, userVars>>
  /\ UiKeeps

\* A text the worker does not take goes back to the front of the queue, to
\* its end, or to the editor.
SubmitQueue ==
  /\ upc = "submit"
  /\ \/ Submit(FlattenSeq(queue)) /\ queue' = <<>>
     \/ ~CanSubmit /\ queue' = <<FlattenSeq(queue)>> /\ UNCHANGED <<cmd, state, asleep>>
  /\ upc' = IF env.mode = "terminal" THEN "line" ELSE "poll"
  /\ UNCHANGED <<stop, interrupt, wantVars, askVars, wakeVars, then, input, eof, failed,
                 userVars>>
  /\ UiKeeps

Offer ==
  /\ upc = "offer"
  /\ \/ Submit(input) /\ UNCHANGED <<queue, aside>>
     \/ /\ ~CanSubmit /\ UNCHANGED <<cmd, state, asleep>>
        /\ IF env.mode = "terminal" THEN aside' = aside \cup ToSet(input) /\ UNCHANGED queue
           ELSE queue' = Append(queue, input) /\ UNCHANGED aside
  /\ input' = <<>>
  /\ upc' = IF env.mode = "terminal" THEN "keys" ELSE "check"
  /\ UNCHANGED <<env, flagVars, interrupt, wantVars, askVars, wakeVars, sessVars, wpc,
                 turnVars, then, eof, failed, userVars, told>>

-----------------------------------------------------------------------------
(* The headless loop. *)

Top ==
  /\ upc = "top"
  /\ upc' = IF queue # <<>> /\ (IF env.mode = "oneshot" THEN initialized ELSE Idle)
            THEN "submit" ELSE IF initialized THEN "poll" ELSE "poll_wake"
  /\ UNCHANGED <<state, stop, interrupt, wantVars, cmd, askVars, wakeVars, asleep, uiVars,
                 userVars>>
  /\ UiKeeps

\* poll has no time limit unless input waits for its quiet period to end.
Poll ==
  /\ upc \in {"poll", "poll_wake"}
  /\ LET readable == upc = "poll" /\ ~eof /\ (stdin # <<>> \/ closed) IN
     /\ pipe \/ readable \/ input # <<>>
     /\ IF readable THEN input' = input \o stdin /\ stdin' = <<>> /\ eof' = closed
        ELSE UNCHANGED <<input, stdin, eof>>
  /\ pipe' = FALSE /\ upc' = "consume"
  /\ UNCHANGED <<state, stop, interrupt, wantVars, cmd, askVars, wakePending, asleep, then,
                 queue, failed, closed, typed>>
  /\ UiKeeps

\* What was read becomes a prompt once it has been quiet for 200 ms.
TakeInput ==
  /\ upc = "input" /\ input # <<>>
  /\ IF Idle /\ queue = <<>> THEN upc' = "offer" /\ UNCHANGED <<queue, input>>
     ELSE queue' = Append(queue, input) /\ input' = <<>> /\ upc' = "check"
  /\ UNCHANGED <<state, stop, interrupt, wantVars, cmd, askVars, wakeVars, asleep, then,
                 eof, failed, userVars>>
  /\ UiKeeps

LeaveInput ==
  /\ upc = "input" /\ (input = <<>> \/ ~eof)
  /\ upc' = "check"
  /\ UNCHANGED <<state, stop, interrupt, wantVars, cmd, askVars, wakeVars, asleep, uiVars,
                 userVars>>
  /\ UiKeeps

Check ==
  /\ upc = "check"
  /\ upc' = IF eof /\ input = <<>> /\ queue = <<>> /\ Idle THEN "leave" ELSE "top"
  /\ UNCHANGED <<state, stop, interrupt, wantVars, cmd, askVars, wakeVars, asleep, uiVars,
                 userVars>>
  /\ UiKeeps

-----------------------------------------------------------------------------
(* The terminal's loop. *)

\* Ctrl+C; ESC with a queued prompt does the same later in the iteration.
Keys ==
  /\ upc = "keys" /\ then' = "none"
  /\ upc' \in {"consume"} \cup IF Idle THEN {} ELSE {"interrupt"}
  /\ UNCHANGED <<state, stop, interrupt, wantVars, cmd, askVars, wakeVars, asleep, queue,
                 input, eof, failed, userVars>>
  /\ UiKeeps

\* worker_interrupt: does not signal w->cond.
Interrupt ==
  /\ upc = "interrupt"
  /\ interrupt' = TRUE /\ upc' = "consume"
  /\ UNCHANGED <<state, stop, wantVars, cmd, askVars, wakeVars, asleep, uiVars, userVars>>
  /\ UiKeeps

TakeApproval ==
  /\ upc = "approve"
  /\ approvalPending' = FALSE
  /\ upc' = IF approvalPending THEN "asking"
            ELSE IF queue # <<>> /\ Idle THEN "submit" ELSE "line"
  /\ UNCHANGED <<state, stop, interrupt, wantVars, cmd, approvalAnswered, drainPending,
                 drainAnswered, drainText, wakeVars, asleep, uiVars, userVars>>
  /\ UiKeeps

\* The user's answer, or "no" after 30 s.
AnswerApproval ==
  /\ upc = "asking"
  /\ approvalAnswered' = TRUE
  /\ Signal /\ Wake /\ upc' = "keys"
  /\ UNCHANGED <<state, stop, interrupt, wantVars, cmd, approvalPending, drainPending,
                 drainAnswered, drainText, uiVars, userVars>>
  /\ UiKeeps

\* No line yet, or a prompt: queued while the worker is busy.
Line ==
  /\ upc = "line"
  /\ \/ upc' = "keys" /\ UNCHANGED <<queue, input, typed>>
     \/ /\ typed < env.prompts /\ typed' = typed + 1
        /\ IF Idle THEN upc' = "offer" /\ input' = <<typed'>> /\ UNCHANGED queue
           ELSE upc' = "keys" /\ queue' = Append(queue, <<typed'>>) /\ UNCHANGED input
  /\ UNCHANGED <<state, stop, interrupt, wantVars, cmd, askVars, wakeVars, asleep, then,
                 eof, failed, stdin, closed>>
  /\ UiKeeps

\* Ctrl+X takes the first queued prompt back into the editor.
EditQueued ==
  /\ upc = "line" /\ "edit" \in env.commands /\ queue # <<>>
  /\ aside' = aside \cup ToSet(Head(queue)) /\ queue' = Tail(queue)
  /\ UNCHANGED <<env, state, flagVars, interrupt, wantVars, cmd, askVars, wakeVars, sessVars,
                 asleep, wpc, turnVars, upc, then, input, eof, failed, userVars, told>>

\* Requests to the worker: /power, /think, /compact always, /save if busy.
Request ==
  /\ upc \in {"line", "request_save"}
  /\ \E c \in IF upc = "line" THEN env.commands \cap {"power", "think", "compact"} ELSE {"save"} :
       want' = want \cup {c}
  /\ deferred' = TRUE /\ Signal /\ Wake /\ upc' = "keys"
  /\ UNCHANGED <<state, stop, interrupt, cmd, askVars, uiVars, userVars>>
  /\ UiKeeps

\* env.commands the front end runs itself; all but the end of the input need an
\* idle worker, and all but /save and /steer first offer to save.
Command ==
  /\ upc = "line"
  /\ \E c \in env.commands \cap {"save", "new", "switch", "steer", "quit", "exit"} :
       /\ then' = c
       /\ upc' = IF c = "exit" THEN "unsaved"
                 ELSE IF ~Idle THEN IF c = "save" THEN "request_save" ELSE "keys"
                 ELSE IF c = "save" THEN "may_save"
                 ELSE IF c = "steer" THEN "steer" ELSE "unsaved"
  /\ UNCHANGED <<state, stop, interrupt, wantVars, cmd, askVars, wakeVars, asleep, queue,
                 input, eof, failed, userVars>>
  /\ UiKeeps

Proceed == [save |-> "keys", new |-> "new", switch |-> "may_switch",
            quit |-> "leave", exit |-> "leave"]

\* agent_maybe_save_before_leaving_session, agent_maybe_save_before_exiting:
\* whoever declines the save leaves at once.
Unsaved ==
  /\ upc = "unsaved"
  /\ upc' \in IF active /\ dirty
              THEN {"may_save", IF then \in {"quit", "exit"} THEN "killed" ELSE Proceed[then]}
              ELSE {Proceed[then]}
  /\ UNCHANGED <<state, stop, interrupt, wantVars, cmd, askVars, wakeVars, asleep, uiVars,
                 userVars>>
  /\ UiKeeps

\* After a failed save: continue anyway?  At the end of the input the answer
\* "no" is not looked at.
SaveFailed ==
  IF then = "save" THEN {"keys"} ELSE
  IF then = "quit" THEN {"killed", "keys"} ELSE
  IF then = "exit" THEN {"killed", "leave"} ELSE {Proceed[then], "keys"}

\* agent_worker_save_session, agent_worker_switch_session ask again.
AskIdle ==
  /\ upc \in {"may_save", "may_switch"}
  /\ upc' \in IF Idle THEN IF upc = "may_save" THEN {"save"} ELSE {"new"}
              ELSE IF upc = "may_save" THEN SaveFailed ELSE {"keys"}
  /\ UNCHANGED <<state, stop, interrupt, wantVars, cmd, askVars, wakeVars, asleep, uiVars,
                 userVars>>
  /\ UiKeeps

SaveSession ==
  /\ upc = "save"
  /\ \/ active /\ dirty' = FALSE /\ Wake /\ upc' = Proceed[then]
     \/ (Cancelled \/ env.fails \/ ~active) /\ upc' \in SaveFailed /\ UNCHANGED <<dirty, wakeVars>>
  /\ UNCHANGED <<env, state, flagVars, interrupt, wantVars, cmd, askVars, active, asleep, wpc,
                 turnVars, uiVars, userVars, histVars>>

\* agent_worker_reset_to_sysprompt, agent_worker_switch_session: the session
\* comes from a file, or has to be prefilled under the worker's status.
NewSession ==
  /\ upc = "new"
  /\ \/ upc' = "new_end" /\ UNCHANGED <<state, wakeVars>>
     \/ upc' = "new_sync" /\ Publish("busy")
  /\ UNCHANGED <<stop, interrupt, wantVars, cmd, askVars, asleep, uiVars, userVars>>
  /\ UiKeeps

NewSync ==
  /\ upc = "new_sync"
  /\ upc' \in {"new_end"} \cup IF Cancelled \/ env.fails THEN {"keys"} ELSE {}
  /\ UNCHANGED <<state, stop, interrupt, wantVars, cmd, askVars, wakeVars, asleep, uiVars,
                 userVars>>
  /\ UiKeeps

NewEnds ==
  /\ upc = "new_end"
  /\ active' = (then = "switch") /\ dirty' = FALSE
  /\ Publish("idle") /\ upc' = "keys"
  /\ UNCHANGED <<env, flagVars, interrupt, wantVars, cmd, askVars, asleep, wpc, turnVars,
                 uiVars, userVars, histVars>>

\* /steer sets the session's steering.
Steer ==
  /\ upc = "steer" /\ upc' = "keys"
  /\ UNCHANGED <<state, stop, interrupt, wantVars, cmd, askVars, wakeVars, asleep, uiVars,
                 userVars>>
  /\ UiKeeps

-----------------------------------------------------------------------------
\* agent_worker_free: worker_stop, then the join.
Leave ==
  /\ upc = "leave"
  /\ stop' = TRUE /\ Signal /\ upc' = "join"
  /\ UNCHANGED <<state, interrupt, wantVars, cmd, askVars, wakeVars, uiVars, userVars>>
  /\ UiKeeps

Join ==
  /\ upc = "join" /\ wpc = "gone"
  /\ upc' = "gone"
  /\ UNCHANGED <<state, stop, interrupt, wantVars, cmd, askVars, wakeVars, asleep, uiVars,
                 userVars>>
  /\ UiKeeps

UiStep ==
  \/ Consume \/ ResetError \/ TakeDrain \/ AnswerDrain \/ SubmitQueue \/ Offer
  \/ Top \/ Poll \/ TakeInput \/ LeaveInput \/ Check
  \/ Keys \/ Interrupt \/ TakeApproval \/ AnswerApproval \/ Line \/ EditQueued
  \/ Request \/ Command \/ Unsaved \/ AskIdle \/ SaveSession \/ NewSession \/ NewSync
  \/ NewEnds \/ Steer \/ Leave \/ Join

\* The user of the headless loop types, or closes stdin.
User ==
  /\ env.mode = "stdin" /\ ~closed
  /\ \/ typed < env.prompts /\ typed' = typed + 1 /\ stdin' = Append(stdin, typed')
        /\ UNCHANGED closed
     \/ closed' = TRUE /\ UNCHANGED <<typed, stdin>>
  /\ UNCHANGED <<state, stop, interrupt, wantVars, cmd, askVars, wakeVars, asleep, upc,
                 uiVars>>
  /\ UiKeeps

Next == WorkerStep \/ UiStep \/ User

Spec == Init /\ [][Next]_vars

(* Both threads are scheduled, decoding is bounded by n_predict, and the     *)
(* quiet period of the input ends.  A question to the user is answered.      *)
LiveSpec ==
  /\ Spec
  /\ WF_vars(WorkerStep) /\ WF_vars(UiStep) /\ SF_vars(TakeInput)

-----------------------------------------------------------------------------
(* Properties. *)

InTurn == wpc \in {"before", "append", "appending", "round", "prefill", "generate",
                   "tool", "ask", "commit", "drain", "draining"}
          \/ (wpc = "compacting" /\ todo = <<>>)

WorkerUses == InTurn \/ wpc \in {"boot", "thinking", "power", "saving", "compact", "compacting"}
FrontUses == upc \in {"save", "new", "new_sync", "new_end", "steer"}

\* Worker and front end share the session without a lock: the front end goes
\* by the status alone.  This is enough as long as nothing is deferred to the
\* worker (12928ff., worker_is_idle).
OneUserOfTheSession == ~deferred => ~(WorkerUses /\ FrontUses)

\* The same without the exception, as agent_worker_init's comment has it.
SessionIsTheWorkers == ~(WorkerUses /\ FrontUses)

\* Every prompt is in one place, whatever way it takes to the transcript:
\* typed, queued, submitted, handed over between two rounds; headless, the
\* model sees them in the order they were typed.
OnePlace ==
  LET way == told \o hand \o drainText \o cmd \o FlattenSeq(queue) \o input \o stdin IN
  /\ IsInjective(way) /\ ToSet(way) \cup aside = 1..typed
  /\ ToSet(told) \cap aside = {}
  /\ Headless => \A i, j \in DOMAIN way : i < j => way[i] < way[j]

\* A headless front end that leaves without having seen an error leaves no
\* prompt behind: each has reached the transcript, or the turn that was to
\* take it there has failed; and the worker is not in the middle of one.
LeavesNothingBehind ==
  Headless /\ upc \in {"leave", "join", "gone"} /\ ~failed =>
    /\ ToSet(told) \cup aside = 1..typed
    /\ cmd = <<>> /\ wpc # "turn" /\ ~InTurn

\* Both: no prompt is lost or doubled on its way to the model; headless, none
\* overtakes another (on a terminal one may: it is submitted past the queue).
PromptsKept == OnePlace /\ LeavesNothingBehind

\* The stronger reading: exit status 0 means that no turn has failed.
FailureIsReported ==
  Headless /\ upc \in {"leave", "join", "gone"} /\ ~failed => state # "error"

\* Ctrl+C ends a turn, wherever it finds it, though the model would go on
\* calling tools for ever and worker_interrupt wakes nobody.
InterruptEndsTurn == InTurn /\ interrupt ~> ~InTurn \/ upc = "killed"

\* Leaving ends: the worker stops wherever it is, and a headless run whose
\* input has ended leaves, unless the model never comes to an answer.
ShutsDown ==
  /\ upc = "leave" ~> upc = "gone"
  /\ \/ []<>(wpc \in {"tool", "compacting"})
     \/ Headless /\ closed ~> upc = "gone"

\* worker_clear_interrupt's comment: no stale interrupt in an idle worker.
NoStaleInterrupt == Idle => ~interrupt

\* A worker that waits for work is not shown as busy.
BusyHasWork ==
  wpc = "wait" /\ asleep /\ state = "busy" => cmd # <<>> \/ want # {} \/ FrontUses
=============================================================================
