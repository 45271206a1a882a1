---------------------------- MODULE DistSession ----------------------------
(***************************************************************************)
(* A distributed session: the coordinator evaluates its own layers and     *)
(* sends the span to the first worker of the route, each worker evaluates  *)
(* its layers and forwards, the last one's answer is relayed back          *)
(* (ds4_distributed.c: the dist_coordinator_ and dist_worker_ functions,   *)
(* and the distributed branches of ds4.c).                                 *)
(*                                                                         *)
(* A token hash is represented by the token sequence it is computed from.  *)
(* Activations are represented by whether they were computed on the whole  *)
(* prefix (exact).  Request ids are only compared on one first-hop         *)
(* connection, so they start again when nothing is outstanding.            *)
(***************************************************************************)
EXTENDS Integers, Sequences, SequencesExt, FiniteSets

CONSTANTS
  NHops,       \* workers of the route, 1 or 2
  Conns,       \* bound on the data connections open to the second worker
  Tokens,      \* the vocabulary
  EvalTokens,  \* tokens an evaluation may append
  ChunkCap,    \* tokens of a prefill chunk
  Window,      \* chunks of a pipelined prefill in flight
  MaxLen,      \* context size
  Settings     \* how a coordinator may be started: a set of records of
               \*   pipeline: DS4_DIST_DISABLE_PREFILL_PIPELINE is not set
               \*   cache: the progress callback saves to the disk cache
               \*   prompts: token sequences a sync may ask for
               \*   left: bound on crashes, cut connections, failed evaluations

ASSUME DistAssumption ==
  /\ NHops \in 1..2 /\ Conns \in Nat
  /\ ChunkCap \in Nat \ {0} /\ Window \in Nat \ {0}
  /\ MaxLen \in Nat /\ EvalTokens \subseteq Tokens
  /\ Settings \subseteq [pipeline : BOOLEAN, cache : BOOLEAN, prompts : SUBSET Seq(Tokens),
                         left : Nat]

Hops == 1..NHops
Lines == 0..Conns        \* 0 is the control connection of the first worker
Hop(k) == IF k = 0 THEN 1 ELSE 2

VARIABLES
  own,       \* the coordinator's slice: tokens, whether valid, and (history)
             \*   whether its rows were all computed for these tokens
  logits,    \* the tokens the session's logits belong to, and if exact
  call,      \* the call the owner of the session is in
  last,      \* how the last call returned
  plan,      \* d->plan, plan_ready, whether plan_generation is current, the
             \*   connection its descriptor names and what is unread on it
  req,       \* d->request_id
  registered,\* workers in the coordinator's registry
  control,   \* the control connection of the second worker is up
  down,      \* worker processes that are not running
  kv,        \* kv[h]: the session of worker h
  line,      \* connections that carry WORK and RESULT frames
  fwd,       \* the first worker's forwarder: its data connection, or 0
  pending,   \* request ids that forwarder waits for
  env,       \* the setting, and the faults still to come
  torn       \* the plan was freed under a running pipelined prefill

owner == <<own, logits, call, last, req, torn>>
route == <<plan, registered>>
workers == <<control, down, kv, line, fwd, pending>>
Pipeline == env.pipeline
DiskCache == env.cache
Prompts == env.prompts

vars == <<owner, route, workers, env>>

Fresh == [toks |-> <<>>, valid |-> FALSE, exact |-> TRUE]
Shut == [open |-> FALSE, work |-> <<>>, res |-> <<>>]
Opened == [Shut EXCEPT !.open = TRUE]
NoPlan == [ready |-> FALSE, fresh |-> FALSE, fd |-> "none", rest |-> <<>>]
Idle == [pc |-> "idle", target |-> <<>>, first |-> TRUE, pos |-> 0, reset |-> FALSE,
         base |-> 0, sent |-> 0, got |-> 0, rc |-> "none", spanned |-> FALSE, calm |-> FALSE]

Init ==
  /\ own = Fresh /\ logits = [of |-> <<>>, exact |-> FALSE]
  /\ call = Idle /\ last = [rc |-> "none", of |-> <<>>, spanned |-> FALSE, calm |-> FALSE]
  /\ plan = NoPlan /\ req = 0
  /\ registered = Hops /\ control = TRUE /\ down = {}
  /\ kv = [h \in Hops |-> Fresh]
  /\ line = [k \in Lines |-> IF k = 0 THEN Opened ELSE Shut]
  /\ fwd = 0 /\ pending = <<>> /\ env \in Settings /\ torn = FALSE

-----------------------------------------------------------------------------
(* The route. *)

(* A worker whose connection broke stays registered until it is noticed.   *)
Connected == line[0].open

RouteComplete == registered = Hops

Planned == [ready |-> TRUE, fresh |-> TRUE, fd |-> "first", rest |-> <<>>]

(* dist_session_ensure_route: keep the plan of the current generation,     *)
(* else build another from the registry.                                   *)
Ensured == IF plan.ready /\ plan.fresh THEN plan
           ELSE IF RouteComplete THEN Planned ELSE NoPlan

Stale(p) == [p EXCEPT !.fresh = FALSE]

(* What can still be read from the plan's descriptor, and if it may grow.  *)
Unread == IF plan.fd = "first" THEN line[0].res ELSE plan.rest
Live == plan.fd = "first" /\ Connected

Outstanding == pending # <<>> \/ (Ensured = plan /\ plan.rest # <<>>)
               \/ \E k \in {0, fwd} : line[k].work # <<>> \/ line[k].res # <<>>

(* Everything is connected and nothing of an earlier call is under way.    *)
Quiet == /\ ~Outstanding /\ \A k \in Lines : line[k].work = <<>>
         /\ RouteComplete /\ control /\ Connected
         /\ (fwd # 0 => line[fwd].open)
         /\ (plan.ready /\ plan.fresh => plan.fd = "first")

-----------------------------------------------------------------------------
(* Calls of the session's owner. *)

Pipelined(n) == Pipeline /\ n > ChunkCap

(* The chunks of the target from pos on: prefill_prompt, or the suffix     *)
(* part of sync.                                                           *)
Prefill(c, pos, reset, base) ==
  [c EXCEPT !.pos = pos, !.reset = reset, !.sent = 0, !.got = 0, !.rc = "none",
            !.base = base,
            !.pc = IF Pipelined(Len(c.target) - pos) THEN "pipe" ELSE "chunk"]

Return(rc) == /\ last' = [rc |-> rc, of |-> call.target,
                          spanned |-> call.spanned, calm |-> call.calm]
              /\ call' = Idle

At(p) == own.valid /\ own.toks = p
Extends(p) == own.valid /\ IsPrefix(own.toks, p)

(* ds4_dist_session_sync: nothing without a route, nothing to do when the  *)
(* session is at the prompt, its suffix, or all of it after a reset.       *)
Start(p) ==
  /\ call.pc = "idle"
  /\ plan' = Ensured
  /\ req' = IF Outstanding THEN req ELSE 0
  /\ IF Ensured = NoPlan \/ At(p)
     THEN /\ last' = [rc |-> IF Ensured = NoPlan THEN "failed" ELSE "ok",
                      of |-> p, spanned |-> FALSE, calm |-> Quiet]
          /\ call' = call
     ELSE /\ last' = last
          /\ call' = Prefill([Idle EXCEPT !.target = p, !.calm = Quiet],
                             IF Extends(p) THEN Len(own.toks) ELSE 0, ~Extends(p), req')
  /\ UNCHANGED <<own, logits, torn, registered, workers, env>>

Sync == \E p \in Prompts : Start(p)

(* ds4_session_eval: one more token on a valid checkpoint. *)
Eval == \E t \in EvalTokens :
  own.valid /\ Len(own.toks) < MaxLen /\ Start(Append(own.toks, t))

(* A failed span or prefill.  The first time the transcript is replayed:   *)
(* on the same route when a worker refused the work, else on another one.  *)
Failed(c, rc) == [c EXCEPT !.pc = "error", !.rc = rc]

Refused ==
  /\ call.pc = "error" /\ call.first /\ call.rc = "remote"
  /\ call' = Prefill([call EXCEPT !.first = FALSE], 0, TRUE, req)
  /\ UNCHANGED <<own, logits, last, req, torn, route, workers, env>>

(* Mutant: dropped workers are not disconnected. *)
ForgetQuietly ==
  /\ call.pc = "error" /\ call.first /\ call.rc # "remote"
  /\ registered' = {} /\ plan' = [NoPlan EXCEPT !.ready = plan.ready]
  /\ call' = [call EXCEPT !.pc = "route", !.first = FALSE]
  /\ UNCHANGED <<own, logits, last, req, torn, control, line, down, kv, fwd, pending, env>>

(* dist_coordinator_forget_route_workers and dist_route_plan_free: every   *)
(* worker of the route is dropped, healthy or not, and disconnected.       *)
Forget ==
  /\ call.pc = "error" /\ call.first /\ call.rc # "remote"
  /\ registered' = {} /\ plan' = [NoPlan EXCEPT !.ready = plan.ready]
  /\ control' = (control /\ 2 \notin registered)
  /\ line' = IF 1 \in registered THEN [line EXCEPT ![0].open = FALSE] ELSE line
  /\ call' = [call EXCEPT !.pc = "route", !.first = FALSE]
  /\ UNCHANGED <<own, logits, last, req, torn, down, kv, fwd, pending, env>>

Reroute ==
  /\ call.pc = "route"
  /\ IF RouteComplete
     THEN plan' = [Planned EXCEPT !.ready = plan.ready] /\ call' = Prefill(call, 0, TRUE, req) /\ last' = last
     ELSE plan' = NoPlan /\ Return("failed")
  /\ UNCHANGED <<own, logits, req, torn, registered, workers, env>>

GiveUp ==
  /\ call.pc = "error" /\ ~call.first
  /\ Return("failed") /\ plan' = [plan EXCEPT !.ready = FALSE, !.fresh = FALSE]
  /\ UNCHANGED <<own, logits, req, torn, registered, workers, env>>

-----------------------------------------------------------------------------
(* One span at a time: dist_coordinator_eval_span. *)

Total == Len(call.target)
Span(pos) == SubSeq(call.target, pos + 1, Min({pos + ChunkCap, Total}))
Prefix(pos) == SubSeq(call.target, 1, pos)

(* ds4_session_eval_layer_slice on a session whose timeline was checked:   *)
(* it commits the tokens, or it fails half way and invalidates the session.*)
Committed(s, toks, exact) ==
  [toks |-> s.toks \o toks, valid |-> TRUE, exact |-> s.exact /\ exact]
Spoiled(s) == [s EXCEPT !.valid = FALSE, !.exact = FALSE]

Base == IF call.reset /\ call.pos = 0 THEN Fresh ELSE own

Frame(id, pos) == [req |-> id, prefix |-> Prefix(pos), toks |-> Span(pos),
                   reset |-> call.reset /\ pos = 0, exact |-> own'.exact]

MayFault == env.left > 0

(* The local slice, then the frame for the first worker, which may be lost *)
(* on a dead connection; a plan emptied by a progress callback makes the   *)
(* slice fail before it touches the session.                               *)
EvalSpan ==
  /\ call.pc = "chunk" /\ call.pos < Total
  /\ req' = req + 1
  /\ \/ /\ plan.fd = "none" /\ call' = Failed(call, "failed") /\ UNCHANGED <<own, line, env>>
     \/ /\ plan.fd # "none" /\ own' = Committed(Base, Span(call.pos), TRUE)
        /\ line' = IF Live THEN [line EXCEPT ![0].work = Append(@, Frame(req, call.pos))] ELSE line
        /\ call' = [call EXCEPT !.pc = "wait"] /\ UNCHANGED env
     \/ /\ plan.fd # "none" /\ MayFault /\ env' = [env EXCEPT !.left = @ - 1]
        /\ own' = Spoiled(Base) /\ call' = Failed([call EXCEPT !.calm = FALSE], "failed")
        /\ line' = line
  /\ UNCHANGED <<logits, last, torn, route, control, down, kv, fwd, pending>>

(* dist_recv_result_alloc, then the check of the result hash: an answer    *)
(* with an error status is told apart from a broken connection.            *)
Verdict(r, id, of) == IF r.req # id THEN "failed"
                      ELSE IF ~r.ok THEN "remote"
                      ELSE IF r.of # of THEN "failed" ELSE "ok"

Received(r) == [of |-> r.of, exact |-> r.exact]

(* Reading the next result takes it off the plan's connection. *)
Taken == IF plan.fd = "first" THEN [line EXCEPT ![0].res = Tail(@)] ELSE line
PlanAfter == IF plan.fd = "first" THEN plan ELSE [plan EXCEPT !.rest = Tail(@)]

Receive ==
  /\ call.pc = "wait"
  /\ \/ /\ Unread # <<>> /\ line' = Taken /\ plan' = PlanAfter
        /\ LET next == Min({call.pos + ChunkCap, Total})
               v == Verdict(Head(Unread), req - 1, Prefix(next))
           IN IF v = "ok"
              THEN /\ logits' = Received(Head(Unread))
                   /\ call' = [call EXCEPT !.pc = "chunk", !.pos = next, !.spanned = TRUE]
              ELSE logits' = logits /\ call' = Failed(call, v)
     \/ /\ Unread = <<>> /\ ~Live /\ call' = Failed(call, "failed")
        /\ UNCHANGED <<logits, line, plan>>
  /\ UNCHANGED <<own, last, req, torn, registered, control, down, kv, fwd, pending, env>>

Finish ==
  /\ call.pc = "chunk" /\ call.pos = Total
  /\ Return("ok")
  /\ plan' = IF call.first THEN plan ELSE [plan EXCEPT !.ready = TRUE]
  /\ UNCHANGED <<own, logits, req, torn, registered, workers, env>>

(* The progress callback after a chunk: the server stores the prefix in    *)
(* its disk cache, and the save begins with dist_session_ensure_route.     *)
SaveProgress ==
  /\ DiskCache /\ call.spanned /\ call.pc \in {"chunk", "pipe"}
  /\ Ensured # plan
  /\ plan' = Ensured
  /\ torn' = (call.pc = "pipe")
  /\ UNCHANGED <<own, logits, call, last, req, registered, workers, env>>

-----------------------------------------------------------------------------
(* dist_coordinator_prefill_prompt_pipelined: the calling thread evaluates *)
(* chunks ahead of the answers, a reader thread takes them in order.       *)

Count == (Total - call.pos + ChunkCap - 1) \div ChunkCap
ChunkPos(i) == call.pos + i * ChunkCap
Reading == call.pc = "pipe" /\ call.rc = "none" /\ call.got < Count

(* Closing the socket both ways ends the reader, the sender and the worker.*)
Cut(lines) == IF plan.fd = "first" THEN [lines EXCEPT ![0].open = FALSE] ELSE lines

(* A local failure cancels the sender: nothing more is sent, the reader    *)
(* runs into the closed socket.                                            *)
Produce ==
  /\ Reading /\ call.sent < Count /\ call.sent < call.got + Window
  /\ LET base == IF call.reset /\ call.sent = 0 THEN Fresh ELSE own
         pos == ChunkPos(call.sent) IN
     \/ /\ own' = Committed(base, Span(pos), TRUE)
        /\ req' = req + 1 /\ call' = [call EXCEPT !.sent = @ + 1]
        /\ line' = IF Live THEN [line EXCEPT ![0].work = Append(@, Frame(req, pos))] ELSE line
        /\ UNCHANGED env
     \/ /\ MayFault /\ env' = [env EXCEPT !.left = @ - 1]
        /\ own' = Spoiled(base) /\ req' = req /\ line' = Cut(line)
        /\ call' = [call EXCEPT !.sent = Count, !.calm = FALSE]
  /\ UNCHANGED <<logits, last, torn, route, control, down, kv, fwd, pending>>

ReadAhead ==
  /\ Reading
  /\ \/ /\ Unread # <<>> /\ plan' = PlanAfter
        /\ LET v == Verdict(Head(Unread), call.base + call.got,
                            Prefix(Min({ChunkPos(call.got + 1), Total})))
           IN IF v = "ok"
              THEN /\ line' = Taken
                   /\ call' = [call EXCEPT !.got = @ + 1, !.spanned = TRUE]
                   /\ logits' = IF call.got + 1 = Count THEN Received(Head(Unread)) ELSE logits
              ELSE /\ line' = Cut(Taken) /\ logits' = logits
                   /\ call' = [call EXCEPT !.rc = v]
     \/ /\ Unread = <<>> /\ ~Live
        /\ call' = [call EXCEPT !.rc = "failed"] /\ line' = Cut(line)
        /\ UNCHANGED <<logits, plan>>
  /\ UNCHANGED <<own, last, req, torn, registered, control, down, kv, fwd, pending, env>>

(* Both threads are joined; the reader's verdict is the prefill's.         *)
Join ==
  /\ call.pc = "pipe" /\ ~Reading
  /\ IF call.rc = "none"
     THEN Return("ok") /\ plan' = IF call.first THEN plan ELSE [plan EXCEPT !.ready = TRUE]
     ELSE call' = Failed(call, call.rc) /\ UNCHANGED <<last, plan>>
  /\ UNCHANGED <<own, logits, req, torn, registered, workers, env>>

-----------------------------------------------------------------------------
(* A worker: dist_worker_process_work_payload on the next frame of a       *)
(* connection.  The session of the worker is shared by its connections.    *)

(* Mutant: only the position is compared, not the prefix hash. *)
MatchesLength(s, f) == Len(s.toks) = Len(f.prefix)

Matches(s, f) == s.toks = f.prefix

(* The timeline is checked before anything is computed. *)
InPlace(s, f) == s.valid \/ f.prefix = <<>>

Evaluated(s, f) == Committed(s, f.toks, f.exact /\ s.toks = f.prefix)

Answer(f, ok, exact) == [req |-> f.req, ok |-> ok, of |-> f.prefix \o f.toks, exact |-> exact]

(* An answer to a connection that is gone is lost. *)
Reply(l, r) == IF l.open THEN [l EXCEPT !.res = Append(@, r)] ELSE l

(* dist_forward_work_to_next: on the forwarder of this connection, opened  *)
(* when there is none yet.                                                 *)
ForwarderClosed ==
  [k \in Lines |-> IF k # 0 /\ k = fwd THEN [line[k] EXCEPT !.open = FALSE, !.res = <<>>]
                   ELSE line[k]]
Free(k) == ~line[k].open /\ line[k].work = <<>> /\ k # fwd

Forward(f, rest) ==
  \/ /\ fwd = 0 /\ 2 \notin down
     /\ \E k \in Lines \ {0} :
          /\ Free(k) /\ fwd' = k /\ pending' = <<f.req>>
          /\ line' = [rest EXCEPT ![k] = [Opened EXCEPT !.work = <<f>>]]
  \/ /\ fwd = 0 /\ 2 \in down
     /\ line' = [rest EXCEPT ![0] = Reply(@, Answer(f, FALSE, FALSE))]
     /\ UNCHANGED <<fwd, pending>>
  \/ /\ fwd # 0 /\ line[fwd].open
     /\ line' = [rest EXCEPT ![fwd].work = Append(@, f)]
     /\ pending' = Append(pending, f.req) /\ fwd' = fwd
  \/ /\ fwd # 0 /\ ~line[fwd].open
     /\ line' = [rest EXCEPT ![0] = [Reply(@, Answer(f, FALSE, FALSE)) EXCEPT !.open = FALSE]]
     /\ UNCHANGED <<fwd, pending>>

Serve(k) ==
  /\ line[k].work # <<>>
  /\ LET h == Hop(k)
         f == Head(line[k].work)
         s == IF f.reset THEN Fresh ELSE kv[h]
         rest == [line EXCEPT ![k].work = Tail(@)]
         refuse == line' = [rest EXCEPT ![k] = Reply(@, Answer(f, FALSE, FALSE))]
     IN \/ /\ ~(Matches(s, f) /\ InPlace(s, f))
           /\ kv' = [kv EXCEPT ![h] = s] /\ refuse
           /\ UNCHANGED <<call, env, fwd, pending>>
        \/ /\ Matches(s, f) /\ InPlace(s, f)
           /\ kv' = [kv EXCEPT ![h] = Evaluated(s, f)]
           /\ IF h = NHops
              THEN /\ line' = [rest EXCEPT ![k] = Reply(@, Answer(f, TRUE, Evaluated(s, f).exact))]
                   /\ UNCHANGED <<fwd, pending>>
              ELSE Forward([f EXCEPT !.exact = Evaluated(s, f).exact], rest)
           /\ UNCHANGED <<call, env>>
        \/ /\ Matches(s, f) /\ InPlace(s, f) /\ MayFault /\ env' = [env EXCEPT !.left = @ - 1]
           /\ kv' = [kv EXCEPT ![h] = Spoiled(s)] /\ refuse
           /\ call' = [call EXCEPT !.calm = FALSE] /\ UNCHANGED <<fwd, pending>>
  /\ UNCHANGED <<own, logits, last, req, torn, route, control, down>>

(* The answer to a dead connection fails and the rest of its queue goes.   *)
DropQueue(k) ==
  /\ ~line[k].open /\ line[k].work # <<>>
  /\ line' = [line EXCEPT ![k].work = <<>>]
  /\ UNCHANGED <<owner, route, control, down, kv, fwd, pending, env>>

(* dist_worker_forwarder_relay_main: answers go back in request order; a   *)
(* wrong one or the end of the connection fails the oldest request and     *)
(* closes the connection to the coordinator.                               *)
Relay ==
  /\ fwd # 0 /\ line[fwd].res # <<>> /\ pending # <<>>
  /\ pending' = Tail(pending)
  /\ LET r == Head(line[fwd].res)
         rest == [line EXCEPT ![fwd].res = Tail(@)]
     IN line' = IF r.req = Head(pending) THEN [rest EXCEPT ![0] = Reply(@, r)]
                ELSE [rest EXCEPT ![0].open = FALSE]
  /\ UNCHANGED <<owner, route, control, down, kv, fwd, env>>

(* Mutant: the relay forgets its requests and ends. *)
RelayEndsQuietly ==
  /\ fwd # 0 /\ ~line[fwd].open /\ line[fwd].res = <<>> /\ pending # <<>>
  /\ pending' = <<>>
  /\ UNCHANGED <<owner, route, control, line, down, kv, fwd, env>>

RelayEnds ==
  /\ fwd # 0 /\ ~line[fwd].open /\ line[fwd].res = <<>> /\ Connected
  /\ LET lost == [req |-> Head(pending), ok |-> FALSE, of |-> <<>>, exact |-> FALSE]
         told == IF pending = <<>> THEN line[0] ELSE Reply(line[0], lost)
     IN line' = [line EXCEPT ![0] = [told EXCEPT !.open = FALSE]]
  /\ pending' = <<>>
  /\ UNCHANGED <<owner, route, control, down, kv, fwd, env>>

-----------------------------------------------------------------------------
(* Faults, what notices them, and workers coming back. *)

Noise == /\ MayFault /\ env' = [env EXCEPT !.left = @ - 1]
         /\ call' = [call EXCEPT !.calm = FALSE]
         /\ UNCHANGED <<own, logits, last, req, torn, route>>

(* Unread answers may survive the connection they came on, or not.         *)
Closed(l) == {[l EXCEPT !.open = FALSE], [l EXCEPT !.open = FALSE, !.res = <<>>]}

CutLine(k) ==
  /\ Noise /\ line[k].open
  /\ \E l \in Closed(line[k]) : line' = [line EXCEPT ![k] = l]
  /\ UNCHANGED <<control, down, kv, fwd, pending>>

CutControl ==
  /\ Noise /\ NHops = 2 /\ control /\ control' = FALSE
  /\ UNCHANGED <<down, kv, line, fwd, pending>>

Ended(l) == [l EXCEPT !.open = FALSE, !.work = <<>>]

Crash(h) ==
  /\ Noise /\ h \notin down /\ down' = down \union {h}
  /\ kv' = [kv EXCEPT ![h] = Fresh]
  /\ line' = IF h = 1 THEN [ForwarderClosed EXCEPT ![0] = Ended(@)]
             ELSE [k \in Lines |-> IF k = 0 THEN line[k] ELSE Ended(line[k])]
  /\ fwd' = (IF h = 1 THEN 0 ELSE fwd) /\ pending' = (IF h = 1 THEN <<>> ELSE pending)
  /\ control' = (control /\ h # 2)

(* dist_coordinator_monitor_worker_fd, dist_coordinator_remove_worker.     *)
Monitor(h) ==
  /\ h \in registered /\ IF h = 1 THEN ~Connected ELSE ~control
  /\ registered' = registered \ {h} /\ plan' = Stale(plan)
  /\ UNCHANGED <<owner, workers, env>>

(* The worker loop: the connection and what it forwarded to are closed,    *)
(* every session is dropped, then the worker connects and says HELLO again.*)
Rejoin(h) ==
  /\ IF h = 1 THEN ~Connected /\ line[0].work = <<>> ELSE ~control
  /\ kv' = [kv EXCEPT ![h] = Fresh] /\ down' = down \ {h}
  /\ registered' = registered \union {h}
  /\ IF h = 2
     THEN control' = TRUE /\ plan' = Stale(plan) /\ UNCHANGED <<line, fwd, pending>>
     ELSE /\ line' = [ForwarderClosed EXCEPT ![0] = Opened]
          /\ fwd' = 0 /\ pending' = <<>> /\ control' = control
          /\ plan' = IF plan.fd = "first" THEN [Stale(plan) EXCEPT !.fd = "old", !.rest = line[0].res]
                     ELSE Stale(plan)
  /\ UNCHANGED <<owner, env>>

-----------------------------------------------------------------------------

Coordinator == \/ Refused \/ Forget \/ Reroute \/ GiveUp \/ EvalSpan \/ Receive
               \/ Finish \/ Produce \/ ReadAhead \/ Join
Worker == \/ \E k \in Lines : Serve(k)
          \/ Relay \/ RelayEnds
          \/ \E h \in Hops : Rejoin(h)
Environment == \/ \E k \in Lines : CutLine(k) \/ DropQueue(k)
               \/ CutControl
               \/ \E h \in Hops : Crash(h) \/ Monitor(h)

Next == Sync \/ Eval \/ SaveProgress \/ Coordinator \/ Worker \/ Environment

Spec == Init /\ [][Next]_vars

(* Threads are scheduled, sockets deliver, a worker keeps reconnecting; a  *)
(* dead idle connection need never be noticed.                             *)
LiveSpec == /\ Spec /\ WF_vars(Coordinator)
            /\ \A k \in Lines : WF_vars(Serve(k))
            /\ WF_vars(Relay) /\ WF_vars(RelayEnds)
            /\ \A h \in Hops : WF_vars(Rejoin(h))

(* An owner that tries again after every answer. *)
RetrySpec == LiveSpec /\ WF_vars(Sync)

-----------------------------------------------------------------------------
(* A slice whose timeline is valid holds rows computed for exactly the     *)
(* tokens of the timeline, on every worker and on the coordinator: after   *)
(* stale frames, failed evaluations and lost sessions the prefix hash and  *)
(* the position check of process_work let nothing else through.            *)
SlicesExact == /\ own.valid => own.exact
               /\ \A h \in Hops : kv[h].valid => kv[h].exact

(* A call that succeeds after evaluating something leaves the logits of    *)
(* the tokens it was asked for (ds4_dist_session_sync, _eval).             *)
SpannedCallExact ==
  last.rc = "ok" /\ last.spanned /\ call.pc = "idle"
    => logits = [of |-> last.of, exact |-> TRUE]

(* Both, as the run checks it: nothing wrong is kept, nothing wrong is     *)
(* returned.                                                               *)
CallsExact == SlicesExact /\ SpannedCallExact

(* The same for every call that succeeds, also one that finds its prompt   *)
(* already in the session.                                                 *)
LogitsAnswerCall ==
  last.rc = "ok" /\ call.pc = "idle" => logits = [of |-> last.of, exact |-> TRUE]

(* A call during which nothing breaks succeeds, whatever sessions earlier  *)
(* failures left on the workers (dist_coordinator_rebuild_from_transcript).*)
CalmCallSucceeds == last.calm => last.rc = "ok"

(* No callback frees the route plan the sender and reader of a pipelined   *)
(* prefill are using.                                                      *)
PlanOutlivesPrefill == ~torn

(* Every call returns (recv without a time limit, the relay's error and    *)
(* shutdown on behalf of a worker that went away).                         *)
CallsReturn == (call.pc # "idle") ~> (call.pc = "idle")

(* Chunk by chunk, a caller that tries again after the last fault is       *)
(* served: sessions the failure left on the workers are rebuilt from the   *)
(* transcript.                                                             *)
RetrySucceeds == ~Pipeline /\ last.rc = "failed" ~> last.rc = "ok"

-----------------------------------------------------------------------------
(* The inductive invariant.  Types, with what every slice, frame and answer*)
(* carries wherever it is: a valid slice is exact, a frame has exact rows  *)
(* and a reset when it begins a timeline, a good answer is exact.          *)

Slices == {s \in [toks : Seq(Tokens), valid : BOOLEAN, exact : BOOLEAN] : s.valid => s.exact}
Frames == {f \in [req : Int, prefix : Seq(Tokens), toks : Seq(Tokens), reset : BOOLEAN,
                  exact : BOOLEAN] : f.exact /\ (f.prefix = <<>> => f.reset)}
Answers == {r \in [req : Int, ok : BOOLEAN, of : Seq(Tokens), exact : BOOLEAN] :
              r.ok => r.exact}
Sockets == [open : BOOLEAN, work : Seq(Frames), res : Seq(Answers)]
Net == {n \in [Lines -> Sockets] : \A k \in Lines : Hop(k) \in Hops \/ n[k].work = <<>>}
Plans == [ready : BOOLEAN, fresh : BOOLEAN, fd : {"none", "first", "old"}, rest : Seq(Answers)]
Calls == [pc : {"idle", "chunk", "wait", "pipe", "error", "route"}, target : Seq(Tokens),
          first : BOOLEAN, pos : Nat, reset : BOOLEAN, base : Nat, sent : Nat, got : Nat,
          rc : {"none", "failed", "remote"}, spanned : BOOLEAN, calm : BOOLEAN]

TypeOK ==
  /\ own \in Slices /\ kv \in [Hops -> Slices] /\ line \in Net
  /\ call \in Calls /\ req \in Nat /\ fwd \in Lines /\ pending \in Seq(Int)
  /\ plan \in Plans
  /\ env \in [pipeline : BOOLEAN, cache : BOOLEAN, prompts : SUBSET Seq(Tokens), left : Int]

Now == [of |-> call.target, exact |-> TRUE]

(* The local slice is valid where the next span extends it, and was never  *)
(* committed without tokens; a prefill that begins a timeline resets it.   *)
SliceExtends ==
  /\ own.valid => own.toks # <<>>
  /\ call.pc \in {"chunk", "wait", "pipe"} => call.pos <= Total /\ (call.pos = 0 => call.reset)
  /\ call.pc = "chunk" /\ ~(call.reset /\ call.pos = 0) => own.valid
  /\ call.pc = "wait" => own.valid /\ call.pos < Total
  /\ call.pc = "pipe" => call.pos < Total
  /\ call.pc = "pipe" /\ call.sent < Count /\ ~(call.reset /\ call.sent = 0) => own.valid

(* An answer has been taken for a target with tokens only, and the logits  *)
(* are the target's when all of it has been answered for.                  *)
LogitsFollow ==
  /\ call.spanned => Total > 0
  /\ call.pc = "chunk" /\ call.spanned /\ call.pos = Total => logits = Now
  /\ call.pc = "pipe" => call.got <= Count /\ Count > 0
  /\ call.pc = "pipe" /\ call.rc = "none" /\ call.got = Count => logits = Now
  /\ SpannedCallExact

DistInv == TypeOK /\ SliceExtends /\ LogitsFollow
=============================================================================
