--------------------------- MODULE TensorParallel ---------------------------
(***************************************************************************)
(* A tensor-parallel pair: the leader announces every session operation on *)
(* the control socket and both ranks then run the same graph, exchanging   *)
(* half of each activation in gates on the data socket (ds4_tp.c, the      *)
(* tp branches of ds4.c, the gate service thread of ds4_metal.m).          *)
(*                                                                         *)
(* A command becomes, on each rank and from that rank's own session, a list*)
(* of steps; the properties are about what happens when the lists differ.  *)
(* Activations and logits are represented by the tokens they were computed *)
(* for.  One gate stands for the gates of one token or prefill chunk, and  *)
(* a chunk has one token.                                                  *)
(***************************************************************************)
EXTENDS Integers, Sequences, SequencesExt, FiniteSets

CONSTANTS
  Token,         \* the tokens of prompts and evaluations
  Sessions,      \* mirrored sessions, created on both ranks
  Settings       \* the pairs to look at: a set of records
                 \*   use      the sessions that are used
                 \*   ops      the commands of the leader
                 \*   prompts  token sequences a sync may ask for
                 \*   tokens   tokens an evaluation appends
                 \*   most     bound on the commands the leader issues
                 \*   room     context size of a session, in tokens
                 \*   faults   operations that may fail on one rank alone
                 \*   crashes  may the worker die at any step?
                 \*   slow     may a gate time out while the peer still works?

ASSUME SettingsAssumption ==
  \A set \in Settings :
    /\ set.use \subseteq Sessions
    /\ set.prompts \subseteq Seq(Token) /\ set.tokens \subseteq Token

L == 0   \* rank 0, the leader
W == 1   \* rank 1, the worker
Rank == {L, W}
Peer(r) == 1 - r

OK == 0
ERROR == 1
INTERRUPTED == 2

None == [op |-> "none", ss |-> <<>>, toks |-> <<>>]
Fresh == [toks |-> <<>>, valid |-> FALSE, pure |-> TRUE]

VARIABLES
  sess,      \* sess[r][s]: checkpoint tokens, whether valid, and (history)
             \*   whether every gate joined two halves of one computation
  job,       \* job[r]: the command rank r executes, None between commands
  todo,      \* todo[r]: the steps it still has to take
  sent,      \* sent[r]: its half of the first of them is written
  sync,      \* sync[r]: outcome of the running sync and its cancellation
  frames,    \* frames[r]: control frames sent by r and not yet read
  gates,     \* gates[r]: gate messages sent by r and not yet read
  gateSeq,   \* g_tp_seq: gates encoded by each rank
  gateDead,  \* g_tp_failed_flag: later gates are skipped
  failed,    \* tp->failed
  torn,      \* the leader read a header and left its payload in the stream
  alive,     \* the worker loop has not ended
  crashed,   \* the worker process has died in the middle of it
  stopped,   \* the leader sent STOP and closed
  logits,    \* logits[s] on the leader: what each half was computed for
  env,       \* the setting
  issued     \* commands issued so far

pairVars == <<sess, job, todo, sent, sync, frames, gates, gateSeq, gateDead,
              failed, torn, alive, crashed, stopped, logits, env, issued>>
link == <<torn, alive, crashed, stopped>>
setting == <<env, issued>>

Commands ==
  LET one == {<<s>> : s \in env.use} IN
  UNION {
    [op : {"SYNC"}, ss : one, toks : env.prompts],
    [op : {"EVAL"}, ss : one, toks : {<<t>> : t \in env.tokens}],
    [op : {"VERIFY"}, ss : one, toks : env.tokens \X env.tokens],
    [op : {"BATCH"}, ss : {q \in env.use \X env.use : q[1] # q[2]},
     toks : {<<t, t>> : t \in env.tokens}],
    [op : {"INVALIDATE"}, ss : one, toks : {<<>>}]}

Vote(point, at) == [do |-> "vote", point |-> point, at |-> at]
Gate(s, toks) == [do |-> "gate", s |-> s, toks |-> toks, head |-> TRUE]
BlockGate(s, toks) == [do |-> "gate", s |-> s, toks |-> toks, head |-> FALSE]
Ack == [do |-> "ack"]
Half(s) == [do |-> "half", s |-> s]
Commit(kept) == [do |-> "commit", kept |-> kept]

Ahead(r, s, t) == Append(sess[r][s].toks, t)

(* A sync reuses the checkpoint when it is a valid prefix of the prompt.   *)
Kept(r, s, prompt) ==
  IF sess[r][s].valid /\ IsPrefix(sess[r][s].toks, prompt)
  THEN sess[r][s].toks ELSE <<>>

Chunks(s, from, prompt) ==
  [i \in 1..2 * (Len(prompt) - from) |->
     LET at == from + ((i + 1) \div 2) IN
     IF i % 2 = 1 THEN Gate(s, SubSeq(prompt, 1, at)) ELSE Vote(1, at)]

EvalStepsWholeHead(r, s, t) ==
  <<Gate(s, Ahead(r, s, t))>> \o (IF r = W THEN <<>> ELSE <<Half(s)>>)
EvalSteps(r, s, t) == <<Gate(s, Ahead(r, s, t)), Half(s)>>

(* The steps rank r takes for command c.                                   *)
Steps(r, c) ==
  LET s == c.ss[1] IN
  CASE c.op = "SYNC" ->
         <<Vote(0, 0)>> \o Chunks(s, Len(Kept(r, s, c.toks)), c.toks)
           \o <<Vote(3, 0), Ack, Half(s)>>
    [] c.op = "EVAL" -> EvalSteps(r, s, c.toks[1])
    [] c.op = "BATCH" ->
         <<Gate(c.ss[1], Ahead(r, c.ss[1], c.toks[1])),
           Gate(c.ss[2], Ahead(r, c.ss[2], c.toks[2])),
           Ack, Half(c.ss[1]), Half(c.ss[2])>>
    [] c.op = "VERIFY" ->
         <<BlockGate(s, sess[r][s].toks \o c.toks), Commit(sess[r][s])>>
    [] OTHER -> <<>>

Head1(r) == IF todo[r] = <<>> THEN [do |-> "none"] ELSE Head(todo[r])
At(r, what) == job[r] # None /\ Head1(r).do = what
Doing(r, what) == At(r, what) /\ ~sent[r]
Waits(r, what) == At(r, what) /\ sent[r]
Goto(r, steps) ==
  /\ todo' = [todo EXCEPT ![r] = steps]
  /\ sent' = [sent EXCEPT ![r] = FALSE]
Advance(r) == Goto(r, Tail(todo[r]))
Send(r, f) == frames' = [frames EXCEPT ![r] = Append(@, f)]
Took(r) == [frames EXCEPT ![r] = Tail(@)]
Frame(kind) == [kind |-> kind]

(* The worker's ends of both sockets are closed.                           *)
WorkerGone == ~alive \/ crashed

(* What rank r reads next from the control socket: a frame, the bytes left *)
(* by a frame read half, or the end of the stream.                         *)
Next1(r) ==
  IF r = L /\ torn THEN Frame("garbage")
  ELSE IF frames[Peer(r)] # <<>> THEN Head(frames[Peer(r)])
  ELSE IF (r = L /\ WorkerGone) \/ (r = W /\ stopped) THEN Frame("eof")
  ELSE Frame("wait")
Arrived(r) == Next1(r).kind # "wait"
Consumed(r) == IF frames[Peer(r)] = <<>> THEN frames ELSE Took(Peer(r))

PairInit ==
  /\ sess = [r \in Rank |-> [s \in Sessions |-> Fresh]]
  /\ job = [r \in Rank |-> None]
  /\ todo = [r \in Rank |-> <<>>]
  /\ sent = [r \in Rank |-> FALSE]
  /\ sync = [r \in Rank |-> [rc |-> OK, cancelled |-> FALSE]]
  /\ frames = [r \in Rank |-> <<>>]
  /\ gates = [r \in Rank |-> <<>>]
  /\ gateSeq = [r \in Rank |-> 0]
  /\ gateDead = [r \in Rank |-> FALSE]
  /\ failed = [r \in Rank |-> FALSE]
  /\ torn = FALSE /\ alive = TRUE /\ crashed = FALSE /\ stopped = FALSE
  /\ logits = [s \in Sessions |-> <<>>]
  /\ env \in Settings /\ issued = 0

-----------------------------------------------------------------------------
(* Beginning and ending a command.                                         *)

Begin(r, c) ==
  /\ job' = [job EXCEPT ![r] = c]
  /\ Goto(r, Steps(r, c))
  /\ sync' = [sync EXCEPT ![r] = [rc |-> OK, cancelled |-> FALSE]]

Invalid(r, ss) ==
  [sess EXCEPT ![r] =
     [s \in Sessions |-> IF s \in ToSet(ss) THEN Fresh ELSE sess[r][s]]]

(* ds4_session_invalidate: the worker is told unless the link has failed.  *)
InvalidateFrames(ss) ==
  [i \in 1..Len(ss) |-> [kind |-> "INVALIDATE", ss |-> <<ss[i]>>, toks |-> <<>>]]
TellInvalid(fr, ss, down) ==
  IF down THEN fr ELSE [fr EXCEPT ![L] = fr[L] \o InvalidateFrames(ss)]

Return(r) ==
  /\ job' = [job EXCEPT ![r] = None]
  /\ Goto(r, <<>>)

(* The leader gives the command up, the frames it has read being fr.       *)
GiveUpQuietly(fr, down) == Return(L) /\ frames' = fr /\ UNCHANGED sess
GiveUp(fr, down) ==
  /\ Return(L)
  /\ sess' = Invalid(L, job[L].ss)
  /\ frames' = TellInvalid(fr, job[L].ss, down)

WorkerExits ==
  /\ alive' = FALSE
  /\ Return(W)

(* The leader announces a command and starts it.  An evaluation needs a    *)
(* valid checkpoint with room; writing to a dead worker may fail at once.  *)
Allowed(c) ==
  \/ c.op \in {"SYNC", "INVALIDATE"}
  \/ \A s \in ToSet(c.ss) :
        /\ sess[L][s].valid
        /\ Len(sess[L][s].toks) + (IF c.op = "VERIFY" THEN 2 ELSE 1) <= env.room

Issue(c) ==
  /\ job[L] = None /\ ~stopped /\ issued < env.most
  /\ Allowed(c)
  /\ issued' = issued + 1
  /\ IF c.op = "INVALIDATE"
     THEN /\ sess' = Invalid(L, c.ss)
          /\ frames' = TellInvalid(frames, c.ss, failed[L])
          /\ UNCHANGED <<job, todo, sent, sync>>
     ELSE /\ Send(L, [kind |-> c.op, ss |-> c.ss, toks |-> c.toks])
          /\ Begin(L, c)
          /\ UNCHANGED sess
  /\ UNCHANGED <<gates, gateSeq, gateDead, failed, link, logits, env>>

SendFails(c) ==
  /\ job[L] = None /\ ~stopped /\ issued < env.most
  /\ c.op # "INVALIDATE" /\ Allowed(c) /\ WorkerGone
  /\ issued' = issued + 1
  /\ sess' = IF c.op = "BATCH" THEN Invalid(L, c.ss) ELSE sess
  /\ UNCHANGED <<job, todo, sent, sync, frames, gates, gateSeq, gateDead, failed,
                 link, logits, env>>

Stop ==
  /\ job[L] = None /\ ~stopped
  /\ stopped' = TRUE
  /\ Send(L, [kind |-> "STOP", ss |-> <<>>, toks |-> <<>>])
  /\ UNCHANGED <<sess, job, todo, sent, sync, gates, gateSeq, gateDead, failed,
                 torn, alive, crashed, logits, setting>>

(* The worker takes the next command; a frame that is none ends its loop.  *)
Mirrored == {"SYNC", "EVAL", "BATCH", "VERIFY", "INVALIDATE"}
EndsLoop(f) == f.kind \notin Mirrored

Receive ==
  LET f == Next1(W) IN
  /\ alive /\ job[W] = None /\ Arrived(W)
  /\ frames' = Consumed(W)
  /\ alive' = ~EndsLoop(f)
  /\ sess' = IF f.kind = "INVALIDATE" THEN Invalid(W, f.ss) ELSE sess
  /\ IF f.kind \in Mirrored \ {"INVALIDATE"}
     THEN Begin(W, [op |-> f.kind, ss |-> f.ss, toks |-> f.toks])
     ELSE UNCHANGED <<job, todo, sent, sync>>
  /\ UNCHANGED <<gates, gateSeq, gateDead, failed, torn, crashed, stopped,
                 logits, setting>>

(* A dead worker takes no further step; what it has sent can be read.      *)
Crash ==
  /\ env.crashes /\ ~WorkerGone
  /\ crashed' = TRUE
  /\ UNCHANGED <<sess, job, todo, sent, sync, frames, gates, gateSeq, gateDead, failed,
                 torn, alive, stopped, logits, setting>>

-----------------------------------------------------------------------------
(* Gates: write the own half, then read the peer's.                        *)

WithSession(r, s, x) == [sess EXCEPT ![r] = [sess[r] EXCEPT ![s] = x]]

Unusable(r, s) ==
  [toks |-> sess[r][s].toks, valid |-> FALSE, pure |-> sess[r][s].pure]

(* What a half of the logits was computed for.                             *)
Of(s, x) == [s |-> s, toks |-> x.toks, pure |-> x.pure]

Computed(r, g, pure) ==
  LET x == [toks |-> g.toks, valid |-> TRUE,
            pure |-> pure /\ (sess[r][g.s].pure \/ Len(g.toks) = 1)] IN
  /\ sess' = WithSession(r, g.s, x)
  /\ logits' = IF r = L /\ g.head THEN [logits EXCEPT ![g.s] = <<Of(g.s, x)>>] ELSE logits
  /\ Advance(r)

GateSend(r) ==
  /\ Doing(r, "gate")
  /\ gateSeq' = [gateSeq EXCEPT ![r] = @ + 1]
  /\ IF gateDead[r]
     THEN Computed(r, Head1(r), FALSE) /\ UNCHANGED gates
     ELSE /\ gates' = [gates EXCEPT ![r] = Append(@,
               [seq |-> gateSeq[r] + 1, s |-> Head1(r).s, toks |-> Head1(r).toks])]
          /\ sent' = [sent EXCEPT ![r] = TRUE]
          /\ UNCHANGED <<sess, logits, todo>>
  /\ UNCHANGED <<job, sync, frames, gateDead, failed, link, setting>>

(* The header is checked for layer, gate and sequence number, and names    *)
(* neither the session nor the token.                                      *)
SamePlace(m, r) == m.seq = gateSeq[r]

GateLatch(r) ==
  /\ gateDead' = [gateDead EXCEPT ![r] = TRUE]
  /\ failed' = [failed EXCEPT ![r] = TRUE]

GateJoin(r) ==
  LET g == Head1(r)
      m == Head(gates[Peer(r)]) IN
  /\ Waits(r, "gate") /\ gates[Peer(r)] # <<>>
  /\ gates' = [gates EXCEPT ![Peer(r)] = Tail(@)]
  /\ IF SamePlace(m, r)
     THEN /\ Computed(r, g, m.s = g.s /\ m.toks = g.toks)
          /\ UNCHANGED <<gateDead, failed>>
     ELSE Computed(r, g, FALSE) /\ GateLatch(r)
  /\ UNCHANGED <<job, sync, frames, gateSeq, link, setting>>

(* The peer is not about to write a gate: it is gone, between commands, or *)
(* waiting for a control frame that this rank has not sent.                *)
PeerAway(r) ==
  \/ r = W /\ WorkerGone
  \/ r = L /\ stopped
  \/ job[r] = None /\ (r = L \/ ~Arrived(r))
  \/ Head1(r).do \in {"ack", "half", "commit"} /\ ~Arrived(r)
  \/ Head1(r).do = "vote" /\ sent[r] /\ ~Arrived(r)
  \/ Head1(r).do = "gate" /\ sent[r] /\ gates[Peer(r)] = <<>>

(* The data socket's receive timeout, or its end.                          *)
GateTimeout(r) ==
  /\ Waits(r, "gate") /\ gates[Peer(r)] = <<>>
  /\ env.slow \/ PeerAway(Peer(r))
  /\ Computed(r, Head1(r), FALSE)
  /\ GateLatch(r)
  /\ UNCHANGED <<job, sync, frames, gates, gateSeq, link, setting>>

-----------------------------------------------------------------------------
(* Votes: at the start, after each chunk and at the end of a sync the ranks*)
(* compare where they are and whether to cancel.                           *)

Ending(r) == <<Ack, Half(job[r].ss[1])>>
Skip(r, rc) == <<Vote(3, rc)>> \o Ending(r)

(* A rank that has lost its peer sends no more votes and reports an error. *)
Lost(r) ==
  /\ sync' = [sync EXCEPT ![r] = [rc |-> ERROR, cancelled |-> sync[r].cancelled]]
  /\ Goto(r, Ending(r))

(* The prefill polls at its start and before each chunk.                   *)
Polls(r) == Head1(r).point = 0 \/ todo[r][2].do = "gate"

VoteSend(r) ==
  /\ Doing(r, "vote")
  /\ UNCHANGED <<sess, job, gates, gateSeq, gateDead, failed, link, logits, setting>>
  /\ IF failed[r]
     THEN Lost(r) /\ UNCHANGED frames
     ELSE \E asked \in IF r = L THEN BOOLEAN ELSE {FALSE} :
          LET cancel == sync[r].cancelled \/ asked IN
          /\ Send(r, [kind |-> "CHECKPOINT", point |-> Head1(r).point,
                      at |-> Head1(r).at, cancelled |-> cancel])
          /\ sync' = [sync EXCEPT ![r] = [rc |-> sync[r].rc, cancelled |-> cancel]]
          /\ sent' = [sent EXCEPT ![r] = TRUE]
          /\ UNCHANGED todo

(* Both ranks take the cancellation of either; a rank elsewhere ends it.   *)
Agrees(r, f) ==
  f.kind = "CHECKPOINT" /\ f.point = Head1(r).point /\ f.at = Head1(r).at

CancelsAlone(r, f) == sync[r].cancelled
Cancels(r, f) == sync[r].cancelled \/ (f.kind = "CHECKPOINT" /\ f.cancelled)

VoteRead(r) ==
  LET f == Next1(r)
      cancel == Cancels(r, f)
      stops == cancel /\ Polls(r)
      rc == IF stops THEN INTERRUPTED ELSE OK
      ended == IF cancel /\ sync[r].rc = OK THEN INTERRUPTED ELSE sync[r].rc IN
  /\ Waits(r, "vote") /\ Arrived(r)
  /\ frames' = Consumed(r)
  /\ \/ /\ Agrees(r, f) /\ Head1(r).point # 3
        /\ sync' = [sync EXCEPT ![r] = [rc |-> rc, cancelled |-> cancel]]
        /\ Goto(r, IF cancel THEN Skip(r, rc) ELSE Tail(todo[r]))
        /\ UNCHANGED failed
     \/ /\ Agrees(r, f) /\ Head1(r).point = 3
        /\ sync' = [sync EXCEPT ![r] = [rc |-> ended, cancelled |-> cancel]]
        /\ Advance(r)
        /\ UNCHANGED failed
     \/ /\ ~Agrees(r, f)
        /\ failed' = [failed EXCEPT ![r] = TRUE]
        /\ Lost(r)
  /\ UNCHANGED <<sess, job, gates, gateSeq, gateDead, link, logits, setting>>

-----------------------------------------------------------------------------
(* Acknowledgements and halves of the logits, from the worker to the leader*)

AckId(c) == IF c.op = "BATCH" THEN "batch" ELSE c.ss[1]

WorkerAck ==
  LET status == IF job[W].op = "SYNC" THEN sync[W].rc
                ELSE IF gateDead[W] THEN ERROR ELSE OK IN
  /\ Doing(W, "ack")
  /\ Send(W, [kind |-> "ACK", id |-> AckId(job[W]), status |-> status])
  /\ CASE status = OK -> Advance(W) /\ UNCHANGED <<job, alive>>
       [] status = INTERRUPTED -> Return(W) /\ UNCHANGED alive
       [] OTHER -> WorkerExits
  /\ UNCHANGED <<sess, sync, gates, gateSeq, gateDead, failed, torn, crashed, stopped,
                 logits, setting>>

WorkerHalf ==
  LET s == Head1(W).s IN
  /\ Doing(W, "half")
  /\ IF job[W].op = "EVAL" /\ gateDead[W]
     THEN WorkerExits /\ UNCHANGED frames
     ELSE /\ Send(W, [kind |-> "HALF", of |-> Of(s, sess[W][s])])
          /\ IF Len(todo[W]) = 1 THEN Return(W) ELSE Advance(W) /\ UNCHANGED job
          /\ UNCHANGED alive
  /\ UNCHANGED <<sess, sync, gates, gateSeq, gateDead, failed, torn, crashed, stopped,
                 logits, setting>>

(* The leader does not wait after a failure of its own: a sync whose link  *)
(* has failed, a batch or an evaluation whose gates have failed.           *)
OwnFailure ==
  \/ job[L].op = "SYNC" /\ failed[L]
  \/ job[L].op \in {"BATCH", "EVAL"} /\ gateDead[L]

Abandon ==
  /\ job[L] # None /\ Head1(L).do \in {"ack", "half"} /\ OwnFailure
  /\ GiveUp(frames, failed[L])
  /\ UNCHANGED <<sync, gates, gateSeq, gateDead, failed, link, logits, setting>>

LeaderAck ==
  LET f == Next1(L)
      mine == f.kind = "ACK" /\ f.id = AckId(job[L]) IN
  /\ Doing(L, "ack") /\ ~OwnFailure /\ Arrived(L)
  /\ IF mine /\ f.status = OK
     THEN Advance(L) /\ frames' = Consumed(L) /\ UNCHANGED <<sess, job, failed>>
     ELSE /\ failed' = [failed EXCEPT ![L] = @ \/ ~mine]
          /\ GiveUp(Consumed(L), failed'[L])
  /\ UNCHANGED <<sync, gates, gateSeq, gateDead, link, logits, setting>>

(* A frame of another type leaves its payload unread.                      *)
LeaderHalf ==
  LET f == Next1(L)
      s == Head1(L).s IN
  /\ Doing(L, "half") /\ ~OwnFailure /\ Arrived(L)
  /\ \/ /\ f.kind = "HALF"
        /\ logits' = [logits EXCEPT ![s] = <<logits[s][1], f.of>>]
        /\ IF Len(todo[L]) = 1
           THEN IF job[L].op = "SYNC" /\ sync[L].rc # OK
                THEN GiveUp(Consumed(L), failed[L])
                ELSE Return(L) /\ frames' = Consumed(L) /\ UNCHANGED sess
           ELSE Advance(L) /\ frames' = Consumed(L) /\ UNCHANGED <<sess, job>>
        /\ UNCHANGED torn
     \/ /\ f.kind # "HALF"
        /\ torn' = (torn \/ f.kind # "eof")
        /\ IF job[L].op = "VERIFY"
           THEN /\ sess' = WithSession(L, s, Unusable(L, s))
                /\ Return(L) /\ frames' = Consumed(L)
           ELSE GiveUp(Consumed(L), failed[L])
        /\ UNCHANGED logits
  /\ UNCHANGED <<sync, gates, gateSeq, gateDead, failed, alive, crashed, stopped, setting>>

-----------------------------------------------------------------------------
(* Speculative blocks: the leader decides how much of the block it keeps,  *)
(* the worker obeys.                                                       *)

KeptOf(r, s, k, n) ==
  [toks |-> k.toks \o SubSeq(job[r].toks, 1, n),
   valid |-> sess[r][s].valid, pure |-> sess[r][s].pure]

Keep(r, n) ==
  LET s == job[r].ss[1]
      k == Head1(r).kept IN
  /\ sess' = WithSession(r, s, KeptOf(r, s, k, n))
  /\ Return(r)

Replay(r, n) ==
  LET s == job[r].ss[1]
      k == Head1(r).kept IN
  /\ sess' = WithSession(r, s, k)
  /\ IF n = 0
     THEN Return(r)
     ELSE /\ Goto(r, Append([i \in 1..n |->
                               Gate(s, k.toks \o SubSeq(job[r].toks, 1, i))], Half(s)))
          /\ UNCHANGED job

(* A block none of whose tokens survived the first comparison is not sent, *)
(* so a verified block keeps at least one token.                           *)
LeaderCommit ==
  LET s == job[L].ss[1] IN
  /\ Doing(L, "commit")
  /\ \E mode \in {"KEEP", "REPLAY"},
        n \in (IF "VERIFY" \in env.faults THEN 0 ELSE 1)..Len(job[L].toks) :
       /\ mode = "KEEP" => n > 0
       /\ Send(L, [kind |-> "COMMIT", mode |-> mode, n |-> n])
       /\ IF mode = "KEEP" THEN Keep(L, n) ELSE Replay(L, n)
       /\ logits' = IF mode = "KEEP"
                    THEN [logits EXCEPT ![s] = <<Of(s, sess'[L][s]), Of(s, sess'[L][s])>>]
                    ELSE logits
  /\ UNCHANGED <<sync, gates, gateSeq, gateDead, failed, link, setting>>

WorkerCommit ==
  LET f == Next1(W) IN
  /\ Doing(W, "commit") /\ Arrived(W)
  /\ frames' = Consumed(W)
  /\ IF f.kind = "COMMIT"
     THEN /\ IF f.mode = "KEEP" THEN Keep(W, f.n) ELSE Replay(W, f.n)
          /\ UNCHANGED alive
     ELSE WorkerExits /\ UNCHANGED sess
  /\ UNCHANGED <<sync, gates, gateSeq, gateDead, failed, torn, crashed, stopped,
                 logits, setting>>

-----------------------------------------------------------------------------
(* A failure of one rank alone: an allocation, an encoder or a readback.   *)

SyncFault(r) ==
  /\ "SYNC" \in env.faults /\ job[r].op = "SYNC"
  /\ Doing(r, "gate") \/ (Doing(r, "vote") /\ Head1(r).point = 1)
  /\ sess' = WithSession(r, job[r].ss[1], Unusable(r, job[r].ss[1]))
  /\ sync' = [sync EXCEPT ![r] = [rc |-> ERROR, cancelled |-> sync[r].cancelled]]
  /\ Goto(r, Skip(r, ERROR))
  /\ UNCHANGED <<job, frames, gates, gateSeq, gateDead, failed, link, logits, setting>>

(* The leader returns at once and leaves the worker's answer unread.       *)
EvalFault ==
  /\ job[L].op \in env.faults \cap {"EVAL", "BATCH"}
  /\ Doing(L, "gate") \/ Doing(L, "ack") \/ (Doing(L, "half") /\ job[L].op = "EVAL")
  /\ GiveUp(frames, failed[L])
  /\ UNCHANGED <<sync, gates, gateSeq, gateDead, failed, link, logits, setting>>

Gating(r) == GateSend(r) \/ GateJoin(r) \/ GateTimeout(r)
Voting(r) == VoteSend(r) \/ VoteRead(r)
LeaderStep == Gating(L) \/ Voting(L) \/ Abandon \/ LeaderAck \/ LeaderHalf \/ LeaderCommit
WorkerStep ==
  /\ ~crashed
  /\ Gating(W) \/ Voting(W) \/ Receive \/ WorkerAck \/ WorkerHalf \/ WorkerCommit

PairNext ==
  \/ LeaderStep \/ WorkerStep
  \/ \E c \in Commands : c.op \in env.ops /\ (Issue(c) \/ SendFails(c))
  \/ Stop \/ Crash \/ EvalFault
  \/ SyncFault(L) \/ (~crashed /\ SyncFault(W))

PairSpec == PairInit /\ [][PairNext]_pairVars

(* The leader's thread and the worker's loop are scheduled, and a gate that*)
(* nobody answers times out.                                               *)
LivePairSpec ==
  PairSpec /\ WF_pairVars(LeaderStep) /\ WF_pairVars(WorkerStep)

-----------------------------------------------------------------------------
(* The logits a token is sampled from are two halves of one evaluation, of *)
(* exactly the tokens of the session's checkpoint, and every gate on the   *)
(* way joined the two ranks' shares of the same computation.               *)
LogitsAgree ==
  job[L] = None =>
    \A s \in Sessions : sess[L][s].valid =>
      LET half == [s |-> s, toks |-> sess[L][s].toks, pure |-> TRUE] IN
      logits[s] = <<half, half>>

Quiet ==
  /\ \A r \in Rank : job[r] = None /\ frames[r] = <<>> /\ ~failed[r]
  /\ ~WorkerGone /\ ~stopped

(* Between commands the two ranks hold the same sessions: the same ones    *)
(* valid, with the same tokens, and no gate or frame is left over.         *)
MirroredSessions ==
  Quiet =>
    /\ \A s \in Sessions :
         /\ sess[W][s].valid = sess[L][s].valid
         /\ sess[L][s].valid => sess[W][s].toks = sess[L][s].toks
    /\ \A r \in Rank : gates[r] = <<>>
    /\ gateSeq[L] = gateSeq[W]

(* Cancelling a prefill, at whichever boundary, never costs the pair: with *)
(* both ranks healthy the link does not fail and the worker stays.         *)
Healthy == env.faults = {} /\ ~env.crashes /\ ~env.slow
CancelKeepsThePair ==
  Healthy =>
  /\ \A r \in Rank : ~failed[r]
  /\ ~alive => stopped

(* Nothing fails but the worker as a whole, at any moment, and where it may*)
(* do so no blocks are verified: their gates may fail unnoticed.           *)
FailStop ==
  env.faults = {} /\ ~env.slow /\ (env.crashes => "VERIFY" \notin env.ops)

(* Both, as the run checks it: the pair stays a pair, and in step.         *)
PairInStep == MirroredSessions /\ CancelKeepsThePair

(* What is said of ds4_gpu_tp_failed: once a gate exchange has failed the  *)
(* evaluation aborts, so no command ends with a session that holds it.     *)
GateFailureAborts ==
  job[L] = None => \A s \in Sessions : sess[L][s].valid => sess[L][s].pure

(* Every command of the leader ends, whatever becomes of the worker.       *)
LeaderReturns == job[L] # None ~> job[L] = None
=============================================================================
