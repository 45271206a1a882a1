------------------------------ MODULE ExpertCache ------------------------------
(***************************************************************************)
(* The streaming expert cache of the Metal back end while a token is       *)
(* decoded (ds4_metal.m, and its callers in ds4.c).  Routed experts live   *)
(* in a bounded set of buffers; a layer's missing experts are read into    *)
(* buffers taken from experts that no command buffer of the GPU still      *)
(* uses.  What a command buffer uses is known by epochs: every buffer has  *)
(* a sequence number, an entry keeps the number of the last one that reads *)
(* it, and done is the number up to which the CPU has waited.              *)
(*                                                                         *)
(* The command buffers run in the order they are committed, behind the     *)
(* CPU.  Three schedules of the code are modelled: the router's choice     *)
(* handed to a service thread that starts the reads while the main thread  *)
(* encodes (Flow = "service"); the choice polled from a mailbox            *)
(* ("mailbox"), then optionally the next layer's predicted experts read    *)
(* ahead (Ahead), or the routed kernel encoded before its experts have     *)
(* been read and its command buffer held back (Gather).                    *)
(*                                                                         *)
(* Which idle expert is evicted (hotness, age) does not matter to what is  *)
(* claimed: any may be.  The weights of an expert are its name; a buffer   *)
(* being read into, or whose read failed, is torn.                         *)
(***************************************************************************)
EXTENDS Integers, Sequences, FiniteSets, FiniteSetsExt, Functions

CONSTANTS
  NLayers,    \* layers with routed experts
  NIds,       \* experts of a layer
  Used,       \* experts the router chooses per layer
  Extras,     \* buffers that can be allocated beyond the slab
  MaxTokens,  \* bound on the tokens decoded
  Settings    \* the configurations a process may be started with, of these fields:

Setting == [
  budget : Nat \ {0},              \* the cache's budget in experts: slab slots
  flow : {"service", "mailbox"},
  early : BOOLEAN,                 \* service: commit before the shared expert is encoded
  gather : BOOLEAN,                \* mailbox: DS4_ARGODRIVE_GPU_GATHER
  ahead : BOOLEAN,                 \* mailbox: DS4_ARGODRIVE_DECODE_AHEAD
  batch : BOOLEAN,                 \* take all victims of a load in one scan (small experts)
  fails : BOOLEAN]                 \* a read may fail

\* The early commit belongs to the service's schedule; holding back and reading
\* ahead belong to the mailbox's, and exclude each other (ds4.c 40105).
ASSUME CacheAssumption ==
  /\ NLayers \in Nat \ {0} /\ NIds \in Nat /\ Used \in 1..NIds
  /\ Extras \in Nat /\ MaxTokens \in Nat
  /\ Settings \subseteq Setting
  /\ \A m \in Settings : /\ m.early => m.flow = "service"
                         /\ m.gather \/ m.ahead => m.flow = "mailbox"
                         /\ ~(m.gather /\ m.ahead)

VARIABLES
  entry,    \* g_stream_expert_cache: the buffer of an expert and its inflight_seq
  content,  \* the expert whose weights a buffer holds
  free,     \* slab slots never used or given back
  load,     \* g_stream_expert_pending_load
  seq,      \* the epochs: cb_seq, batch_seq, owned_seq, pending_max_seq, done_seq
  gpu,      \* the open batch, the committed buffers not yet run, the held one
  main,     \* the thread that decodes
  svc,      \* the selected-load service thread
  call,     \* the load in progress, run by one of the two threads
  run       \* the setting; what the kernels of this token have read; how the last token ended

vars == <<entry, content, free, load, seq, gpu, main, svc, call, run>>

Budget == run.setting.budget
Flow == run.setting.flow
EarlyFlush == run.setting.early
Gather == run.setting.gather
Ahead == run.setting.ahead
BatchReuse == run.setting.batch
ReadsFail == run.setting.fails

Layers == 1..NLayers
Experts == Layers \X (1..NIds)
OfLayer(l) == {l} \X (1..NIds)
Slabs == 1..Budget
Slots == 1..(Budget + Extras)
NoSlot == 0
Torn == <<0, 0>>

NoEntry == [slot |-> NoSlot, seq |-> 0]
NoCb == [seq |-> 0, uses |-> {}, router |-> 0]
NoHeld == [cb |-> NoCb, want |-> {}, lack |-> {}]
NoLoad == [active |-> FALSE, want |-> {}, into |-> {}, reading |-> {}, failed |-> FALSE]
NoCall == [by |-> "none", as |-> "none", pc |-> "none", want |-> {}, lack |-> {},
           got |-> {}, reserved |-> 0, waited |-> FALSE, ok |-> TRUE]

Init ==
  /\ run \in [setting : Settings, wrong : {FALSE}, last : {"none"}]
  /\ entry = [x \in Experts |-> NoEntry]
  /\ content = [s \in Slots |-> Torn]
  /\ free = Slabs
  /\ load = NoLoad
  /\ seq = [cb |-> 0, batch |-> 0, owned |-> 0, pending |-> 0, done |-> 0]
  /\ gpu = [batch |-> NoCb, queue |-> <<>>, held |-> NoHeld, published |-> 0]
  /\ main = [pc |-> "idle", token |-> 0, layer |-> 0, sel |-> {}, ok |-> TRUE]
  /\ svc = "idle"
  /\ call = NoCall

-----------------------------------------------------------------------------
\* Entries, buffers and epochs.

Resident == {x \in Experts : entry[x].slot # NoSlot}
Inflight(x) == entry[x].slot # NoSlot /\ entry[x].seq > seq.done
\* A slip the model checker must catch: buffers in flight are taken.
VictimsAny(want) == {x \in Resident : x \notin want}
Victims(want) == {x \in Resident : ~Inflight(x) /\ x \notin want}
Entries == Cardinality(Resident)
Targets(pairs) == {p[2] : p \in pairs}
BufferOf(x, pairs) == CHOOSE s \in Slots : <<x, s>> \in pairs

Evicted(V) == [x \in Experts |-> IF x \in V THEN NoEntry ELSE entry[x]]
Recycled(V) == free \cup ({entry[x].slot : x \in V} \cap Slabs)
Installed(pairs) ==
  [x \in Experts |-> IF \E s \in Slots : <<x, s>> \in pairs
                     THEN [slot |-> BufferOf(x, pairs), seq |-> 0] ELSE entry[x]]
Marked(e, X) == [x \in Experts |-> IF x \in X THEN [e[x] EXCEPT !.seq = seq.batch] ELSE e[x]]
Tear(X) == [s \in Slots |-> IF s \in X THEN Torn ELSE content[s]]
Fill(pairs) == [s \in Slots |-> IF s \in Targets(pairs)
                                THEN (CHOOSE p \in pairs : p[2] = s)[1] ELSE content[s]]

\* A buffer outside the slab exists while an entry, a load or a command buffer refers to it.
Referred ==
  {entry[x].slot : x \in Experts} \cup Targets(load.into) \cup Targets(call.got)
    \cup Targets(gpu.batch.uses) \cup Targets(gpu.held.cb.uses)
    \cup UNION {Targets(gpu.queue[i].uses) : i \in DOMAIN gpu.queue}
Unallocated == (Slots \ Slabs) \ Referred

Highest(a, b) == IF a > b THEN a ELSE b
Lowest(a, b) == IF a < b THEN a ELSE b
OpenBatch(n) == [NoCb EXCEPT !.seq = n]

\* flush_commands: commit the batch and open the next one.
FlushBatch ==
  /\ gpu' = [gpu EXCEPT !.queue = Append(@, gpu.batch), !.batch = OpenBatch(seq.cb + 1)]
  /\ seq' = [seq EXCEPT !.pending = Highest(@, seq.batch),
                        !.cb = @ + 1, !.batch = seq.cb + 1]

\* wait_pending_command_buffers, once they have all run.
Waited == [seq EXCEPT !.done = Highest(@, seq.pending), !.pending = 0]

-----------------------------------------------------------------------------
\* The GPU and the read pool.

\* The next committed command buffer runs: its kernels read the buffers bound
\* when it was encoded; its router publishes its choice.
GpuRuns ==
  /\ gpu.queue # <<>>
  /\ LET cb == Head(gpu.queue) IN
       /\ gpu' = [gpu EXCEPT !.queue = Tail(@),
                             !.published = IF cb.router # 0 THEN cb.router ELSE @]
       /\ run' = [run EXCEPT !.wrong = @ \/ \E p \in cb.uses : content[p[2]] # p[1]]
  /\ UNCHANGED <<entry, content, free, load, seq, main, svc, call>>

ReadLands(x) ==
  /\ x \in load.reading
  /\ \E ok \in {TRUE, ~ReadsFail} :
       /\ load' = [load EXCEPT !.reading = @ \ {x}, !.failed = @ \/ ~ok]
       /\ content' = IF ok THEN [content EXCEPT ![BufferOf(x, load.into)] = x] ELSE content
  /\ UNCHANGED <<entry, free, seq, gpu, main, svc, call, run>>

-----------------------------------------------------------------------------
\* A load: begin_selected_load, or load_selected_missing (as "missing", "drain").

Start(who, why, want) ==
  call' = [NoCall EXCEPT !.by = who, !.as = why, !.pc = "join", !.want = want]
Joining == call.as \in {"missing", "drain"}
Returns(ok) == call' = [call EXCEPT !.pc = "return", !.ok = ok]
Matches == load.active /\ load.want = call.want

\* begin_selected_load: the same load is already pending.
AlreadyPending ==
  /\ call.pc = "join" /\ ~Joining /\ Matches
  /\ Returns(TRUE)
  /\ UNCHANGED <<entry, content, free, load, seq, gpu, main, svc, run>>

\* pending_load_finish: wait for the reads, install the experts unless one failed.
\* A failure counts only where the load is the one being joined.
JoinPending ==
  /\ call.pc = "join" /\ load.active /\ (Matches => Joining)
  /\ load.reading = {}
  /\ load' = NoLoad
  /\ IF load.failed
     THEN /\ IF Matches THEN Returns(FALSE) ELSE call' = [call EXCEPT !.pc = "plan"]
          /\ UNCHANGED entry
     ELSE /\ entry' = Installed(load.into)
          /\ call' = [call EXCEPT !.pc = "plan"]
  /\ UNCHANGED <<content, free, seq, gpu, main, svc, run>>

NothingPending ==
  /\ call.pc = "join" /\ ~load.active
  /\ call' = [call EXCEPT !.pc = "plan"]
  /\ UNCHANGED <<entry, content, free, load, seq, gpu, main, svc, run>>

\* Which experts are missing; many of them in a full cache are given victims in one scan.
PlanLoad ==
  /\ call.pc = "plan"
  /\ LET lack == call.want \ Resident IN
       IF lack = {} THEN Returns(TRUE)
       ELSE call' = [call EXCEPT !.lack = lack, !.reserved = Entries, !.waited = FALSE,
              !.pc = IF BatchReuse /\ Entries >= Budget /\ Cardinality(lack) > 1
                     THEN "batch" ELSE "take"]
  /\ UNCHANGED <<entry, content, free, load, seq, gpu, main, svc, run>>

SomeInflight == \E x \in Experts : Inflight(x)
MayWait == call.by # "service"
Full == call.reserved >= Budget

\* wait_inflight: commit the open batch, ...
StartWait ==
  /\ call' = [call EXCEPT !.pc = IF @ = "batch" THEN "batchwait" ELSE "takewait",
                          !.waited = TRUE]
  /\ FlushBatch
  /\ UNCHANGED <<entry, free>>

\* ... then wait until everything committed has run.
EndWait ==
  /\ call.pc \in {"batchwait", "takewait"} /\ gpu.queue = <<>>
  /\ seq' = Waited
  /\ call' = [call EXCEPT !.pc = IF @ = "batchwait" THEN "batch" ELSE "take"]
  /\ UNCHANGED <<entry, content, free, load, gpu, main, svc, run>>

Unserved == {x \in call.lack : \A p \in call.got : p[1] # x}
NextUnserved == CHOOSE x \in Unserved : TRUE
\* As many experts of X as there are victims, each with a victim of its own.
Pairings(X, able) ==
  UNION {Injection(S, able) : S \in kSubset(Lowest(Cardinality(X), Cardinality(able)), X)}

\* take_reusable_batch
TakeBatch ==
  /\ call.pc = "batch"
  /\ LET able == Victims(call.want) IN
       IF able # {}
       THEN \E f \in Pairings(call.lack, able) :
              /\ entry' = Evicted({f[x] : x \in DOMAIN f})
              /\ call' = [call EXCEPT !.pc = "take", !.waited = FALSE,
                                      !.got = {<<x, entry[f[x]].slot>> : x \in DOMAIN f}]
              /\ UNCHANGED <<free, seq, gpu>>
       ELSE IF SomeInflight /\ ~call.waited THEN StartWait
       ELSE /\ call' = [call EXCEPT !.pc = "take", !.waited = FALSE]
            /\ UNCHANGED <<entry, free, seq, gpu>>
  /\ UNCHANGED <<content, load, main, svc, run>>

Give(s) ==
  call' = [call EXCEPT !.got = @ \cup {<<NextUnserved, s>>}, !.waited = FALSE,
                       !.reserved = IF Full THEN @ ELSE @ + 1]

\* prepare_load_buffers, for the next missing expert: a victim's buffer in a full cache,
\* else a slab slot, else a buffer of its own, if there is memory for one; only the main
\* thread may wait for the GPU.
TakeBuffer ==
  /\ call.pc = "take" /\ Unserved # {}
  /\ LET evict == Full \/ Entries >= Budget
         able == IF evict THEN Victims(call.want) ELSE {}
     IN
       IF able # {}
       THEN \E v \in able :
              /\ entry' = Evicted({v})
              /\ Give(entry[v].slot)
              /\ UNCHANGED <<free, seq, gpu>>
       ELSE IF evict /\ SomeInflight /\ ~call.waited /\ MayWait
       THEN StartWait
       ELSE IF free # {}
       THEN LET s == CHOOSE s \in free : TRUE IN
              /\ free' = free \ {s}
              /\ Give(s)
              /\ UNCHANGED <<entry, seq, gpu>>
       ELSE /\ \/ Unallocated # {} /\ Give(CHOOSE s \in Unallocated : TRUE)
               \/ Returns(FALSE)
            /\ UNCHANGED <<entry, free, seq, gpu>>
  /\ UNCHANGED <<content, load, main, svc, run>>

Served == call.pc = "take" /\ Unserved = {}

\* pread_pool_begin: the reads run while the threads go on.
BeginReads ==
  /\ Served /\ ~Joining
  /\ load' = [active |-> TRUE, want |-> call.want, into |-> call.got,
              reading |-> call.lack, failed |-> FALSE]
  /\ content' = Tear(Targets(call.got))
  /\ call' = [call EXCEPT !.pc = "return", !.ok = TRUE, !.got = {}]
  /\ UNCHANGED <<entry, free, seq, gpu, main, svc, run>>

\* A slip: what a failed read left behind is installed.
ReadNowTorn ==
  /\ Served
  /\ \E ok \in {TRUE, ~ReadsFail} :
       /\ call' = [call EXCEPT !.pc = "return", !.ok = TRUE, !.got = {}]
       /\ entry' = Installed(call.got)
       /\ content' = IF ok THEN Fill(call.got) ELSE Tear(Targets(call.got))
  /\ UNCHANGED <<free, load, seq, gpu, main, svc, run>>

\* pread_tasks: read and wait; install the experts unless a read failed.
ReadNow ==
  /\ Served
  /\ \E ok \in {TRUE, ~ReadsFail} :
       /\ call' = [call EXCEPT !.pc = "return", !.ok = ok, !.got = {}]
       /\ entry' = IF ok THEN Installed(call.got) ELSE entry
       /\ content' = IF ok THEN Fill(call.got) ELSE Tear(Targets(call.got))
  /\ UNCHANGED <<free, load, seq, gpu, main, svc, run>>

\* ar_gather_phase2: the held command buffer is committed whether or not its reads succeeded.
ReleaseHeld ==
  /\ entry' = IF call.ok THEN Marked(entry, gpu.held.lack) ELSE entry
  /\ gpu' = [gpu EXCEPT !.queue = Append(@, gpu.held.cb), !.held = NoHeld]

\* What the caller does with the result.  flush_commands ignores what the drain
\* returns; the end of the token does not.
Moves(pc) == main' = [main EXCEPT !.pc = pc]
Resumed(pc) == main' = [main EXCEPT !.pc = IF call.ok THEN pc ELSE "end", !.ok = @ /\ call.ok]
AfterLoad ==
  \/ call.as = "early" /\ svc' = (IF call.ok THEN "loaded" ELSE "refused") /\ UNCHANGED main
  \/ call.as \in {"demand", "retry"} /\ Resumed("moe") /\ UNCHANGED svc
  \/ call.as = "missing" /\ Resumed("prune") /\ UNCHANGED svc
  \/ call.as = "ahead" /\ Moves("next") /\ UNCHANGED svc
  \/ /\ call.as = "drain"
     /\ main' = [main EXCEPT !.ok = @ /\ (main.pc = "end" => call.ok)] /\ UNCHANGED svc

LoadReturns ==
  /\ call.pc = "return"
  /\ AfterLoad
  /\ IF call.as = "drain" THEN ReleaseHeld ELSE UNCHANGED <<entry, gpu>>
  /\ call' = NoCall
  /\ UNCHANGED <<content, free, load, seq, run>>

Load ==
  \/ AlreadyPending \/ JoinPending \/ NothingPending \/ PlanLoad
  \/ TakeBatch \/ TakeBuffer \/ EndWait \/ BeginReads \/ ReadNow \/ LoadReturns

-----------------------------------------------------------------------------
\* The threads that decode.

MainFree == call.by # "main"

\* begin_commands: the token's first command buffer.
BeginToken ==
  /\ main.pc = "idle" /\ main.token < MaxTokens
  /\ main' = [main EXCEPT !.pc = "router", !.layer = 1, !.ok = TRUE]
  /\ seq' = [seq EXCEPT !.cb = @ + 1, !.batch = seq.cb + 1]
  /\ gpu' = [gpu EXCEPT !.batch = OpenBatch(seq.cb + 1), !.published = 0]
  /\ run' = [run EXCEPT !.wrong = FALSE]
  /\ UNCHANGED <<entry, content, free, load, svc, call>>

\* The router of a layer is encoded; which experts it will choose is known once it has run.
EncodeRouter ==
  /\ main.pc = "router"
  /\ \E X \in kSubset(Used, OfLayer(main.layer)) :
       main' = [main EXCEPT !.sel = X, !.pc = IF EarlyFlush THEN "early" ELSE "late"]
  /\ gpu' = [gpu EXCEPT !.batch.router = main.layer]
  /\ svc' = IF Flow = "service" THEN "job" ELSE svc
  /\ UNCHANGED <<entry, content, free, load, seq, call, run>>

\* A slip: nothing is committed.
FlushNothing ==
  /\ main.pc \in {"early", "late"} /\ MainFree
  /\ Moves(IF main.pc = "early" THEN "late" ELSE IF Flow = "service" THEN "finish" ELSE "poll")
  /\ UNCHANGED <<entry, content, free, load, seq, gpu, svc, call, run>>

\* flush_commands, before and after the shared expert: a held command buffer goes first.
Flush ==
  /\ main.pc \in {"early", "late"} /\ MainFree
  /\ IF gpu.held # NoHeld
     THEN Start("main", "drain", gpu.held.want) /\ UNCHANGED <<gpu, seq, main>>
     ELSE /\ FlushBatch
          /\ Moves(IF main.pc = "early" THEN "late"
                   ELSE IF Flow = "service" THEN "finish" ELSE "poll")
          /\ UNCHANGED call
  /\ UNCHANGED <<entry, content, free, load, svc, run>>

\* metal_graph_selected_async_load_run: the GPU has signalled the router's choice.
ServiceTakes ==
  /\ svc = "job" /\ gpu.published = main.layer
  /\ svc' = "loading"
  /\ Start("service", "early", main.sel)
  /\ UNCHANGED <<entry, content, free, load, seq, gpu, main, run>>

\* metal_graph_selected_async_load_finish; what the service refused is loaded here.
FinishService ==
  /\ main.pc = "finish" /\ svc \in {"loaded", "refused"}
  /\ svc' = "idle"
  /\ IF svc = "loaded" THEN Moves("moe") /\ UNCHANGED call
     ELSE Start("main", "retry", main.sel) /\ UNCHANGED main
  /\ UNCHANGED <<entry, content, free, load, seq, gpu, run>>

\* flag_readback_finish: the mailbox holds the choice, ...
Poll ==
  /\ main.pc = "poll" /\ MainFree /\ gpu.published = main.layer
  /\ Start("main", "demand", main.sel)
  /\ UNCHANGED <<entry, content, free, load, seq, gpu, main, svc, run>>

\* ... or the poll times out and everything committed is waited for.
PollTimesOut ==
  /\ main.pc = "poll" /\ MainFree /\ gpu.queue = <<>>
  /\ seq' = Waited
  /\ Start("main", "demand", main.sel)
  /\ UNCHANGED <<entry, content, free, load, gpu, main, svc, run>>

Missing == main.sel \ Resident
Buffers(X) == {<<x, entry[x].slot>> : x \in X}

\* The routed kernel is encoded over buffers still being read; its command buffer is held.
Deferrable == Gather /\ (Missing # {} => load.active /\ Missing \subseteq {p[1] : p \in load.into})

Defer ==
  /\ main.pc = "moe" /\ MainFree /\ Deferrable
  /\ LET uses == Buffers(main.sel \cap Resident) \cup {p \in load.into : p[1] \in Missing}
         cb == [gpu.batch EXCEPT !.uses = @ \cup uses]
     IN IF Missing = {}
        THEN gpu' = [gpu EXCEPT !.batch = cb] /\ UNCHANGED seq
        ELSE /\ gpu' = [gpu EXCEPT !.batch = OpenBatch(seq.cb + 1),
                          !.held = [cb |-> cb, want |-> main.sel, lack |-> Missing]]
             /\ seq' = [seq EXCEPT !.pending = Highest(@, seq.batch),
                                   !.cb = @ + 1, !.batch = seq.cb + 1]
  /\ entry' = Marked(entry, main.sel \cap Resident)
  /\ Moves("after")
  /\ UNCHANGED <<content, free, load, svc, call, run>>

\* routed_moe_one: join the reads of the missing experts, ...
JoinExperts ==
  /\ main.pc = "moe" /\ MainFree /\ ~Deferrable
  /\ IF Missing = {} THEN Moves("prune") /\ UNCHANGED call
     ELSE Start("main", "missing", main.sel) /\ UNCHANGED main
  /\ UNCHANGED <<entry, content, free, load, seq, gpu, svc, run>>

\* ... prune_global while there are too many (the least used expert goes, unless it is in
\* flight: then it is tried again), and encode the routed kernel over the experts' buffers.
Overfull == Entries > Budget /\ ~(Resident \subseteq main.sel)
Encode ==
  /\ main.pc = "prune"
  /\ IF Overfull
     THEN /\ \E x \in Resident \ main.sel :
               LET V == {x} \ {y \in Resident : Inflight(y)}
               IN entry' = Evicted(V) /\ free' = Recycled(V)
          /\ UNCHANGED <<gpu, main>>
     ELSE /\ entry' = Marked(entry, main.sel)
          /\ gpu' = [gpu EXCEPT !.batch.uses = @ \cup Buffers(main.sel)]
          /\ Moves("after")
          /\ UNCHANGED free
  /\ UNCHANGED <<content, load, seq, svc, call, run>>

\* ar_la_issue: the experts of this layer marked once more, the next layer's guessed ones read.
ReadAhead ==
  /\ main.pc = "after" /\ MainFree /\ Ahead /\ main.layer < NLayers
  /\ \E X \in SUBSET OfLayer(main.layer + 1) :
       X # {} /\ Cardinality(X) <= Used /\ Start("main", "ahead", X)
  /\ entry' = Marked(entry, main.sel)
  /\ UNCHANGED <<content, free, load, seq, gpu, main, svc, run>>

NextLayer ==
  /\ main.pc \in {"after", "next"} /\ MainFree
  /\ main' = IF main.layer < NLayers
             THEN [main EXCEPT !.pc = "router", !.layer = @ + 1]
             ELSE [main EXCEPT !.pc = "end"]
  /\ UNCHANGED <<entry, content, free, load, seq, gpu, svc, call, run>>

\* end_commands: after the held command buffer, commit the open one ...
EndToken ==
  /\ main.pc = "end" /\ MainFree
  /\ IF gpu.held # NoHeld
     THEN Start("main", "drain", gpu.held.want) /\ UNCHANGED <<gpu, seq, main>>
     ELSE /\ gpu' = [gpu EXCEPT !.queue = Append(@, gpu.batch), !.batch = NoCb]
          /\ seq' = [seq EXCEPT !.owned = seq.batch, !.batch = 0]
          /\ Moves("endwait")
          /\ UNCHANGED call
  /\ UNCHANGED <<entry, content, free, load, svc, run>>

\* ... and wait for all of them.
TokenEnds ==
  /\ main.pc = "endwait" /\ gpu.queue = <<>>
  /\ seq' = [seq EXCEPT !.done = Highest(@, Highest(seq.pending, seq.owned)), !.pending = 0, !.owned = 0]
  /\ run' = [run EXCEPT !.last = IF ~main.ok THEN "failed" ELSE IF run.wrong THEN "wrong" ELSE "right"]
  /\ main' = [main EXCEPT !.pc = "idle", !.token = @ + 1]
  /\ UNCHANGED <<entry, content, free, load, gpu, svc, call>>

Finished ==
  main.pc = "idle" /\ main.token = MaxTokens /\ UNCHANGED vars

MainStep ==
  \/ BeginToken \/ EncodeRouter \/ Flush \/ FinishService \/ Poll \/ PollTimesOut
  \/ Defer \/ JoinExperts \/ Encode \/ ReadAhead \/ NextLayer
  \/ EndToken \/ TokenEnds
  \/ (call.by = "main" /\ Load)
ServiceStep == ServiceTakes \/ (call.by = "service" /\ Load)
ReadPool == \E x \in Experts : ReadLands(x)

Next == MainStep \/ ServiceStep \/ GpuRuns \/ ReadPool \/ Finished
Spec == Init /\ [][Next]_vars

\* The threads are scheduled, command buffers complete, reads return.
LiveSpec ==
  /\ Spec
  /\ WF_vars(MainStep) /\ WF_vars(ServiceStep) /\ WF_vars(GpuRuns) /\ WF_vars(ReadPool)

-----------------------------------------------------------------------------
Committed == {gpu.queue[i] : i \in DOMAIN gpu.queue}
Holds(p) == content[p[2]] = p[1]

\* A command buffer that has not run yet still finds, in each buffer its kernels
\* are bound to, the expert it was encoded for: nothing is evicted and read over
\* between encoding and execution (entry_inflight, ds4_metal.m 1720; take_reusable
\* 16931; protect_layer 18063).  Only the held one may be waiting for a read.
KernelsHold ==
  /\ \A cb \in Committed \cup {gpu.batch} : \A p \in cb.uses : Holds(p)
  /\ \A p \in gpu.held.cb.uses : Holds(p) \/ p \in load.into

\* The epoch the CPU believes completed never reaches a command buffer that has
\* not run (note_pending_completed 1704, note_owned_completed 1711), so what such a
\* buffer uses is never taken for idle.
EpochSound ==
  \A cb \in Committed \cup ({gpu.batch, gpu.held.cb} \ {NoCb}) : cb.seq > seq.done

\* Command buffers reach the queue in the order they were opened, the held one
\* before what was encoded after it (flush_commands 9759, phase2 42297).
CommitOrder ==
  LET line == gpu.queue \o (IF gpu.held # NoHeld THEN <<gpu.held.cb>> ELSE <<>>)
                       \o (IF gpu.batch # NoCb THEN <<gpu.batch>> ELSE <<>>)
  IN \A i, j \in DOMAIN line : i < j => line[i].seq < line[j].seq

EntrySlots == {entry[x].slot : x \in Resident}

\* A buffer belongs to one expert, to the load that fills it, to the thread that
\* is preparing a load, or to the free list, never to two of them; and an expert
\* being read is not already resident, so that installing it drops no buffer
\* (prepare_load_buffers 17373, install_loaded 17644, pending_load_finish 17924).
OneOwner ==
  LET parts == <<free, EntrySlots, Targets(load.into), Targets(call.got)>>
  IN /\ \A i, j \in 1..4 : i # j => parts[i] \cap parts[j] = {}
     /\ Cardinality(EntrySlots) = Entries
     /\ Cardinality(Targets(load.into)) = Cardinality(load.into)
     /\ \A p \in load.into : p[1] \notin Resident

\* No buffer is written under a command buffer that reads it, nor by two loads:
\* the four facts above.
BuffersHold == KernelsHold /\ EpochSound /\ CommitOrder /\ OneOwner

\* No token that is reported good was computed from other weights than the
\* experts' the router chose, also where a read fails (ReadsFail).
TokenIsExact == run.last # "wrong"

\* Every slab slot is in use or free: loads that replace, prune or fail do not
\* lose any (push_free_slot 15424, release_buffers 17911).
NoSlabLost ==
  Slabs \subseteq free \cup EntrySlots \cup Targets(load.into) \cup Targets(call.got)

\* The selected-load service never commits or waits for command buffers while the
\* main thread encodes (ds4_metal.m 961, ds4.c 22605).
ServiceNeverWaits == call.by = "service" => call.pc \notin {"batchwait", "takewait"}

\* Pruning may go on for ever: the cache is over a budget too small for a token,
\* and the least used expert may be one in flight, which is never given up
\* (prune_global 17575, clear_entry).
PruneStuck ==
  /\ main.pc = "prune" /\ Overfull /\ Budget < NLayers * Used
  /\ \E x \in Resident \ main.sel : Inflight(x)

\* No wait for the GPU, the reads or the service thread is in vain: every token
\* ends, or is for ever pruning a cache whose budget is smaller than the experts
\* of a token while one of them is in flight.
TokensEnd == []<>(main.pc = "idle") \/ <>[]PruneStuck

\* Every token ends: pruning the cache terminates, too.
EveryTokenEnds == (main.pc # "idle") ~> (main.pc = "idle")
-----------------------------------------------------------------------------
(* The inductive invariant from which these follow.                        *)

MainPc == {"idle", "router", "early", "late", "finish", "poll", "moe", "prune",
           "after", "next", "end", "endwait"}
CallPc == {"none", "join", "plan", "batch", "batchwait", "take", "takewait", "return"}
Pairs == Experts \X Slots
Cb == [seq : Nat, uses : SUBSET Pairs, router : Nat]

TypeOK ==
  /\ entry \in [Experts -> [slot : Slots \cup {NoSlot}, seq : Nat]]
  /\ content \in [Slots -> Experts \cup {Torn}]
  /\ free \subseteq Slabs
  /\ load \in [active : BOOLEAN, want : SUBSET Experts, into : SUBSET Pairs,
               reading : SUBSET Experts, failed : BOOLEAN]
  /\ seq \in [cb : Nat, batch : Nat, owned : Nat, pending : Nat, done : Nat]
  /\ gpu \in [batch : Cb, queue : Seq(Cb), published : Nat,
              held : [cb : Cb, want : SUBSET Experts, lack : SUBSET Experts]]
  /\ main \in [pc : MainPc, token : Nat, layer : Nat, sel : SUBSET Experts, ok : BOOLEAN]
  /\ svc \in {"idle", "job", "loading", "loaded", "refused"}
  /\ call \in [by : {"none", "main", "service"}, pc : CallPc,
               as : {"none", "early", "demand", "retry", "missing", "ahead", "drain"},
               want : SUBSET Experts, lack : SUBSET Experts, got : SUBSET Pairs,
               reserved : Nat, waited : BOOLEAN, ok : BOOLEAN]
  /\ run \in [setting : Settings, wrong : BOOLEAN, last : {"none", "failed", "wrong", "right"}]

InToken == main.pc \notin {"idle", "endwait"}
Deferred == gpu.held # NoHeld
Draining == call.as = "drain"
Given(pairs) == {p[1] : p \in pairs}

\* Which thread loads what, by the place of the main thread and of the service.
CallFits ==
  /\ call.by = "none" <=> call.pc = "none"
  /\ call.pc = "none" => call = NoCall
  /\ call.by = "service" => svc = "loading" /\ call.as = "early"
  /\ call.by = "main" =>
       /\ svc = "idle"
       /\ \/ call.as = "demand" /\ main.pc = "poll"
          \/ call.as = "retry" /\ main.pc = "finish"
          \/ call.as = "missing" /\ main.pc = "moe"
          \/ call.as = "ahead" /\ main.pc = "after"
          \/ call.as = "drain" /\ main.pc \in {"late", "end"}
  /\ svc # "idle" => Flow = "service" /\ main.pc \in {"early", "late", "finish"}
  /\ main.pc = "early" => EarlyFlush
  /\ call.as = "ahead" => Ahead
  /\ call.as \in {"demand", "retry", "missing"} => call.want = main.sel
  /\ main.pc \in {"router", "early", "late", "finish", "poll", "moe", "prune", "after", "next"}
       => main.layer \in Layers

\* How far the load in progress has come.
CallHas ==
  /\ call.pc \notin {"none", "join", "return"} => ~load.active
  /\ call.pc \in {"batch", "batchwait", "take", "takewait"} =>
       /\ call.lack = call.want \ Resident
       /\ Given(call.got) \subseteq call.lack
  /\ call.got # {} => call.pc \in {"take", "takewait", "return"}
  /\ call.pc = "return" /\ call.ok =>
       /\ call.as = "missing" => call.want \subseteq Resident
       /\ call.as \in {"demand", "retry"} /\ load.active => load.want = call.want
  /\ main.pc = "prune" => main.sel \subseteq Resident
  /\ main.pc = "moe" /\ Gather /\ call.by = "none" /\ load.active => load.want = main.sel

LoadFits ==
  /\ ~load.active => load = NoLoad
  /\ load.reading \subseteq Given(load.into)
  /\ load.failed => ReadsFail

\* A command buffer is held from the deferral of a kernel to the next commit, and
\* the load it waits for is the pending one until the drain has joined it.
HeldWaits ==
  /\ Deferred => /\ Gather
                 /\ main.pc \in {"after", "next", "router", "late", "end"}
                 /\ gpu.held.lack \subseteq gpu.held.want
  /\ Draining => Deferred /\ call.want = gpu.held.want /\ call.pc \in {"join", "plan", "return"}
  /\ Deferred /\ (Draining => call.pc = "join") =>
       /\ load.active /\ load.want = gpu.held.want
       /\ gpu.held.want \ Resident \subseteq Given(load.into)
  /\ Draining /\ (call.pc = "plan" \/ (call.pc = "return" /\ call.ok)) => call.want \subseteq Resident
  /\ Draining /\ ~call.ok => ReadsFail

\* Every committed command buffer is older than the held one, and that than the open one.
Epochs ==
  /\ InToken => /\ gpu.batch.seq = seq.batch /\ seq.batch = seq.cb
                /\ seq.pending < seq.batch /\ seq.done < seq.batch
  /\ ~InToken => gpu.batch = NoCb
  /\ main.pc = "idle" => gpu.queue = <<>>
  /\ seq.done <= seq.cb /\ seq.pending <= seq.cb /\ seq.owned <= seq.cb /\ seq.batch <= seq.cb
  /\ \A i \in DOMAIN gpu.queue :
       /\ seq.done < gpu.queue[i].seq /\ gpu.queue[i].seq <= seq.cb
       /\ InToken => gpu.queue[i].seq < seq.batch
       /\ Deferred => gpu.queue[i].seq < gpu.held.cb.seq
       /\ \A j \in DOMAIN gpu.queue : i < j => gpu.queue[i].seq < gpu.queue[j].seq
  /\ Deferred => seq.done < gpu.held.cb.seq /\ gpu.held.cb.seq < seq.batch
  /\ \A x \in Experts : entry[x].seq <= seq.cb

OneToOne(pairs) == \A p, q \in pairs : p[1] = q[1] \/ p[2] = q[2] => p = q

\* OneOwner, by buffers.
Owners ==
  /\ \A x, y \in Resident : entry[x].slot = entry[y].slot => x = y
  /\ OneToOne(load.into) /\ OneToOne(call.got)
  /\ EntrySlots \cap free = {}
  /\ Targets(load.into) \cap (free \cup EntrySlots) = {}
  /\ Targets(call.got) \cap (free \cup EntrySlots \cup Targets(load.into)) = {}
  /\ Given(load.into) \cap Resident = {}

\* What a command buffer uses stays in the cache, marked with an epoch that is not
\* older than the buffer, until it has run.
MarkedFor(cb) == \A p \in cb.uses : entry[p[1]].slot = p[2] /\ cb.seq <= entry[p[1]].seq
UsesMarked ==
  /\ \A i \in DOMAIN gpu.queue : MarkedFor(gpu.queue[i])
  /\ MarkedFor(gpu.batch)
  /\ \A p \in gpu.held.cb.uses :
       \/ entry[p[1]].slot = p[2] /\ gpu.held.cb.seq <= entry[p[1]].seq
       \/ p[1] \in gpu.held.lack /\ (p \in load.into \/ entry[p[1]].slot = p[2])

WeightsHold ==
  /\ \A x \in Resident : content[entry[x].slot] = x
  /\ \A p \in load.into : load.failed \/ p[1] \in load.reading \/ Holds(p)
  /\ KernelsHold
  /\ ~run.wrong /\ TokenIsExact

CacheInv == TypeOK /\ CallFits /\ CallHas /\ LoadFits /\ HeldWaits /\ Epochs /\ Owners

\* What needs that a kernel encoded ahead of its reads is not let down by one of them.
Careful == ~(Gather /\ ReadsFail)
ContentInv == Careful => UsesMarked /\ WeightsHold
=============================================================================
