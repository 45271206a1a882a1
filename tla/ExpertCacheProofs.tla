--------------------------- MODULE ExpertCacheProofs ---------------------------
(***************************************************************************)
(* Proofs about ExpertCache, for any number of layers, experts, buffers    *)
(* and tokens, and every setting.                                          *)
(***************************************************************************)
EXTENDS ExpertCache, FiniteSetTheorems, TLAPS

-----------------------------------------------------------------------------
\* Types.

LEMMA Constants ==
  ASSUME TypeOK
  PROVE  /\ run.setting \in Setting /\ Budget \in Nat \ {0} /\ Extras \in Nat
         /\ Flow \in {"service", "mailbox"} /\ EarlyFlush \in BOOLEAN /\ Gather \in BOOLEAN
         /\ Ahead \in BOOLEAN /\ BatchReuse \in BOOLEAN /\ ReadsFail \in BOOLEAN
         /\ EarlyFlush => Flow = "service"
         /\ Gather \/ Ahead => Flow = "mailbox"
         /\ ~(Gather /\ Ahead)
<1>1. run.setting \in Settings
  BY DEF TypeOK
<1>2. run.setting \in Setting
  BY <1>1, CacheAssumption
<1>3. QED
  BY <1>1, <1>2, CacheAssumption
     DEF Setting, Budget, Flow, EarlyFlush, Gather, Ahead, BatchReuse, ReadsFail

\* The setting does not change.
LEMMA SettingStays ==
  ASSUME TypeOK, [Next]_vars
  PROVE  run'.setting = run.setting
<1>1. CASE Next
  BY <1>1 DEF Next, MainStep, ServiceStep, ReadPool, Finished, Load, TypeOK, vars,
    BeginToken, EncodeRouter, Flush, FinishService, Poll, PollTimesOut, Defer, JoinExperts,
    Encode, ReadAhead, NextLayer, EndToken, TokenEnds, ServiceTakes, GpuRuns, ReadLands,
    AlreadyPending, JoinPending, NothingPending, PlanLoad, TakeBatch, TakeBuffer, EndWait,
    BeginReads, ReadNow, LoadReturns
<1>2. CASE UNCHANGED vars
  BY <1>2 DEF vars
<1>3. QED
  BY <1>1, <1>2

LEMMA KeepsSetting ==
  ASSUME TypeOK, [Next]_vars
  PROVE  /\ Budget' = Budget /\ Flow' = Flow /\ EarlyFlush' = EarlyFlush /\ Gather' = Gather
         /\ Ahead' = Ahead /\ ReadsFail' = ReadsFail /\ Slots' = Slots /\ Slabs' = Slabs
         /\ Pairs' = Pairs /\ Cb' = Cb
  BY SettingStays DEF Budget, Flow, EarlyFlush, Gather, Ahead, ReadsFail, Slots, Slabs, Pairs, Cb

LEMMA SlotFacts ==
  ASSUME TypeOK
  PROVE  /\ Slabs \subseteq Slots /\ NoSlot \notin Slots /\ Torn \notin Experts
         /\ Slots \subseteq Nat
         /\ \A x \in Experts : entry[x] \in [slot : Slots \cup {NoSlot}, seq : Nat]
         /\ \A x \in Resident : entry[x].slot \in Slots
         /\ \A X \in SUBSET Resident : Buffers(X) \subseteq Pairs
<1>1. Slabs \subseteq Slots /\ NoSlot \notin Slots /\ Slots \subseteq Nat
  BY Constants DEF Slabs, Slots, NoSlot
<1>2. Torn \notin Experts
  BY CacheAssumption DEF Torn, Experts, Layers
<1>3. \A x \in Experts : entry[x] \in [slot : Slots \cup {NoSlot}, seq : Nat]
  BY DEF TypeOK
<1>4. \A x \in Resident : entry[x].slot \in Slots
  BY <1>3 DEF Resident
<1>5. QED
  BY <1>1, <1>2, <1>3, <1>4 DEF Buffers, Pairs, Resident

LEMMA FlushType ==
  ASSUME TypeOK, FlushBatch, run'.setting = run.setting
  PROVE  /\ seq' \in [cb : Nat, batch : Nat, owned : Nat, pending : Nat, done : Nat]
         /\ gpu' \in [batch : Cb, queue : Seq(Cb), published : Nat,
              held : [cb : Cb, want : SUBSET Experts, lack : SUBSET Experts]]
<1>1. seq \in [cb : Nat, batch : Nat, owned : Nat, pending : Nat, done : Nat]
  BY DEF TypeOK
<1>2. OpenBatch(seq.cb + 1) \in Cb
  BY <1>1 DEF OpenBatch, NoCb, Cb
<1>3. Highest(seq.pending, seq.batch) \in Nat
  BY <1>1 DEF Highest
<1>4. gpu.batch \in Cb /\ gpu.queue \in Seq(Cb)
  BY DEF TypeOK
<1>5. Append(gpu.queue, gpu.batch) \in Seq(Cb)
  BY <1>4
<1>9. seq.cb \in Nat /\ seq.batch \in Nat /\ seq.cb + 1 \in Nat
  BY <1>1
<1>6. seq' \in [cb : Nat, batch : Nat, owned : Nat, pending : Nat, done : Nat]
  BY <1>1, <1>3, <1>9 DEF FlushBatch
<1>7. gpu' \in [batch : Cb, queue : Seq(Cb), published : Nat,
              held : [cb : Cb, want : SUBSET Experts, lack : SUBSET Experts]]
  BY <1>2, <1>5 DEF FlushBatch, TypeOK
<1>8. QED
  BY <1>6, <1>7

LEMMA TypeInit == Init => TypeOK
<1> SUFFICES ASSUME Init PROVE TypeOK
  OBVIOUS
<1>1. NoCb \in Cb
  BY DEF NoCb, Cb
<1>2. run.setting \in Setting
  BY CacheAssumption DEF Init
<1>3. NoLoad \in [active : BOOLEAN, want : SUBSET Experts, into : SUBSET Pairs,
               reading : SUBSET Experts, failed : BOOLEAN]
  BY DEF NoLoad
<1>4. NoHeld \in [cb : Cb, want : SUBSET Experts, lack : SUBSET Experts]
  BY <1>1 DEF NoHeld
<1>5. NoCall \in [by : {"none", "main", "service"}, pc : CallPc,
               as : {"none", "early", "demand", "retry", "missing", "ahead", "drain"},
               want : SUBSET Experts, lack : SUBSET Experts, got : SUBSET Pairs,
               reserved : Nat, waited : BOOLEAN, ok : BOOLEAN]
  BY DEF NoCall, CallPc
<1>6. gpu \in [batch : Cb, queue : Seq(Cb), published : Nat,
              held : [cb : Cb, want : SUBSET Experts, lack : SUBSET Experts]]
  BY <1>1, <1>4 DEF Init
<1>7. entry \in [Experts -> [slot : Slots \cup {NoSlot}, seq : Nat]]
  BY DEF Init, NoEntry
<1>8. QED
  BY <1>1, <1>2, <1>3, <1>4, <1>5, <1>6, <1>7 DEF Init, TypeOK, MainPc

\* TypeOK with the parameters of this state.
EntryType == [Experts -> [slot : Slots \cup {NoSlot}, seq : Nat]]
LoadType == [active : BOOLEAN, want : SUBSET Experts, into : SUBSET Pairs,
             reading : SUBSET Experts, failed : BOOLEAN]
SeqType == [cb : Nat, batch : Nat, owned : Nat, pending : Nat, done : Nat]
HeldType == [cb : Cb, want : SUBSET Experts, lack : SUBSET Experts]
GpuType == [batch : Cb, queue : Seq(Cb), published : Nat, held : HeldType]
MainType == [pc : MainPc, token : Nat, layer : Nat, sel : SUBSET Experts, ok : BOOLEAN]
CallAs == {"none", "early", "demand", "retry", "missing", "ahead", "drain"}
CallType == [by : {"none", "main", "service"}, pc : CallPc, as : CallAs,
             want : SUBSET Experts, lack : SUBSET Experts, got : SUBSET Pairs,
             reserved : Nat, waited : BOOLEAN, ok : BOOLEAN]

LEMMA TypeParts ==
  TypeOK <=> /\ entry \in EntryType /\ content \in [Slots -> Experts \cup {Torn}]
             /\ free \subseteq Slabs /\ load \in LoadType /\ seq \in SeqType /\ gpu \in GpuType
             /\ main \in MainType /\ svc \in {"idle", "job", "loading", "loaded", "refused"}
             /\ call \in CallType
             /\ run \in [setting : Settings, wrong : BOOLEAN,
                         last : {"none", "failed", "wrong", "right"}]
  BY DEF TypeOK, EntryType, LoadType, SeqType, HeldType, GpuType, MainType, CallAs, CallType

LEMMA TypeNext ==
  ASSUME TypeOK, [Next]_vars,
         entry' \in EntryType, content' \in [Slots -> Experts \cup {Torn}],
         free' \subseteq Slabs, load' \in LoadType, seq' \in SeqType, gpu' \in GpuType,
         main' \in MainType, svc' \in {"idle", "job", "loading", "loaded", "refused"},
         call' \in CallType,
         run' \in [setting : Settings, wrong : BOOLEAN, last : {"none", "failed", "wrong", "right"}]
  PROVE  TypeOK'
  BY KeepsSetting DEF TypeOK, EntryType, LoadType, SeqType, HeldType, GpuType, MainType, CallAs, CallType

LEMMA StartType ==
  ASSUME NEW who \in {"main", "service"}, NEW why \in CallAs, NEW want \in SUBSET Experts,
         Start(who, why, want)
  PROVE  call' \in CallType
  BY DEF Start, NoCall, CallType, CallPc

LEMMA MovesType ==
  ASSUME TypeOK, NEW pc \in MainPc, Moves(pc)
  PROVE  main' \in MainType
  BY DEF Moves, TypeOK, MainType

LEMMA SeqFacts ==
  ASSUME TypeOK
  PROVE  /\ seq.cb \in Nat /\ seq.batch \in Nat /\ seq.cb + 1 \in Nat
         /\ seq.pending \in Nat /\ seq.done \in Nat /\ seq.owned \in Nat
         /\ Waited \in SeqType /\ OpenBatch(seq.cb + 1) \in Cb
<1>1. seq \in SeqType
  BY TypeParts
<1>2. /\ seq.cb \in Nat /\ seq.batch \in Nat /\ seq.cb + 1 \in Nat
      /\ seq.pending \in Nat /\ seq.done \in Nat /\ seq.owned \in Nat
  BY <1>1 DEF SeqType
<1>3. Highest(seq.done, seq.pending) \in Nat
  BY <1>2 DEF Highest
<1>4. Waited \in SeqType
  BY <1>1, <1>3 DEF Waited, SeqType
<1>5. OpenBatch(seq.cb + 1) \in Cb
  BY <1>2 DEF OpenBatch, NoCb, Cb
<1>6. QED
  BY <1>2, <1>4, <1>5

LEMMA TypeMain1 ==
  ASSUME TypeOK, CallFits, [Next]_vars,
         BeginToken \/ EncodeRouter \/ Flush \/ ServiceTakes \/ FinishService \/ Poll
           \/ PollTimesOut
  PROVE  TypeOK'
<1>t. /\ entry \in EntryType /\ content \in [Slots -> Experts \cup {Torn}]
      /\ free \subseteq Slabs /\ load \in LoadType /\ seq \in SeqType /\ gpu \in GpuType
      /\ main \in MainType /\ svc \in {"idle", "job", "loading", "loaded", "refused"}
      /\ call \in CallType
      /\ run \in [setting : Settings, wrong : BOOLEAN,
                  last : {"none", "failed", "wrong", "right"}]
  BY TypeParts
<1>s. /\ seq.cb \in Nat /\ seq.batch \in Nat /\ seq.cb + 1 \in Nat
      /\ Waited \in SeqType
  BY SeqFacts
<1>b. OpenBatch(seq.cb + 1) \in Cb
  BY SeqFacts
<1>1. CASE BeginToken
  <2>1. seq' \in SeqType
    BY <1>1, <1>t, <1>s DEF BeginToken, SeqType
  <2>2. gpu' \in GpuType
    BY <1>1, <1>t, <1>b DEF BeginToken, GpuType
  <2>3. main' \in MainType
    BY <1>1, <1>t DEF BeginToken, MainType, MainPc
  <2>4. run' \in [setting : Settings, wrong : BOOLEAN, last : {"none", "failed", "wrong", "right"}]
    BY <1>1, <1>t DEF BeginToken
  <2>5. QED
    BY <1>1, <1>t, <2>1, <2>2, <2>3, <2>4, TypeNext DEF BeginToken
<1>2. CASE EncodeRouter
  <2>1. main.layer \in Layers
    BY <1>2 DEF EncodeRouter, CallFits
  <2>2. \A X \in kSubset(Used, OfLayer(main.layer)) : X \in SUBSET Experts
    BY <2>1 DEF kSubset, OfLayer, Experts
  <2>3. main' \in MainType
    <3>1. PICK X \in kSubset(Used, OfLayer(main.layer)) :
            main' = [main EXCEPT !.sel = X, !.pc = IF EarlyFlush THEN "early" ELSE "late"]
      BY <1>2 DEF EncodeRouter
    <3>2. X \in SUBSET Experts
      BY <2>2
    <3>3. (IF EarlyFlush THEN "early" ELSE "late") \in MainPc
      BY DEF MainPc
    <3>4. QED
      BY <1>t, <3>1, <3>2, <3>3 DEF MainType
  <2>4. gpu' \in GpuType
    BY <1>2, <1>t DEF EncodeRouter, GpuType, MainType, Cb
  <2>5. QED
    BY <1>2, <1>t, <2>3, <2>4, TypeNext DEF EncodeRouter
<1>3. CASE Flush
  <2>1. CASE Deferred
    <3>1. gpu.held.want \in SUBSET Experts
      BY <1>t DEF GpuType, HeldType
    <3>2. call' \in CallType
      BY <1>3, <2>1, <3>1, StartType DEF Flush, Deferred, CallAs
    <3>3. QED
      BY <1>3, <1>t, <2>1, <3>2, TypeNext DEF Flush, Deferred
  <2>2. CASE ~Deferred
    <3>1. seq' \in SeqType /\ gpu' \in GpuType
      BY <1>3, <2>2, FlushType, SettingStays DEF Flush, Deferred, SeqType, GpuType, HeldType
    <3>2. main' \in MainType
      BY <1>3, <2>2, MovesType DEF Flush, Deferred, MainPc
    <3>3. QED
      BY <1>3, <1>t, <2>2, <3>1, <3>2, TypeNext DEF Flush, Deferred
  <2>3. QED
    BY <2>1, <2>2
<1>4. CASE ServiceTakes \/ FinishService \/ Poll \/ PollTimesOut
  <2>1. main.sel \in SUBSET Experts
    BY <1>t DEF MainType
  <2>2. call' \in CallType
    BY <1>4, <1>t, <2>1, StartType DEF ServiceTakes, FinishService, Poll, PollTimesOut, CallAs
  <2>3. main' \in MainType
    BY <1>4, <1>t, MovesType DEF ServiceTakes, FinishService, Poll, PollTimesOut, MainPc
  <2>4. QED
    BY <1>4, <1>t, <1>s, <2>2, <2>3, TypeNext DEF ServiceTakes, FinishService, Poll, PollTimesOut
<1>5. QED
  BY <1>1, <1>2, <1>3, <1>4

LEMMA EntryTypes ==
  ASSUME TypeOK
  PROVE  /\ \A V \in SUBSET Experts : Evicted(V) \in EntryType
         /\ \A e \in EntryType, X \in SUBSET Experts : Marked(e, X) \in EntryType
         /\ \A V \in SUBSET Experts : Recycled(V) \subseteq Slabs
         /\ \A P \in SUBSET Pairs : Installed(P) \in EntryType
<1>1. entry \in EntryType /\ seq.batch \in Nat /\ free \subseteq Slabs
  BY TypeParts, SeqFacts
<1>2. \A V \in SUBSET Experts : Evicted(V) \in EntryType
  BY <1>1 DEF EntryType, Evicted, NoEntry
<1>3. \A e \in EntryType, X \in SUBSET Experts : Marked(e, X) \in EntryType
  BY <1>1 DEF EntryType, Marked
<1>4. \A V \in SUBSET Experts : Recycled(V) \subseteq Slabs
  BY <1>1 DEF Recycled
<1>5. ASSUME NEW P \in SUBSET Pairs PROVE Installed(P) \in EntryType
  <2>1. \A x \in Experts : (\E s \in Slots : <<x, s>> \in P) => BufferOf(x, P) \in Slots
    BY DEF BufferOf
  <2>2. QED
    BY <1>1, <2>1 DEF EntryType, Installed
<1>6. QED
  BY <1>2, <1>3, <1>4, <1>5

LEMMA TypeMain2 ==
  ASSUME TypeOK, CallFits, CallHas, [Next]_vars,
         Defer \/ JoinExperts \/ Encode \/ ReadAhead \/ NextLayer \/ EndToken \/ TokenEnds
  PROVE  TypeOK'
<1>t. /\ entry \in EntryType /\ content \in [Slots -> Experts \cup {Torn}]
      /\ free \subseteq Slabs /\ load \in LoadType /\ seq \in SeqType /\ gpu \in GpuType
      /\ main \in MainType /\ svc \in {"idle", "job", "loading", "loaded", "refused"}
      /\ call \in CallType
      /\ run \in [setting : Settings, wrong : BOOLEAN,
                  last : {"none", "failed", "wrong", "right"}]
  BY TypeParts
<1>s. /\ seq.cb \in Nat /\ seq.batch \in Nat /\ seq.cb + 1 \in Nat
      /\ seq.pending \in Nat /\ seq.done \in Nat /\ seq.owned \in Nat
      /\ OpenBatch(seq.cb + 1) \in Cb
  BY SeqFacts
<1>m. main.sel \in SUBSET Experts /\ Missing \in SUBSET Experts
  BY <1>t DEF MainType, Missing
<1>g. /\ gpu.batch \in Cb /\ gpu.queue \in Seq(Cb) /\ gpu.held \in HeldType
      /\ gpu.batch.uses \in SUBSET Pairs
  BY <1>t DEF GpuType, Cb
<1>1. CASE Defer
  <2> DEFINE uses == Buffers(main.sel \cap Resident) \cup {p \in load.into : p[1] \in Missing}
             cb == [gpu.batch EXCEPT !.uses = @ \cup uses]
  <2>1. uses \in SUBSET Pairs
    BY <1>t, SlotFacts DEF LoadType
  <2>2. cb \in Cb
    BY <1>g, <2>1 DEF Cb
  <2>3. [cb |-> cb, want |-> main.sel, lack |-> Missing] \in HeldType
    BY <1>m, <2>2 DEF HeldType
  <2> HIDE DEF cb
  <2>4. gpu' \in GpuType
    <3>1. CASE Missing = {}
      BY <1>1, <1>t, <2>2, <3>1 DEF Defer, GpuType, cb
    <3>2. CASE Missing # {}
      BY <1>1, <1>t, <1>s, <2>3, <3>2 DEF Defer, GpuType, cb
    <3>3. QED
      BY <3>1, <3>2
  <2>5. Highest(seq.pending, seq.batch) \in Nat
    BY <1>s DEF Highest
  <2>6. seq' \in SeqType
    BY <1>1, <1>t, <1>s, <2>5 DEF Defer, SeqType
  <2>7. entry' \in EntryType
    <3>1. entry' = Marked(entry, main.sel \cap Resident)
      BY <1>1 DEF Defer
    <3>2. main.sel \cap Resident \in SUBSET Experts
      BY DEF Resident
    <3>3. QED
      BY <1>t, <3>1, <3>2, EntryTypes
  <2>8. main' \in MainType
    BY <1>1, MovesType DEF Defer, MainPc
  <2>9. QED
    BY <1>1, <1>t, <2>4, <2>6, <2>7, <2>8, TypeNext DEF Defer
<1>2. CASE JoinExperts
  <2>1. call' \in CallType
    BY <1>2, <1>t, <1>m, StartType DEF JoinExperts, CallAs
  <2>2. main' \in MainType
    BY <1>2, <1>t, MovesType DEF JoinExperts, MainPc
  <2>3. QED
    BY <1>2, <1>t, <2>1, <2>2, TypeNext DEF JoinExperts
<1>3. CASE Encode
  <2>1. CASE Overfull
    <3>1. PICK x \in Resident \ main.sel :
            LET V == {x} \ {y \in Resident : Inflight(y)}
            IN entry' = Evicted(V) /\ free' = Recycled(V)
      BY <1>3, <2>1 DEF Encode
    <3>2. {x} \ {y \in Resident : Inflight(y)} \in SUBSET Experts
      BY DEF Resident
    <3>3. entry' \in EntryType /\ free' \subseteq Slabs
      BY <3>1, <3>2, EntryTypes
    <3>4. QED
      BY <1>3, <1>t, <2>1, <3>3, TypeNext DEF Encode
  <2>2. CASE ~Overfull
    <3>1. Buffers(main.sel) \in SUBSET Pairs
      BY <1>3, SlotFacts DEF Encode, CallHas
    <3>2. gpu' \in GpuType
      <4>1. [gpu.batch EXCEPT !.uses = @ \cup Buffers(main.sel)] \in Cb
        BY <1>g, <3>1 DEF Cb
      <4>2. gpu' = [gpu EXCEPT !.batch = [gpu.batch EXCEPT !.uses = @ \cup Buffers(main.sel)]]
        BY <1>3, <2>2 DEF Encode
      <4>3. QED
        BY <1>t, <4>1, <4>2 DEF GpuType
    <3>3. entry' \in EntryType
      BY <1>3, <1>t, <1>m, <2>2, EntryTypes DEF Encode
    <3>4. main' \in MainType
      BY <1>3, <2>2, MovesType DEF Encode, MainPc
    <3>5. QED
      BY <1>3, <1>t, <2>2, <3>2, <3>3, <3>4, TypeNext DEF Encode
  <2>3. QED
    BY <2>1, <2>2
<1>4. CASE ReadAhead
  <2>1. main.layer \in Layers /\ main.layer + 1 \in Layers
    BY <1>4, CacheAssumption DEF ReadAhead, CallFits, Layers
  <2>2. PICK X \in SUBSET OfLayer(main.layer + 1) : Start("main", "ahead", X)
    BY <1>4 DEF ReadAhead
  <2>3. X \in SUBSET Experts
    BY <2>1 DEF OfLayer, Experts
  <2>4. call' \in CallType
    BY <2>2, <2>3, StartType DEF CallAs
  <2>5. entry' \in EntryType
    BY <1>4, <1>t, <1>m, EntryTypes DEF ReadAhead
  <2>6. QED
    BY <1>4, <1>t, <2>4, <2>5, TypeNext DEF ReadAhead
<1>5. CASE NextLayer
  <2>1. main.layer + 1 \in Nat
    BY <1>t DEF MainType
  <2>2. main' \in MainType
    BY <1>5, <1>t, <2>1 DEF NextLayer, MainType, MainPc
  <2>3. QED
    BY <1>5, <1>t, <2>2, TypeNext DEF NextLayer
<1>6. CASE EndToken
  <2>1. CASE Deferred
    <3>1. gpu.held.want \in SUBSET Experts
      BY <1>t DEF GpuType, HeldType
    <3>2. call' \in CallType
      BY <1>6, <2>1, <3>1, StartType DEF EndToken, Deferred, CallAs
    <3>3. QED
      BY <1>6, <1>t, <2>1, <3>2, TypeNext DEF EndToken, Deferred
  <2>2. CASE ~Deferred
    <3>1. NoCb \in Cb /\ Append(gpu.queue, gpu.batch) \in Seq(Cb)
      BY <1>g DEF NoCb, Cb
    <3>2. gpu' \in GpuType
      BY <1>6, <1>t, <2>2, <3>1 DEF EndToken, Deferred, GpuType
    <3>3. seq' \in SeqType
      <4>1. seq' = [seq EXCEPT !.owned = seq.batch, !.batch = 0]
        BY <1>6, <2>2 DEF EndToken, Deferred
      <4>2. QED
        BY <1>t, <1>s, <4>1 DEF SeqType
    <3>4. main' \in MainType
      BY <1>6, <2>2, MovesType DEF EndToken, Deferred, MainPc
    <3>5. QED
      BY <1>6, <1>t, <2>2, <3>2, <3>3, <3>4, TypeNext DEF EndToken, Deferred
  <2>3. QED
    BY <2>1, <2>2
<1>7. CASE TokenEnds
  <2>1. Highest(seq.done, Highest(seq.pending, seq.owned)) \in Nat
    BY <1>s DEF Highest
  <2>2. seq' \in SeqType
    BY <1>7, <1>t, <2>1 DEF TokenEnds, SeqType
  <2>3. main' \in MainType
    <3>1. main.token + 1 \in Nat
      BY <1>t DEF MainType
    <3>2. main' = [main EXCEPT !.pc = "idle", !.token = @ + 1]
      BY <1>7 DEF TokenEnds
    <3>3. QED
      BY <1>t, <3>1, <3>2 DEF MainType, MainPc
  <2>4. run' \in [setting : Settings, wrong : BOOLEAN, last : {"none", "failed", "wrong", "right"}]
    BY <1>7, <1>t DEF TokenEnds
  <2>5. QED
    BY <1>7, <1>t, <2>2, <2>3, <2>4, TypeNext DEF TokenEnds
<1>8. QED
  BY <1>1, <1>2, <1>3, <1>4, <1>5, <1>6, <1>7

LEMMA TypeGpu ==
  ASSUME TypeOK, LoadFits, [Next]_vars, GpuRuns \/ ReadPool
  PROVE  TypeOK'
<1>t. /\ entry \in EntryType /\ content \in [Slots -> Experts \cup {Torn}]
      /\ free \subseteq Slabs /\ load \in LoadType /\ seq \in SeqType /\ gpu \in GpuType
      /\ main \in MainType /\ svc \in {"idle", "job", "loading", "loaded", "refused"}
      /\ call \in CallType
      /\ run \in [setting : Settings, wrong : BOOLEAN,
                  last : {"none", "failed", "wrong", "right"}]
  BY TypeParts
<1>1. CASE GpuRuns
  <2>1. gpu.queue \in Seq(Cb) /\ gpu.queue # <<>>
    BY <1>1, <1>t DEF GpuRuns, GpuType
  <2>2. Head(gpu.queue) \in Cb /\ Tail(gpu.queue) \in Seq(Cb)
    BY <2>1
  <2>3. Head(gpu.queue).router \in Nat
    BY <2>2 DEF Cb
  <2>4. gpu' \in GpuType
    BY <1>1, <1>t, <2>2, <2>3 DEF GpuRuns, GpuType
  <2>5. run' \in [setting : Settings, wrong : BOOLEAN, last : {"none", "failed", "wrong", "right"}]
    BY <1>1, <1>t DEF GpuRuns
  <2>6. QED
    BY <1>1, <1>t, <2>4, <2>5, TypeNext DEF GpuRuns
<1>2. CASE ReadPool
  <2>1. PICK x \in Experts : ReadLands(x)
    BY <1>2 DEF ReadPool
  <2>2. load' \in LoadType
    <3>1. PICK ok \in {TRUE, ~ReadsFail} :
            load' = [load EXCEPT !.reading = @ \ {x}, !.failed = @ \/ ~ok]
      BY <2>1 DEF ReadLands
    <3>2. load.reading \ {x} \in SUBSET Experts /\ (load.failed \/ ~ok) \in BOOLEAN
      BY <1>t DEF LoadType
    <3>3. QED
      BY <1>t, <3>1, <3>2 DEF LoadType
  <2>3. content' \in [Slots -> Experts \cup {Torn}]
    BY <1>t, <2>1 DEF ReadLands
  <2>4. QED
    BY <1>t, <2>1, <2>2, <2>3, TypeNext DEF ReadLands
<1>3. QED
  BY <1>1, <1>2

LEMMA CallTypes ==
  ASSUME TypeOK
  PROVE  /\ \A ok \in BOOLEAN : Returns(ok) => call' \in CallType
         /\ \A pc \in CallPc : [call EXCEPT !.pc = pc] \in CallType
         /\ call.want \in SUBSET Experts /\ call.lack \in SUBSET Experts
         /\ call.got \in SUBSET Pairs /\ call.reserved \in Nat
         /\ call.pc \in CallPc /\ call.by \in {"none", "main", "service"} /\ call.as \in CallAs
         /\ call.waited \in BOOLEAN /\ call.ok \in BOOLEAN
<1>1. call \in CallType
  BY TypeParts
<1>2. /\ call.want \in SUBSET Experts /\ call.lack \in SUBSET Experts
      /\ call.got \in SUBSET Pairs /\ call.reserved \in Nat
      /\ call.pc \in CallPc /\ call.by \in {"none", "main", "service"} /\ call.as \in CallAs
      /\ call.waited \in BOOLEAN /\ call.ok \in BOOLEAN
  BY <1>1 DEF CallType
<1>3. \A pc \in CallPc : [call EXCEPT !.pc = pc] \in CallType
  BY <1>1 DEF CallType
<1>4. \A ok \in BOOLEAN : [call EXCEPT !.pc = "return", !.ok = ok] \in CallType
  BY <1>1 DEF CallType, CallPc
<1>5. \A ok \in BOOLEAN : Returns(ok) => call' \in CallType
  BY <1>4 DEF Returns
<1>6. QED
  BY <1>2, <1>3, <1>5

LEMMA EntriesNat == TypeOK => IsFiniteSet(Experts) /\ IsFiniteSet(Resident) /\ Entries \in Nat
<1>1. IsFiniteSet(Layers) /\ IsFiniteSet(1..NIds)
  BY FS_Interval, CacheAssumption DEF Layers
<1>2. IsFiniteSet(Experts)
  BY <1>1, FS_Product DEF Experts
<1>3. Resident \subseteq Experts
  BY DEF Resident
<1>4. IsFiniteSet(Resident)
  BY <1>2, <1>3, FS_Subset
<1>5. QED
  BY <1>2, <1>4, FS_CardinalityType DEF Entries

LEMMA StartWaitType ==
  ASSUME TypeOK, StartWait, run'.setting = run.setting
  PROVE  call' \in CallType /\ gpu' \in GpuType /\ seq' \in SeqType
<1>1. gpu' \in GpuType /\ seq' \in SeqType
  BY FlushType DEF StartWait, GpuType, SeqType, HeldType
<1>2. call \in CallType
  BY TypeParts
<1>3. (IF call.pc = "batch" THEN "batchwait" ELSE "takewait") \in CallPc
  BY DEF CallPc
<1>4. call' \in CallType
  BY <1>2, <1>3 DEF StartWait, CallType
<1>5. QED
  BY <1>1, <1>4

\* What Give(s) adds to the call.
LEMMA GiveType ==
  ASSUME TypeOK, NEW s \in Slots, Unserved # {}, Give(s)
  PROVE  call' \in CallType /\ NextUnserved \in Unserved
<1>1. call \in CallType
  BY TypeParts
<1>2. NextUnserved \in Unserved
  BY DEF NextUnserved
<1>3. Unserved \subseteq Experts
  BY <1>1 DEF Unserved, CallType
<1>4. call.got \cup {<<NextUnserved, s>>} \in SUBSET Pairs
  BY <1>1, <1>2, <1>3 DEF CallType, Pairs
<1>5. (IF Full THEN call.reserved ELSE call.reserved + 1) \in Nat
  BY <1>1 DEF CallType
<1>6. call' \in CallType
  BY <1>1, <1>4, <1>5 DEF Give, CallType
<1>7. QED
  BY <1>2, <1>6

\* What a batch of victims gives the missing experts.
LEMMA PairingFacts ==
  ASSUME TypeOK, NEW able \in SUBSET Resident, NEW f \in Pairings(call.lack, able)
  PROVE  /\ DOMAIN f \subseteq call.lack
         /\ \A x \in DOMAIN f : f[x] \in able
         /\ \A x, y \in DOMAIN f : f[x] = f[y] => x = y
<1>1. PICK S \in kSubset(Lowest(Cardinality(call.lack), Cardinality(able)), call.lack) :
        f \in Injection(S, able)
  BY DEF Pairings
<1>2. S \subseteq call.lack
  BY DEF kSubset
<1>3. f \in [S -> able] /\ \A x, y \in S : f[x] = f[y] => x = y
  BY <1>1 DEF Injection, IsInjective
<1>4. QED
  BY <1>2, <1>3

LEMMA TakeBatchCases ==
  ASSUME TakeBatch
  PROVE  \/ \E f \in Pairings(call.lack, Victims(call.want)) :
              /\ entry' = Evicted({f[x] : x \in DOMAIN f})
              /\ call' = [call EXCEPT !.pc = "take", !.waited = FALSE,
                                      !.got = {<<x, entry[f[x]].slot>> : x \in DOMAIN f}]
              /\ UNCHANGED <<free, seq, gpu>>
         \/ StartWait
         \/ call' = [call EXCEPT !.pc = "take", !.waited = FALSE] /\ UNCHANGED <<entry, free, seq, gpu>>
  BY DEF TakeBatch

LEMMA TakeBufferCases ==
  ASSUME TakeBuffer
  PROVE  \/ \E v \in Victims(call.want) : /\ entry' = Evicted({v}) /\ Give(entry[v].slot)
                                          /\ UNCHANGED <<free, seq, gpu>>
         \/ StartWait
         \/ \E s \in free : free' = free \ {s} /\ Give(s) /\ UNCHANGED <<entry, seq, gpu>>
         \/ \E s \in Unallocated : Give(s) /\ UNCHANGED <<entry, free, seq, gpu>>
         \/ Returns(FALSE) /\ UNCHANGED <<entry, free, seq, gpu>>
<1> DEFINE evict == Full \/ Entries >= Budget
           able == IF evict THEN Victims(call.want) ELSE {}
<1>1. CASE able # {}
  BY <1>1 DEF TakeBuffer
<1>2. CASE able = {} /\ evict /\ SomeInflight /\ ~call.waited /\ MayWait
  BY <1>2 DEF TakeBuffer
<1>3. CASE able = {} /\ ~(evict /\ SomeInflight /\ ~call.waited /\ MayWait) /\ free # {}
  <2>1. (CHOOSE s \in free : TRUE) \in free
    BY <1>3
  <2>2. QED
    BY <1>3, <2>1 DEF TakeBuffer
<1>4. CASE able = {} /\ ~(evict /\ SomeInflight /\ ~call.waited /\ MayWait) /\ free = {}
  <2>1. Unallocated # {} => (CHOOSE s \in Unallocated : TRUE) \in Unallocated
    OBVIOUS
  <2>2. QED
    BY <1>4, <2>1 DEF TakeBuffer
<1>5. QED
  BY <1>1, <1>2, <1>3, <1>4

LEMMA AfterLoadType ==
  ASSUME TypeOK, AfterLoad
  PROVE  main' \in MainType /\ svc' \in {"idle", "job", "loading", "loaded", "refused"}
<1>1. main \in MainType /\ svc \in {"idle", "job", "loading", "loaded", "refused"} /\ call.ok \in BOOLEAN
  BY TypeParts, CallTypes
<1>2. \A pc \in MainPc, ok \in BOOLEAN : /\ [main EXCEPT !.pc = pc, !.ok = ok] \in MainType
                                        /\ [main EXCEPT !.pc = pc] \in MainType
                                        /\ [main EXCEPT !.ok = ok] \in MainType
  BY <1>1 DEF MainType
<1>3. (main.ok /\ call.ok) \in BOOLEAN /\ (main.ok /\ (main.pc = "end" => call.ok)) \in BOOLEAN
  OBVIOUS
<1>4. \A pc \in {"moe", "prune"} : Resumed(pc) => main' \in MainType
  <2>1. \A pc \in {"moe", "prune"} : (IF call.ok THEN pc ELSE "end") \in MainPc
    BY DEF MainPc
  <2>2. ASSUME NEW pc \in {"moe", "prune"}, Resumed(pc) PROVE main' \in MainType
    <3> DEFINE to == IF call.ok THEN pc ELSE "end"
               ok == main.ok /\ call.ok
    <3>1. main' = [main EXCEPT !.pc = to, !.ok = ok]
      BY <2>2 DEF Resumed
    <3>2. to \in MainPc /\ ok \in BOOLEAN
      BY <2>1
    <3> HIDE DEF to, ok
    <3>3. QED
      BY <1>2, <3>1, <3>2
  <2>3. QED
    BY <2>2
<1>5. Moves("next") => main' \in MainType
  BY <1>2 DEF Moves, MainPc
<1>6. CASE call.as = "early" /\ svc' = (IF call.ok THEN "loaded" ELSE "refused") /\ UNCHANGED main
  BY <1>1, <1>6
<1>7. CASE call.as \in {"demand", "retry", "missing"}
  BY <1>1, <1>4, <1>7 DEF AfterLoad
<1>8. CASE call.as = "ahead"
  BY <1>1, <1>5, <1>8 DEF AfterLoad
<1>9. CASE call.as = "drain"
  <2>1. main' = [main EXCEPT !.ok = @ /\ (main.pc = "end" => call.ok)] /\ UNCHANGED svc
    BY <1>9 DEF AfterLoad
  <2>2. [main EXCEPT !.ok = (main.ok /\ (main.pc = "end" => call.ok))] \in MainType
    BY <1>2, <1>3 DEF MainPc
  <2>3. QED
    BY <1>1, <2>1, <2>2
<1>10. QED
  BY <1>6, <1>7, <1>8, <1>9 DEF AfterLoad

LEMMA TypeLoad ==
  ASSUME TypeOK, [Next]_vars, Load
  PROVE  TypeOK'
<1>t. /\ entry \in EntryType /\ content \in [Slots -> Experts \cup {Torn}]
      /\ free \subseteq Slabs /\ load \in LoadType /\ seq \in SeqType /\ gpu \in GpuType
      /\ main \in MainType /\ svc \in {"idle", "job", "loading", "loaded", "refused"}
      /\ call \in CallType
      /\ run \in [setting : Settings, wrong : BOOLEAN,
                  last : {"none", "failed", "wrong", "right"}]
  BY TypeParts
<1>s. Waited \in SeqType
  BY SeqFacts
<1>n. NoLoad \in LoadType /\ NoCall \in CallType
  BY DEF NoLoad, NoCall, LoadType, CallType, CallPc, CallAs
<1>1. CASE AlreadyPending \/ NothingPending
  <2>1. call' \in CallType
    BY <1>1, CallTypes DEF AlreadyPending, NothingPending, CallPc
  <2>2. QED
    BY <1>1, <1>t, <2>1, TypeNext DEF AlreadyPending, NothingPending
<1>2. CASE JoinPending
  <2>1. call' \in CallType
    BY <1>2, CallTypes DEF JoinPending, CallPc
  <2>2. Installed(load.into) \in EntryType
    BY <1>t, EntryTypes DEF LoadType
  <2>3. entry' \in EntryType
    BY <1>2, <1>t, <2>2 DEF JoinPending
  <2>4. QED
    BY <1>2, <1>t, <1>n, <2>1, <2>3, TypeNext DEF JoinPending
<1>3. CASE PlanLoad
  <2>1. call.want \ Resident \in SUBSET Experts /\ Entries \in Nat
    BY CallTypes, EntriesNat
  <2>2. CASE call.want \ Resident = {}
    <3>1. call' \in CallType
      BY <1>3, <2>2, CallTypes DEF PlanLoad
    <3>2. QED
      BY <1>3, <1>t, <3>1, TypeNext DEF PlanLoad
  <2>3. CASE call.want \ Resident # {}
    <3> DEFINE pc == IF BatchReuse /\ Entries >= Budget /\ Cardinality(call.want \ Resident) > 1
                     THEN "batch" ELSE "take"
    <3>1. call' = [call EXCEPT !.lack = call.want \ Resident, !.reserved = Entries,
                               !.waited = FALSE, !.pc = pc]
      BY <1>3, <2>3 DEF PlanLoad
    <3>2. pc \in CallPc
      BY DEF CallPc
    <3> HIDE DEF pc
    <3>3. call' \in CallType
      BY <1>t, <2>1, <3>1, <3>2 DEF CallType
    <3>4. QED
      BY <1>3, <1>t, <3>3, TypeNext DEF PlanLoad
  <2>4. QED
    BY <2>2, <2>3
<1>4. CASE TakeBatch
  <2>0. UNCHANGED <<content, load, main, svc, run>>
    BY <1>4 DEF TakeBatch
  <2>1. ASSUME NEW f \in Pairings(call.lack, Victims(call.want)),
               entry' = Evicted({f[x] : x \in DOMAIN f}),
               call' = [call EXCEPT !.pc = "take", !.waited = FALSE,
                                    !.got = {<<x, entry[f[x]].slot>> : x \in DOMAIN f}],
               UNCHANGED <<free, seq, gpu>>
        PROVE  TypeOK'
    <3>1. Victims(call.want) \in SUBSET Resident
      BY DEF Victims
    <3>2. DOMAIN f \subseteq Experts /\ \A x \in DOMAIN f : f[x] \in Resident
      BY <3>1, PairingFacts, CallTypes
    <3>3. {<<x, entry[f[x]].slot>> : x \in DOMAIN f} \in SUBSET Pairs
      BY <3>2, SlotFacts DEF Pairs
    <3>4. call' \in CallType
      BY <1>t, <2>1, <3>3 DEF CallType, CallPc
    <3>5. {f[x] : x \in DOMAIN f} \in SUBSET Experts
      BY <3>2 DEF Resident
    <3>6. entry' \in EntryType
      BY <2>1, <3>5, EntryTypes
    <3>7. QED
      BY <1>t, <2>0, <2>1, <3>4, <3>6, TypeNext
  <2>2. CASE StartWait
    BY <1>t, <2>0, <2>2, StartWaitType, TypeNext, SettingStays DEF StartWait
  <2>3. CASE call' = [call EXCEPT !.pc = "take", !.waited = FALSE] /\ UNCHANGED <<entry, free, seq, gpu>>
    <3>1. call' \in CallType
      BY <1>t, <2>3 DEF CallType, CallPc
    <3>2. QED
      BY <1>t, <2>0, <2>3, <3>1, TypeNext
  <2>4. QED
    BY <1>4, <2>1, <2>2, <2>3, TakeBatchCases
<1>5. CASE TakeBuffer
  <2>1. Unserved # {} /\ UNCHANGED <<content, load, main, svc, run>>
    BY <1>5 DEF TakeBuffer
  <2>2. ASSUME NEW v \in Resident, entry' = Evicted({v}), Give(entry[v].slot),
               UNCHANGED <<free, seq, gpu>>
        PROVE  TypeOK'
    <3>1. entry[v].slot \in Slots /\ {v} \in SUBSET Experts
      BY SlotFacts DEF Resident
    <3>2. entry' \in EntryType
      BY <2>2, <3>1, EntryTypes
    <3>3. call' \in CallType
      BY <2>1, <2>2, <3>1, GiveType
    <3>4. QED
      BY <1>t, <2>1, <2>2, <3>2, <3>3, TypeNext
  <2>3. CASE StartWait
    BY <1>t, <2>1, <2>3, StartWaitType, TypeNext DEF StartWait
  <2>4. ASSUME NEW s \in Slabs, free' = free \ {s}, Give(s), UNCHANGED <<entry, seq, gpu>>
        PROVE  TypeOK'
    <3>1. call' \in CallType
      BY <2>1, <2>4, SlotFacts, GiveType
    <3>2. QED
      BY <1>t, <2>1, <2>4, <3>1, TypeNext
  <2>5. ASSUME NEW s \in Slots, Give(s), UNCHANGED <<entry, free, seq, gpu>>
        PROVE  TypeOK'
    <3>1. call' \in CallType
      BY <2>1, <2>5, GiveType
    <3>2. QED
      BY <1>t, <2>1, <2>5, <3>1, TypeNext
  <2>6. CASE Returns(FALSE) /\ UNCHANGED <<entry, free, seq, gpu>>
    BY <1>t, <2>1, <2>6, CallTypes, TypeNext
  <2>7. QED
    <3>1. Victims(call.want) \subseteq Resident /\ free \subseteq Slabs /\ Unallocated \subseteq Slots
      BY <1>t DEF Victims, Unallocated
    <3>2. QED
      BY <1>5, <2>2, <2>3, <2>4, <2>5, <2>6, <3>1, TakeBufferCases
<1>6. CASE EndWait
  <2>1. (IF call.pc = "batchwait" THEN "batch" ELSE "take") \in CallPc
    BY DEF CallPc
  <2>2. call' \in CallType
    BY <1>6, <2>1, CallTypes DEF EndWait
  <2>3. QED
    BY <1>6, <1>t, <1>s, <2>2, TypeNext DEF EndWait
<1>7. CASE BeginReads
  <2>1. load' \in LoadType
    BY <1>7, CallTypes DEF BeginReads, LoadType
  <2>2. content' \in [Slots -> Experts \cup {Torn}]
    BY <1>7, <1>t DEF BeginReads, Tear
  <2>3. call' \in CallType
    BY <1>7, <1>t DEF BeginReads, CallType, CallPc
  <2>4. QED
    BY <1>7, <1>t, <2>1, <2>2, <2>3, TypeNext DEF BeginReads
<1>8. CASE ReadNow
  <2>1. PICK ok \in {TRUE, ~ReadsFail} :
          /\ call' = [call EXCEPT !.pc = "return", !.ok = ok, !.got = {}]
          /\ entry' = IF ok THEN Installed(call.got) ELSE entry
          /\ content' = IF ok THEN Fill(call.got) ELSE Tear(Targets(call.got))
    BY <1>8 DEF ReadNow
  <2>2. ok \in BOOLEAN
    OBVIOUS
  <2>3. call' \in CallType
    BY <1>t, <2>1, <2>2 DEF CallType, CallPc
  <2>4. entry' \in EntryType
    BY <1>t, <2>1, CallTypes, EntryTypes
  <2>5. Fill(call.got) \in [Slots -> Experts \cup {Torn}]
    BY <1>t, CallTypes DEF Fill, Targets, Pairs
  <2>6. Tear(Targets(call.got)) \in [Slots -> Experts \cup {Torn}]
    BY <1>t DEF Tear
  <2>7. content' \in [Slots -> Experts \cup {Torn}]
    BY <2>1, <2>5, <2>6
  <2>8. QED
    BY <1>8, <1>t, <2>3, <2>4, <2>7, TypeNext DEF ReadNow
<1>9. CASE LoadReturns
  <2>1. entry' \in EntryType /\ gpu' \in GpuType
    <3>1. CASE call.as = "drain"
      <4>1. gpu.held \in HeldType /\ gpu.queue \in Seq(Cb)
        BY <1>t DEF GpuType
      <4>2. gpu.held.cb \in Cb /\ gpu.held.lack \in SUBSET Experts
        BY <4>1 DEF HeldType
      <4>3. Append(gpu.queue, gpu.held.cb) \in Seq(Cb)
        BY <4>1, <4>2
      <4>4. NoHeld \in HeldType
        BY DEF NoHeld, HeldType, NoCb, Cb
      <4>5. gpu' \in GpuType
        BY <1>9, <1>t, <3>1, <4>3, <4>4 DEF LoadReturns, ReleaseHeld, GpuType
      <4>6. entry' \in EntryType
        BY <1>9, <1>t, <3>1, <4>2, EntryTypes DEF LoadReturns, ReleaseHeld
      <4>7. QED
        BY <4>5, <4>6
    <3>2. CASE call.as # "drain"
      BY <1>9, <1>t, <3>2 DEF LoadReturns
    <3>3. QED
      BY <3>1, <3>2
  <2>2. main' \in MainType /\ svc' \in {"idle", "job", "loading", "loaded", "refused"}
    BY <1>9, <1>t, AfterLoadType DEF LoadReturns
  <2>3. QED
    BY <1>9, <1>t, <1>n, <2>1, <2>2, TypeNext DEF LoadReturns
<1>10. QED
  BY <1>1, <1>2, <1>3, <1>4, <1>5, <1>6, <1>7, <1>8, <1>9 DEF Load

LEMMA TypeStep ==
  ASSUME TypeOK, CallFits, CallHas, LoadFits, [Next]_vars
  PROVE  TypeOK'
<1>1. CASE BeginToken \/ EncodeRouter \/ Flush \/ ServiceTakes \/ FinishService \/ Poll
             \/ PollTimesOut
  BY <1>1, TypeMain1
<1>2. CASE Defer \/ JoinExperts \/ Encode \/ ReadAhead \/ NextLayer \/ EndToken \/ TokenEnds
  BY <1>2, TypeMain2
<1>3. CASE GpuRuns \/ ReadPool
  BY <1>3, TypeGpu
<1>4. CASE Load
  BY <1>4, TypeLoad
<1>5. CASE Finished \/ UNCHANGED vars
  BY <1>5, TypeParts, TypeNext DEF Finished, vars
<1>6. QED
  BY <1>1, <1>2, <1>3, <1>4, <1>5 DEF Next, MainStep, ServiceStep

-----------------------------------------------------------------------------
\* Which thread loads what.

\* A step of a load that does not end it.
LoadGoesOn ==
  \/ AlreadyPending \/ JoinPending \/ NothingPending \/ PlanLoad
  \/ TakeBatch \/ TakeBuffer \/ EndWait \/ BeginReads \/ ReadNow

LEMMA LoadKeepsCall ==
  ASSUME TypeOK, LoadGoesOn
  PROVE  /\ call'.by = call.by /\ call'.as = call.as /\ call'.want = call.want
         /\ call.pc \notin {"none", "return"} /\ call'.pc \notin {"none", "join"}
         /\ UNCHANGED <<main, svc, run>>
<1>t. call \in CallType
  BY TypeParts
<1>r. \A ok \in BOOLEAN : Returns(ok) =>
        /\ call'.by = call.by /\ call'.as = call.as /\ call'.want = call.want /\ call'.pc = "return"
  BY <1>t DEF Returns, CallType
<1>p. \A pc \in CallPc : call' = [call EXCEPT !.pc = pc] =>
        /\ call'.by = call.by /\ call'.as = call.as /\ call'.want = call.want /\ call'.pc = pc
  BY <1>t DEF CallType
<1>w. StartWait => /\ call'.by = call.by /\ call'.as = call.as /\ call'.want = call.want
                   /\ call'.pc \in {"batchwait", "takewait"}
  BY <1>t DEF StartWait, CallType
<1>1. CASE AlreadyPending \/ NothingPending \/ JoinPending
  BY <1>1, <1>r, <1>p DEF AlreadyPending, NothingPending, JoinPending, CallPc
<1>2. CASE PlanLoad
  <2>1. CASE call.want \ Resident = {}
    BY <1>2, <1>r, <2>1 DEF PlanLoad
  <2>2. CASE call.want \ Resident # {}
    BY <1>2, <1>t, <2>2 DEF PlanLoad, CallType
  <2>3. QED
    BY <2>1, <2>2
<1>3. CASE TakeBatch
  <2>1. call.pc = "batch" /\ UNCHANGED <<main, svc, run>>
    BY <1>3 DEF TakeBatch
  <2>2. ASSUME NEW got, call' = [call EXCEPT !.pc = "take", !.waited = FALSE, !.got = got]
        PROVE  call'.by = call.by /\ call'.as = call.as /\ call'.want = call.want /\ call'.pc = "take"
    BY <1>t, <2>2 DEF CallType
  <2>3. CASE call' = [call EXCEPT !.pc = "take", !.waited = FALSE]
    BY <1>t, <2>1, <2>3 DEF CallType
  <2>4. QED
    BY <1>3, <1>w, <2>1, <2>2, <2>3, TakeBatchCases
<1>4. CASE TakeBuffer
  <2>1. call.pc = "take" /\ UNCHANGED <<main, svc, run>>
    BY <1>4 DEF TakeBuffer
  <2>2. ASSUME NEW s, Give(s)
        PROVE  call'.by = call.by /\ call'.as = call.as /\ call'.want = call.want /\ call'.pc = "take"
    BY <1>t, <2>1, <2>2 DEF Give, CallType
  <2>3. QED
    BY <1>4, <1>w, <1>r, <2>1, <2>2, TakeBufferCases
<1>5. CASE EndWait
  BY <1>5, <1>t DEF EndWait, CallType
<1>6. CASE BeginReads
  BY <1>6, <1>t DEF BeginReads, Served, CallType
<1>7. CASE ReadNow
  BY <1>7, <1>t DEF ReadNow, Served, CallType
<1>8. QED
  BY <1>1, <1>2, <1>3, <1>4, <1>5, <1>6, <1>7 DEF LoadGoesOn

\* What the start of a load says of it.
LEMMA Started ==
  ASSUME NEW who, NEW why, NEW want, Start(who, why, want)
  PROVE  /\ call'.by = who /\ call'.as = why /\ call'.pc = "join" /\ call'.want = want
         /\ call'.lack = {} /\ call'.got = {} /\ call'.ok = TRUE
  BY DEF Start, NoCall

LEMMA MovedTo ==
  ASSUME TypeOK, NEW pc, Moves(pc)
  PROVE  /\ main'.pc = pc /\ main'.sel = main.sel /\ main'.layer = main.layer
         /\ main'.ok = main.ok /\ main'.token = main.token
  BY TypeParts DEF Moves, MainType

\* Where the main thread goes when a load returns.
LEMMA ReturnedTo ==
  ASSUME TypeOK, AfterLoad
  PROVE  /\ main'.sel = main.sel /\ main'.layer = main.layer
         /\ call.as = "early" => main' = main /\ svc' = (IF call.ok THEN "loaded" ELSE "refused")
         /\ call.as # "early" => svc' = svc
         /\ call.as \in {"demand", "retry"} => main'.pc = IF call.ok THEN "moe" ELSE "end"
         /\ call.as = "missing" => main'.pc = IF call.ok THEN "prune" ELSE "end"
         /\ call.as = "ahead" => main'.pc = "next"
         /\ call.as = "drain" => main'.pc = main.pc
<1>t. main \in MainType
  BY TypeParts
<1>1. CASE call.as = "early"
  BY <1>1 DEF AfterLoad
<1>2. CASE call.as \in {"demand", "retry"}
  BY <1>t, <1>2 DEF AfterLoad, Resumed, MainType
<1>3. CASE call.as = "missing"
  BY <1>t, <1>3 DEF AfterLoad, Resumed, MainType
<1>4. CASE call.as = "ahead"
  BY <1>t, <1>4 DEF AfterLoad, Moves, MainType
<1>5. CASE call.as = "drain"
  BY <1>t, <1>5 DEF AfterLoad, MainType
<1>6. QED
  BY <1>1, <1>2, <1>3, <1>4, <1>5 DEF AfterLoad

\* CallFits after a step that leaves the call alone, or ends it.
LEMMA CallFitsMain ==
  ASSUME TypeOK, CallFits, HeldWaits, [Next]_vars,
         BeginToken \/ EncodeRouter \/ Flush \/ ServiceTakes \/ FinishService \/ Poll
           \/ PollTimesOut
  PROVE  CallFits'
<1> USE DEF CallFits
<1>k. /\ Flow' = Flow /\ EarlyFlush' = EarlyFlush /\ Ahead' = Ahead
      /\ EarlyFlush => Flow = "service"
      /\ Gather => Flow = "mailbox"
      /\ Flow \in {"service", "mailbox"}
  BY KeepsSetting, Constants
<1>l. 1 \in Layers
  BY CacheAssumption DEF Layers
<1>t. main \in MainType /\ call \in CallType
  BY TypeParts
<1>1. CASE BeginToken
  <2>1. main'.pc = "router" /\ main'.layer = 1 /\ main'.sel = main.sel
    BY <1>1, <1>t DEF BeginToken, MainType
  <2>2. UNCHANGED <<svc, call>> /\ main.pc = "idle"
    BY <1>1 DEF BeginToken
  <2>3. QED
    BY <1>k, <1>l, <2>1, <2>2
<1>2. CASE EncodeRouter
  <2>1. /\ main'.pc = (IF EarlyFlush THEN "early" ELSE "late") /\ main'.layer = main.layer
        /\ main.pc = "router" /\ UNCHANGED call
        /\ svc' = IF Flow = "service" THEN "job" ELSE svc
    BY <1>2, <1>t DEF EncodeRouter, MainType
  <2>2. call.by = "none" /\ svc = "idle" /\ call = NoCall
    BY <1>t, <2>1 DEF CallType, NoCall
  <2>3. QED
    BY <1>k, <2>1, <2>2 DEF NoCall
<1>3. CASE Flush
  <2>1. main.pc \in {"early", "late"} /\ call.by # "main" /\ UNCHANGED svc
    BY <1>3 DEF Flush, MainFree
  <2>2. CASE Deferred
    <3>1. Start("main", "drain", gpu.held.want) /\ UNCHANGED main
      BY <1>3, <2>2 DEF Flush, Deferred
    <3>2. main.pc = "late" /\ svc = "idle"
      BY <1>k, <2>1, <2>2 DEF HeldWaits
    <3>3. QED
      <4>a. call'.by = "main" /\ call'.as = "drain" /\ call'.want = gpu.held.want /\ call'.pc = "join"
        BY <3>1 DEF Start, NoCall
      <4>b. QED
        BY <1>k, <2>1, <3>1, <3>2, <4>a
  <2>3. CASE ~Deferred
    <3>1. /\ Moves(IF main.pc = "early" THEN "late" ELSE IF Flow = "service" THEN "finish" ELSE "poll")
          /\ UNCHANGED call
      BY <1>3, <2>3 DEF Flush, Deferred
    <3>2. /\ main'.pc = IF main.pc = "early" THEN "late"
                        ELSE IF Flow = "service" THEN "finish" ELSE "poll"
          /\ main'.layer = main.layer /\ main'.sel = main.sel
      BY <3>1, MovedTo
    <3>3. QED
      BY <1>k, <1>t, <2>1, <3>1, <3>2 DEF CallType
  <2>4. QED
    BY <2>2, <2>3
<1>4. CASE ServiceTakes
  <2>1. svc = "job" /\ svc' = "loading" /\ Start("service", "early", main.sel) /\ UNCHANGED main
    BY <1>4 DEF ServiceTakes
  <2>2. QED
    <3>a. call'.by = "service" /\ call'.as = "early" /\ call'.want = main.sel /\ call'.pc = "join"
      BY <2>1 DEF Start, NoCall
    <3>b. QED
      BY <1>k, <2>1, <3>a
<1>5. CASE FinishService
  <2>1. main.pc = "finish" /\ svc \in {"loaded", "refused"} /\ svc' = "idle"
    BY <1>5 DEF FinishService
  <2>2. call.by = "none" /\ call = NoCall
    BY <1>t, <2>1 DEF CallType
  <2>3. CASE svc = "loaded"
    <3>1. Moves("moe") /\ UNCHANGED call
      BY <1>5, <2>3 DEF FinishService
    <3>2. QED
      BY <1>k, <2>1, <2>2, <3>1, MovedTo DEF NoCall
  <2>4. CASE svc # "loaded"
    <3>1. Start("main", "retry", main.sel) /\ UNCHANGED main
      BY <1>5, <2>4 DEF FinishService
    <3>2. QED
      <4>a. call'.by = "main" /\ call'.as = "retry" /\ call'.want = main.sel /\ call'.pc = "join"
        BY <3>1 DEF Start, NoCall
      <4>b. QED
        BY <1>k, <2>1, <3>1, <4>a
  <2>5. QED
    BY <2>3, <2>4
<1>6. CASE Poll \/ PollTimesOut
  <2>1. main.pc = "poll" /\ Start("main", "demand", main.sel) /\ UNCHANGED <<main, svc>>
    BY <1>6 DEF Poll, PollTimesOut
  <2>2. QED
    <3>a. call'.by = "main" /\ call'.as = "demand" /\ call'.want = main.sel /\ call'.pc = "join"
      BY <2>1 DEF Start, NoCall
    <3>b. QED
      BY <1>k, <2>1, <3>a
<1>7. QED
  BY <1>1, <1>2, <1>3, <1>4, <1>5, <1>6

LEMMA CallFitsStep ==
  ASSUME TypeOK, CallFits, HeldWaits, [Next]_vars
  PROVE  CallFits'
<1> USE DEF CallFits
<1>k. /\ Flow' = Flow /\ EarlyFlush' = EarlyFlush /\ Ahead' = Ahead
      /\ Gather => Flow = "mailbox"
  BY KeepsSetting, Constants
<1>t. main \in MainType /\ call \in CallType
  BY TypeParts
<1>b. call.by # "main" /\ svc = "idle" => call = NoCall
  BY <1>t DEF CallType
<1>1. CASE Defer \/ JoinExperts \/ Encode \/ ReadAhead
  <2>1. CASE Defer
    BY <1>k, <1>b, <2>1, MovedTo DEF Defer, MainFree, NoCall
  <2>2. CASE JoinExperts
    <3>1. /\ main.pc = "moe" /\ MainFree /\ UNCHANGED svc
          /\ \/ Moves("prune") /\ UNCHANGED call
             \/ Start("main", "missing", main.sel) /\ UNCHANGED main
      BY <2>2 DEF JoinExperts
    <3>2. CASE Moves("prune") /\ UNCHANGED call
      BY <1>k, <1>b, <3>1, <3>2, MovedTo DEF MainFree, NoCall
    <3>3. CASE Start("main", "missing", main.sel) /\ UNCHANGED main
      <4>a. call'.by = "main" /\ call'.as = "missing" /\ call'.want = main.sel /\ call'.pc = "join"
        BY <3>3 DEF Start, NoCall
      <4>b. QED
        BY <1>k, <3>1, <3>3, <4>a
    <3>4. QED
      BY <3>1, <3>2, <3>3
  <2>3. CASE Encode
    <3>1. main.pc = "prune" /\ UNCHANGED <<svc, call>> /\ (UNCHANGED main \/ Moves("after"))
      BY <2>3 DEF Encode
    <3>2. CASE UNCHANGED main
      BY <1>k, <3>1, <3>2
    <3>3. CASE Moves("after")
      BY <1>k, <1>b, <3>1, <3>3, MovedTo DEF NoCall
    <3>4. QED
      BY <3>1, <3>2, <3>3
  <2>4. CASE ReadAhead
    <3>1. PICK X : Start("main", "ahead", X)
      BY <2>4 DEF ReadAhead
    <3>2. QED
      <4>a. call'.by = "main" /\ call'.as = "ahead" /\ call'.want = X /\ call'.pc = "join"
        BY <3>1 DEF Start, NoCall
      <4>b. QED
        BY <1>k, <2>4, <3>1, <4>a DEF ReadAhead
  <2>5. QED
    BY <1>1, <2>1, <2>2, <2>3, <2>4
<1>2. CASE NextLayer
  <2>1. main.pc \in {"after", "next"} /\ MainFree /\ UNCHANGED <<svc, call>>
    BY <1>2 DEF NextLayer
  <2>2. main.layer \in Layers
    BY <2>1
  <2>3. \/ main'.pc = "router" /\ main'.layer \in Layers
        \/ main'.pc = "end"
    <3>1. CASE main.layer < NLayers
      <4>1. main' = [main EXCEPT !.pc = "router", !.layer = @ + 1]
        BY <1>2, <3>1 DEF NextLayer
      <4>2. main.layer + 1 \in Layers
        BY <2>2, <3>1, CacheAssumption DEF Layers
      <4>3. QED
        BY <1>t, <4>1, <4>2 DEF MainType
    <3>2. CASE ~(main.layer < NLayers)
      BY <1>2, <1>t, <3>2 DEF NextLayer, MainType
    <3>3. QED
      BY <3>1, <3>2
  <2>4. call = NoCall /\ svc = "idle"
    BY <1>b, <2>1 DEF MainFree
  <2>5. QED
    BY <1>k, <2>1, <2>3, <2>4 DEF NoCall
<1>3. CASE EndToken
  <2>1. /\ main.pc = "end" /\ MainFree /\ UNCHANGED svc
        /\ \/ Moves("endwait") /\ UNCHANGED call
           \/ Start("main", "drain", gpu.held.want) /\ UNCHANGED main
    BY <1>3 DEF EndToken
  <2>2. CASE Moves("endwait") /\ UNCHANGED call
    BY <1>k, <1>b, <2>1, <2>2, MovedTo DEF MainFree, NoCall
  <2>3. CASE Start("main", "drain", gpu.held.want) /\ UNCHANGED main
    <3>a. call'.by = "main" /\ call'.as = "drain" /\ call'.want = gpu.held.want /\ call'.pc = "join"
      BY <2>3 DEF Start, NoCall
    <3>b. QED
      BY <1>k, <2>1, <2>3, <3>a
  <2>4. QED
    BY <2>1, <2>2, <2>3
<1>4. CASE TokenEnds
  <2>1. main'.pc = "idle" /\ UNCHANGED <<svc, call>> /\ main.pc = "endwait"
    BY <1>4, <1>t DEF TokenEnds, MainType
  <2>2. call = NoCall /\ svc = "idle"
    BY <1>t, <2>1 DEF CallType
  <2>3. QED
    BY <1>k, <2>1, <2>2 DEF NoCall
<1>5. CASE LoadGoesOn
  BY <1>5, <1>k, LoadKeepsCall
<1>6. CASE LoadReturns
  <2>1. call.pc = "return" /\ AfterLoad /\ call' = NoCall
    BY <1>6 DEF LoadReturns
  <2>2. call.by = "service" \/ call.by = "main"
    BY <1>t, <2>1 DEF CallType
  <2>3. CASE call.by = "service"
    BY <1>k, <2>1, <2>3, ReturnedTo DEF NoCall
  <2>4. CASE call.by = "main"
    BY <1>k, <2>1, <2>4, ReturnedTo DEF NoCall
  <2>5. QED
    BY <2>2, <2>3, <2>4
<1>7. CASE GpuRuns \/ ReadPool \/ Finished \/ UNCHANGED vars
  <2>1. UNCHANGED <<call, svc, main>>
    BY <1>7 DEF GpuRuns, ReadPool, ReadLands, Finished, vars
  <2>2. QED
    BY <1>k, <2>1
<1>8. CASE BeginToken \/ EncodeRouter \/ Flush \/ ServiceTakes \/ FinishService \/ Poll
             \/ PollTimesOut
  BY <1>8, CallFitsMain
<1>9. QED
  BY <1>1, <1>2, <1>3, <1>4, <1>5, <1>6, <1>7, <1>8 DEF Next, MainStep, ServiceStep, Load, LoadGoesOn

-----------------------------------------------------------------------------
\* Entries that are evicted, marked, installed.

LEMMA EntriesEvicted ==
  ASSUME TypeOK, NEW V, entry' = Evicted(V)
  PROVE  /\ Resident' = Resident \ V
         /\ \A x \in Resident' : entry'[x] = entry[x]
         /\ \A x \in Experts : entry'[x].seq \in {entry[x].seq, 0}
         /\ \A x \in Experts : x \notin V => entry'[x] = entry[x]
<1>1. \A x \in Experts : entry'[x] = IF x \in V THEN NoEntry ELSE entry[x]
  BY DEF Evicted
<1>2. NoEntry.slot = NoSlot /\ NoEntry.seq = 0
  BY DEF NoEntry
<1>3. QED
  BY <1>1, <1>2 DEF Resident

LEMMA EntriesMarked ==
  ASSUME TypeOK, NEW X, entry' = Marked(entry, X)
  PROVE  /\ Resident' = Resident
         /\ \A x \in Experts : entry'[x].slot = entry[x].slot
         /\ \A x \in Experts : entry'[x].seq = IF x \in X THEN seq.batch ELSE entry[x].seq
<1>1. \A x \in Experts : entry[x] \in [slot : Slots \cup {NoSlot}, seq : Nat]
  BY SlotFacts
<1>2. \A x \in Experts : entry'[x] = IF x \in X THEN [entry[x] EXCEPT !.seq = seq.batch] ELSE entry[x]
  BY DEF Marked
<1>3. \A x \in Experts : /\ entry'[x].slot = entry[x].slot
                         /\ entry'[x].seq = IF x \in X THEN seq.batch ELSE entry[x].seq
  BY <1>1, <1>2
<1>4. QED
  BY <1>3 DEF Resident

\* The buffer of an expert, in a set of pairs that is one to one.
LEMMA BufferOfPair ==
  ASSUME NEW P \in SUBSET Pairs, OneToOne(P), NEW p \in P
  PROVE  p[1] \in Experts /\ p[2] \in Slots /\ p = <<p[1], p[2]>> /\ BufferOf(p[1], P) = p[2]
<1>1. p[1] \in Experts /\ p[2] \in Slots /\ p = <<p[1], p[2]>>
  BY DEF Pairs
<1>2. <<p[1], BufferOf(p[1], P)>> \in P
  BY <1>1 DEF BufferOf
<1>3. QED
  BY <1>1, <1>2 DEF OneToOne

LEMMA EntriesInstalled ==
  ASSUME TypeOK, NEW P \in SUBSET Pairs, OneToOne(P), entry' = Installed(P)
  PROVE  /\ Resident' = Resident \cup Given(P)
         /\ \A p \in P : entry'[p[1]].slot = p[2]
         /\ \A x \in Experts : x \notin Given(P) => entry'[x] = entry[x]
         /\ \A x \in Experts : entry'[x].seq \in {entry[x].seq, 0}
<1>1. \A x \in Experts : x \in Given(P) <=> \E s \in Slots : <<x, s>> \in P
  <2>1. ASSUME NEW x \in Given(P) PROVE \E s \in Slots : <<x, s>> \in P
    <3>1. PICK p \in P : p[1] = x
      BY DEF Given
    <3>2. p[2] \in Slots /\ p = <<x, p[2]>>
      BY <3>1, BufferOfPair
    <3>3. QED
      BY <3>2
  <2>2. ASSUME NEW x, NEW s, <<x, s>> \in P PROVE x \in Given(P)
    BY <2>2 DEF Given
  <2>3. QED
    BY <2>1, <2>2
<1>2. ASSUME NEW p \in P
      PROVE  p[1] \in Experts /\ p[2] \in Slots /\ p = <<p[1], p[2]>> /\ BufferOf(p[1], P) = p[2]
  BY BufferOfPair
<1>3. \A x \in Experts :
        /\ x \in Given(P) => entry'[x] = [slot |-> BufferOf(x, P), seq |-> 0]
        /\ x \notin Given(P) => entry'[x] = entry[x]
  BY <1>1 DEF Installed
<1>4. \A p \in P : entry'[p[1]].slot = p[2] /\ entry'[p[1]].seq = 0
  <2>1. ASSUME NEW p \in P PROVE entry'[p[1]].slot = p[2] /\ entry'[p[1]].seq = 0
    <3>1. p[1] \in Experts /\ p[1] \in Given(P)
      BY <1>2 DEF Given
    <3>2. entry'[p[1]] = [slot |-> p[2], seq |-> 0]
      BY <1>2, <1>3, <3>1
    <3>3. QED
      BY <3>2
  <2>2. QED
    BY <2>1
<1>5. \A x \in Given(P) : x \in Experts /\ entry'[x].slot # NoSlot /\ entry'[x].seq = 0
  BY <1>2, <1>4, SlotFacts DEF Given
<1>6. QED
  BY <1>3, <1>4, <1>5 DEF Resident

-----------------------------------------------------------------------------
\* How far the load in progress has come.

\* What a step that takes buffers changes: victims are idle and not wanted.
LEMMA Takes ==
  ASSUME TypeOK, CallHas, TakeBatch \/ TakeBuffer
  PROVE  /\ UNCHANGED <<content, load, main, svc, run>>
         /\ call'.by = call.by /\ call'.as = call.as /\ call'.want = call.want
         /\ call'.lack = call.lack
         /\ \/ /\ \E V \in SUBSET Victims(call.want) :
                    /\ entry' = Evicted(V)
                    /\ \A p \in call'.got : p \in call.got \/ \E v \in V : p[2] = entry[v].slot
               /\ UNCHANGED <<free, seq, gpu>>
               /\ call'.pc = "take" /\ Given(call'.got) \subseteq call.lack
               /\ (Owners => OneToOne(call'.got))
            \/ /\ StartWait
               /\ call'.pc = IF call.pc = "batch" THEN "batchwait" ELSE "takewait"
               /\ call'.got = call.got
            \/ /\ \E s \in free : /\ free' = free \ {s}
                                  /\ \A p \in call'.got : p \in call.got \/ p[2] = s
               /\ UNCHANGED <<entry, seq, gpu>>
               /\ call'.pc = "take" /\ Given(call'.got) \subseteq call.lack
               /\ (Owners => OneToOne(call'.got))
            \/ /\ \E s \in Unallocated : \A p \in call'.got : p \in call.got \/ p[2] = s
               /\ UNCHANGED <<entry, free, seq, gpu>>
               /\ call'.pc = "take" /\ Given(call'.got) \subseteq call.lack
               /\ (Owners => OneToOne(call'.got))
            \/ /\ UNCHANGED <<entry, free, seq, gpu>>
               /\ call'.got = call.got
               /\ call'.pc = "take" \/ (call'.pc = "return" /\ ~call'.ok)
<1>t. call \in CallType /\ call.lack \in SUBSET Experts /\ call.got \in SUBSET Pairs
  BY TypeParts, CallTypes
<1>u. UNCHANGED <<content, load, main, svc, run>> /\ call.pc \in {"batch", "take"}
  BY DEF TakeBatch, TakeBuffer
<1>w. StartWait => /\ call'.by = call.by /\ call'.as = call.as /\ call'.want = call.want
                   /\ call'.lack = call.lack /\ call'.got = call.got
                   /\ call'.pc = IF call.pc = "batch" THEN "batchwait" ELSE "takewait"
  BY <1>t DEF StartWait, CallType
<1>l. Given(call.got) \subseteq call.lack /\ (call.pc = "batch" => call.got = {})
  BY <1>u DEF CallHas
\* One more expert gets a buffer of its own.
<1>g. ASSUME NEW s, Give(s), Unserved # {}
      PROVE  /\ call'.by = call.by /\ call'.as = call.as /\ call'.want = call.want
             /\ call'.lack = call.lack /\ call'.pc = call.pc
             /\ \A p \in call'.got : p \in call.got \/ p[2] = s
             /\ Given(call'.got) \subseteq call.lack
             /\ OneToOne(call.got) /\ s \notin Targets(call.got) => OneToOne(call'.got)
  <2>1. NextUnserved \in Unserved
    BY <1>g DEF NextUnserved
  <2>2. /\ call'.by = call.by /\ call'.as = call.as /\ call'.want = call.want
        /\ call'.lack = call.lack /\ call'.pc = call.pc
        /\ call'.got = call.got \cup {<<NextUnserved, s>>}
    BY <1>t, <1>g DEF Give, CallType
  <2>3. NextUnserved \in call.lack /\ \A p \in call.got : p[1] # NextUnserved
    BY <2>1 DEF Unserved
  <2>4. Given(call'.got) \subseteq call.lack
    BY <1>l, <2>2, <2>3 DEF Given
  <2>5. OneToOne(call.got) /\ s \notin Targets(call.got) => OneToOne(call'.got)
    BY <2>2, <2>3 DEF OneToOne, Targets
  <2>6. \A p \in call'.got : p \in call.got \/ p[2] = s
    BY <2>2
  <2>7. QED
    BY <2>2, <2>4, <2>5, <2>6
<1>1. CASE TakeBatch
  <2>0. call.pc = "batch" /\ call.got = {}
    BY <1>1, <1>l DEF TakeBatch
  <2>1. ASSUME NEW f \in Pairings(call.lack, Victims(call.want)),
               entry' = Evicted({f[x] : x \in DOMAIN f}),
               call' = [call EXCEPT !.pc = "take", !.waited = FALSE,
                                    !.got = {<<x, entry[f[x]].slot>> : x \in DOMAIN f}],
               UNCHANGED <<free, seq, gpu>>
        PROVE  /\ call'.by = call.by /\ call'.as = call.as /\ call'.want = call.want
               /\ call'.lack = call.lack
               /\ \E V \in SUBSET Victims(call.want) :
                    /\ entry' = Evicted(V)
                    /\ \A p \in call'.got : p \in call.got \/ \E v \in V : p[2] = entry[v].slot
               /\ call'.pc = "take" /\ Given(call'.got) \subseteq call.lack
               /\ (Owners => OneToOne(call'.got))
    <3>1. Victims(call.want) \in SUBSET Resident
      BY DEF Victims
    <3>2. /\ DOMAIN f \subseteq call.lack
          /\ \A x \in DOMAIN f : f[x] \in Victims(call.want)
          /\ \A x, y \in DOMAIN f : f[x] = f[y] => x = y
      BY <3>1, PairingFacts
    <3> DEFINE V == {f[x] : x \in DOMAIN f}
    <3>3. V \in SUBSET Victims(call.want)
      BY <3>2
    <3>4. /\ call'.by = call.by /\ call'.as = call.as /\ call'.want = call.want
          /\ call'.lack = call.lack /\ call'.pc = "take"
          /\ call'.got = {<<x, entry[f[x]].slot>> : x \in DOMAIN f}
      BY <1>t, <2>1 DEF CallType
    <3>5. \A p \in call'.got : \E v \in V : p[2] = entry[v].slot
      BY <3>4
    <3>6. Given(call'.got) \subseteq call.lack
      BY <3>2, <3>4 DEF Given
    <3>7. Owners => OneToOne(call'.got)
      <4> SUFFICES ASSUME Owners, NEW p \in call'.got, NEW q \in call'.got,
                          p[1] = q[1] \/ p[2] = q[2]
                   PROVE  p = q
        BY DEF OneToOne
      <4>1. PICK x \in DOMAIN f : p = <<x, entry[f[x]].slot>>
        BY <3>4
      <4>2. PICK y \in DOMAIN f : q = <<y, entry[f[y]].slot>>
        BY <3>4
      <4>3. f[x] \in Resident /\ f[y] \in Resident
        BY <3>1, <3>2
      <4>4. entry[f[x]].slot = entry[f[y]].slot => x = y
        BY <3>2, <4>3 DEF Owners
      <4>5. QED
        BY <4>1, <4>2, <4>4
    <3>8. QED
      BY <2>1, <3>3, <3>4, <3>5, <3>6, <3>7
  <2>2. CASE call' = [call EXCEPT !.pc = "take", !.waited = FALSE] /\ UNCHANGED <<entry, free, seq, gpu>>
    <3>1. /\ call'.by = call.by /\ call'.as = call.as /\ call'.want = call.want
          /\ call'.lack = call.lack /\ call'.pc = "take" /\ call'.got = call.got
      BY <1>t, <2>2 DEF CallType
    <3>2. QED
      BY <1>u, <2>2, <3>1
  <2>3. CASE StartWait
    BY <1>u, <1>w, <2>3
  <2>4. QED
    BY <1>1, <1>u, <2>1, <2>2, <2>3, TakeBatchCases
<1>2. CASE TakeBuffer
  <2>0. call.pc = "take" /\ Unserved # {}
    BY <1>2 DEF TakeBuffer
  <2>1. ASSUME NEW v \in Victims(call.want), entry' = Evicted({v}), Give(entry[v].slot),
               UNCHANGED <<free, seq, gpu>>
        PROVE  /\ call'.by = call.by /\ call'.as = call.as /\ call'.want = call.want
               /\ call'.lack = call.lack
               /\ \E V \in SUBSET Victims(call.want) :
                    /\ entry' = Evicted(V)
                    /\ \A p \in call'.got : p \in call.got \/ \E x \in V : p[2] = entry[x].slot
               /\ call'.pc = "take" /\ Given(call'.got) \subseteq call.lack
               /\ (Owners => OneToOne(call'.got))
    <3>1. v \in Resident
      BY DEF Victims
    <3>2. Owners => OneToOne(call.got) /\ entry[v].slot \notin Targets(call.got)
      BY <3>1 DEF Owners, EntrySlots
    <3>3. {v} \in SUBSET Victims(call.want)
      OBVIOUS
    <3>4. QED
      BY <1>g, <2>0, <2>1, <3>2, <3>3
  <2>2. CASE StartWait
    BY <1>u, <1>w, <2>2
  <2>3. ASSUME NEW s \in free, free' = free \ {s}, Give(s), UNCHANGED <<entry, seq, gpu>>
        PROVE  /\ call'.by = call.by /\ call'.as = call.as /\ call'.want = call.want
               /\ call'.lack = call.lack
               /\ \A p \in call'.got : p \in call.got \/ p[2] = s
               /\ call'.pc = "take" /\ Given(call'.got) \subseteq call.lack
               /\ (Owners => OneToOne(call'.got))
    <3>1. Owners => OneToOne(call.got) /\ s \notin Targets(call.got)
      BY DEF Owners
    <3>2. QED
      BY <1>g, <2>0, <2>3, <3>1
  <2>4. ASSUME NEW s \in Unallocated, Give(s), UNCHANGED <<entry, free, seq, gpu>>
        PROVE  /\ call'.by = call.by /\ call'.as = call.as /\ call'.want = call.want
               /\ call'.lack = call.lack
               /\ \A p \in call'.got : p \in call.got \/ p[2] = s
               /\ call'.pc = "take" /\ Given(call'.got) \subseteq call.lack
               /\ (Owners => OneToOne(call'.got))
    <3>1. s \notin Targets(call.got) /\ (Owners => OneToOne(call.got))
      BY DEF Unallocated, Referred, Owners
    <3>2. QED
      BY <1>g, <2>0, <2>4, <3>1
  <2>5. CASE Returns(FALSE) /\ UNCHANGED <<entry, free, seq, gpu>>
    <3>1. /\ call'.by = call.by /\ call'.as = call.as /\ call'.want = call.want
          /\ call'.lack = call.lack /\ call'.pc = "return" /\ call'.got = call.got /\ call'.ok = FALSE
      BY <1>t, <2>5 DEF Returns, CallType
    <3>2. QED
      BY <1>u, <2>5, <3>1
  <2>6. QED
    BY <1>2, <1>u, <2>1, <2>2, <2>3, <2>4, <2>5, TakeBufferCases
<1>3. QED
  BY <1>1, <1>2

\* When the buffers of a load are all found, its experts are exactly those missing.
LEMMA ServedAll ==
  ASSUME TypeOK, CallHas, Served
  PROVE  /\ ~load.active /\ call.pc = "take"
         /\ call.lack = call.want \ Resident /\ Given(call.got) = call.lack
<1>1. call.pc = "take" /\ Unserved = {}
  BY DEF Served
<1>2. call.lack \subseteq Given(call.got)
  BY <1>1 DEF Unserved, Given
<1>3. QED
  BY <1>1, <1>2 DEF CallHas

LEMMA CallHasLoad ==
  ASSUME TypeOK, CallFits, CallHas, LoadFits, Owners, [Next]_vars, LoadGoesOn
  PROVE  CallHas'
<1>k. /\ call'.by = call.by /\ call'.as = call.as /\ call'.want = call.want
      /\ call.pc \notin {"none", "return"} /\ call'.pc \notin {"none", "join"}
      /\ UNCHANGED <<main, svc, run>>
  BY LoadKeepsCall
<1>t. call \in CallType /\ load \in LoadType /\ call.got \in SUBSET Pairs
  BY TypeParts, CallTypes
<1>b. call.by # "none" /\ call'.by # "none" /\ main'.pc # "prune"
  BY <1>k, <1>t DEF CallFits, CallType
<1>f. Gather' = Gather
  BY KeepsSetting
<1>1. CASE AlreadyPending
  <2>1. /\ call.pc = "join" /\ ~Joining /\ Matches /\ UNCHANGED <<entry, load>>
        /\ call'.pc = "return" /\ call'.got = call.got
    BY <1>1, <1>t DEF AlreadyPending, Returns, CallType
  <2>2. QED
    BY <1>k, <1>b, <2>1 DEF CallHas, Joining, Matches
<1>2. CASE NothingPending \/ JoinPending
  <2>1. /\ call.pc = "join" /\ (load' = NoLoad \/ (~load.active /\ load' = load))
        /\ call'.pc = "plan" \/ (call'.pc = "return" /\ ~call'.ok)
        /\ call'.got = call.got
    BY <1>2, <1>t DEF NothingPending, JoinPending, Returns, CallType
  <2>2. ~load'.active
    BY <2>1 DEF NoLoad
  <2>3. call'.got = {}
    BY <2>1 DEF CallHas
  <2>4. QED
    BY <1>k, <1>b, <2>1, <2>2, <2>3 DEF CallHas
<1>3. CASE PlanLoad
  <2>1. call.pc = "plan" /\ ~load.active /\ call.got = {} /\ UNCHANGED <<entry, load>>
    BY <1>3 DEF PlanLoad, CallHas
  <2>2. CASE call.want \ Resident = {}
    <3>1. call'.pc = "return" /\ call'.got = {}
      BY <1>3, <1>t, <2>1, <2>2 DEF PlanLoad, Returns, CallType
    <3>2. QED
      BY <1>k, <1>b, <2>1, <2>2, <3>1 DEF CallHas, Resident
  <2>3. CASE call.want \ Resident # {}
    <3>1. call'.pc \in {"batch", "take"} /\ call'.lack = call.want \ Resident /\ call'.got = {}
      BY <1>3, <1>t, <2>1, <2>3 DEF PlanLoad, CallType
    <3>2. QED
      BY <1>k, <1>b, <2>1, <3>1 DEF CallHas, Resident, Given
  <2>4. QED
    BY <2>2, <2>3
<1>4. CASE TakeBatch \/ TakeBuffer
  <2>1. call.pc \in {"batch", "take"} /\ ~load.active /\ UNCHANGED load
    BY <1>4 DEF TakeBatch, TakeBuffer, CallHas
  <2>2. call.lack = call.want \ Resident /\ Given(call.got) \subseteq call.lack /\ call'.lack = call.lack
    BY <1>4, <2>1, Takes DEF CallHas
  <2>3. call.want \ Resident' = call.want \ Resident
    <3>1. CASE \E V \in SUBSET Victims(call.want) : entry' = Evicted(V)
      BY <3>1, EntriesEvicted DEF Victims
    <3>2. CASE UNCHANGED entry
      BY <3>2 DEF Resident
    <3>3. QED
      BY <1>4, <3>1, <3>2, Takes DEF StartWait
  <2>4. /\ Given(call'.got) \subseteq call.lack
        /\ call'.pc \in {"take", "batchwait", "takewait"} \/ (call'.pc = "return" /\ ~call'.ok)
        /\ call'.pc = "batchwait" => call'.got = {}
    BY <1>4, <2>1, <2>2, Takes DEF CallHas
  <2>5. QED
    BY <1>k, <1>b, <2>1, <2>2, <2>3, <2>4 DEF CallHas
<1>5. CASE EndWait
  <2>1. /\ call.pc \in {"batchwait", "takewait"} /\ UNCHANGED <<entry, load>>
        /\ call'.pc = (IF call.pc = "batchwait" THEN "batch" ELSE "take")
        /\ call'.got = call.got /\ call'.lack = call.lack
    BY <1>5, <1>t DEF EndWait, CallType
  <2>2. QED
    BY <1>k, <1>b, <2>1 DEF CallHas, Resident
<1>6. CASE BeginReads
  <2>1. /\ call'.pc = "return" /\ call'.got = {} /\ UNCHANGED entry /\ load'.want = call.want
        /\ call.as # "missing"
    BY <1>6, <1>t DEF BeginReads, CallType, Joining
  <2>2. QED
    BY <1>k, <1>b, <2>1 DEF CallHas
<1>7. CASE ReadNow
  <2>1. ~load.active /\ call.lack = call.want \ Resident /\ Given(call.got) = call.lack
    BY <1>7, ServedAll DEF ReadNow
  <2>2. /\ call'.pc = "return" /\ call'.got = {} /\ UNCHANGED load
        /\ call'.ok => entry' = Installed(call.got)
    BY <1>7, <1>t DEF ReadNow, CallType
  <2>3. call'.ok => call.want \subseteq Resident'
    <3>1. OneToOne(call.got)
      BY DEF Owners
    <3>2. QED
      BY <1>t, <2>1, <2>2, <3>1, EntriesInstalled
  <2>4. QED
    BY <1>k, <1>b, <2>1, <2>2, <2>3 DEF CallHas
<1>8. QED
  BY <1>1, <1>2, <1>3, <1>4, <1>5, <1>6, <1>7 DEF LoadGoesOn

LEMMA CallHasStep ==
  ASSUME TypeOK, CallFits, CallHas, LoadFits, HeldWaits, Owners, [Next]_vars
  PROVE  CallHas'
<1>k. /\ Gather' = Gather /\ (Gather => Flow = "mailbox")
  BY KeepsSetting, Constants
<1>t. main \in MainType /\ call \in CallType /\ load \in LoadType
  BY TypeParts
<1>b. call.by # "main" /\ svc = "idle" => call = NoCall
  BY <1>t DEF CallFits, CallType
<1>n. NoCall.by = "none" /\ NoCall.pc = "none" /\ NoCall.got = {}
  BY DEF NoCall
\* A load that has only been started has nothing yet.
<1>s. ASSUME NEW who \in {"main", "service"}, NEW why, NEW want, Start(who, why, want),
             UNCHANGED <<main, load>>, main.pc # "prune"
      PROVE  CallHas'
  <2>1. call'.by = who /\ call'.pc = "join" /\ call'.got = {}
    BY <1>s, Started
  <2>2. QED
    BY <1>s, <2>1 DEF CallHas
\* No load is in progress, and the main thread goes where nothing is claimed.
<1>i. ASSUME call' = NoCall, main'.pc \notin {"prune", "moe"}
      PROVE  CallHas'
  BY <1>i, <1>n DEF CallHas
<1>1. CASE BeginToken \/ EncodeRouter \/ TokenEnds \/ NextLayer
  <2>1. call = NoCall /\ UNCHANGED call
    BY <1>1, <1>b, <1>t DEF BeginToken, EncodeRouter, TokenEnds, NextLayer, MainFree, CallFits
  <2>2. main'.pc \in {"router", "early", "late", "end", "idle"}
    BY <1>1, <1>t DEF BeginToken, EncodeRouter, TokenEnds, NextLayer, MainType
  <2>3. QED
    BY <1>i, <2>1, <2>2
<1>2. CASE Flush
  <2>1. UNCHANGED <<entry, load>> /\ main.pc \in {"early", "late"}
    BY <1>2 DEF Flush
  <2>2. CASE Start("main", "drain", gpu.held.want) /\ UNCHANGED main
    BY <1>s, <2>1, <2>2
  <2>3. CASE UNCHANGED call /\ Moves(IF main.pc = "early" THEN "late" ELSE IF Flow = "service" THEN "finish" ELSE "poll")
    <3>1. main'.pc \in {"late", "finish", "poll"} /\ main'.sel = main.sel
      BY <2>3, MovedTo
    <3>2. QED
      BY <2>1, <2>3, <3>1 DEF CallHas, Resident
  <2>4. QED
    BY <1>2, <2>2, <2>3 DEF Flush
<1>3. CASE ServiceTakes \/ Poll \/ PollTimesOut
  <2>1. main.pc # "prune" /\ UNCHANGED <<main, load>>
    BY <1>3 DEF ServiceTakes, Poll, PollTimesOut, CallFits
  <2>2. QED
    BY <1>3, <1>s, <2>1 DEF ServiceTakes, Poll, PollTimesOut
<1>4. CASE FinishService
  <2>1. main.pc = "finish" /\ svc \in {"loaded", "refused"} /\ Flow = "service" /\ UNCHANGED <<load, entry>>
    BY <1>4 DEF FinishService, CallFits
  <2>2. CASE Start("main", "retry", main.sel) /\ UNCHANGED main
    BY <1>s, <2>1, <2>2
  <2>3. CASE Moves("moe") /\ UNCHANGED call
    <3>1. main'.pc = "moe" /\ main'.sel = main.sel
      BY <2>3, MovedTo
    <3>2. QED
      BY <1>k, <2>1, <2>3, <3>1 DEF CallHas, Resident
  <2>4. QED
    BY <1>4, <2>2, <2>3 DEF FinishService
<1>5. CASE Defer
  <2>1. call = NoCall /\ UNCHANGED call /\ main'.pc = "after"
    BY <1>5, <1>b, MovedTo DEF Defer, MainFree, CallFits
  <2>2. QED
    BY <1>i, <2>1
<1>6. CASE JoinExperts
  <2>1. main.pc = "moe" /\ UNCHANGED <<entry, load>> /\ MainFree /\ svc = "idle"
    BY <1>6 DEF JoinExperts, CallFits
  <2>2. CASE Missing = {}
    <3>1. Moves("prune") /\ UNCHANGED call
      BY <1>6, <2>2 DEF JoinExperts
    <3>2. main'.pc = "prune" /\ main'.sel = main.sel
      BY <3>1, MovedTo
    <3>3. call' = NoCall
      BY <1>b, <2>1, <3>1 DEF MainFree
    <3>4. main'.sel \subseteq Resident'
      BY <2>1, <2>2, <3>2 DEF Missing, Resident
    <3>5. QED
      BY <1>n, <3>2, <3>3, <3>4 DEF CallHas
  <2>3. CASE Missing # {}
    <3>1. Start("main", "missing", main.sel) /\ UNCHANGED main
      BY <1>6, <2>3 DEF JoinExperts
    <3>2. QED
      BY <1>s, <2>1, <3>1
  <2>4. QED
    BY <2>2, <2>3
<1>7. CASE Encode
  <2>1. main.pc = "prune" /\ call = NoCall /\ UNCHANGED call /\ main.sel \subseteq Resident
    BY <1>7, <1>b, <1>t DEF Encode, CallFits, CallHas
  <2>2. CASE Overfull
    <3>1. PICK x \in Resident \ main.sel : entry' = Evicted({x} \ {y \in Resident : Inflight(y)})
      BY <1>7, <2>2 DEF Encode
    <3>2. UNCHANGED main /\ main.sel \subseteq Resident'
      BY <1>7, <2>1, <2>2, <3>1, EntriesEvicted DEF Encode
    <3>3. QED
      BY <1>n, <2>1, <3>2 DEF CallHas
  <2>3. CASE ~Overfull
    <3>1. main'.pc = "after"
      BY <1>7, <2>3, MovedTo DEF Encode
    <3>2. QED
      BY <1>i, <2>1, <3>1
  <2>4. QED
    BY <2>2, <2>3
<1>8. CASE ReadAhead
  <2>1. main.pc = "after" /\ UNCHANGED <<main, load>>
    BY <1>8 DEF ReadAhead
  <2>2. PICK X : Start("main", "ahead", X)
    BY <1>8 DEF ReadAhead
  <2>3. QED
    BY <1>s, <2>1, <2>2
<1>9. CASE EndToken
  <2>1. main.pc = "end" /\ UNCHANGED load
    BY <1>9 DEF EndToken
  <2>2. CASE Start("main", "drain", gpu.held.want) /\ UNCHANGED main
    BY <1>s, <2>1, <2>2
  <2>3. CASE Moves("endwait") /\ UNCHANGED call
    <3>1. main'.pc = "endwait" /\ call = NoCall
      BY <1>9, <1>b, <2>1, <2>3, MovedTo DEF EndToken, MainFree, CallFits
    <3>2. QED
      BY <1>i, <2>3, <3>1
  <2>4. QED
    BY <1>9, <2>2, <2>3 DEF EndToken
<1>10. CASE LoadReturns
  <2>1. call.pc = "return" /\ AfterLoad /\ call' = NoCall /\ UNCHANGED load
    BY <1>10 DEF LoadReturns
  <2>2. Resident' = Resident
    <3>1. CASE entry' = Marked(entry, gpu.held.lack)
      BY <3>1, EntriesMarked
    <3>2. CASE UNCHANGED entry
      BY <3>2 DEF Resident
    <3>3. QED
      BY <1>10, <3>1, <3>2 DEF LoadReturns, ReleaseHeld
  <2>3. main'.sel = main.sel
    BY <2>1, ReturnedTo
  <2>4. main'.pc = "prune" => main'.sel \subseteq Resident'
    BY <1>t, <2>1, <2>2, <2>3, ReturnedTo DEF CallHas, CallFits, CallType
  <2>5. main'.pc = "moe" /\ Gather /\ load.active => load.want = main'.sel
    BY <1>k, <1>t, <2>1, <2>3, ReturnedTo DEF CallHas, CallFits, CallType
  <2>6. QED
    BY <1>k, <1>n, <2>1, <2>4, <2>5 DEF CallHas
<1>11. CASE GpuRuns \/ ReadPool \/ Finished \/ UNCHANGED vars
  <2>1. UNCHANGED <<call, main, entry>> /\ load'.active = load.active /\ load'.want = load.want
    BY <1>11, <1>t DEF GpuRuns, ReadPool, ReadLands, Finished, vars, LoadType
  <2>2. QED
    BY <1>k, <2>1 DEF CallHas, Resident
<1>12. CASE LoadGoesOn
  BY <1>12, CallHasLoad
<1>13. QED
  BY <1>1, <1>2, <1>3, <1>4, <1>5, <1>6, <1>7, <1>8, <1>9, <1>10, <1>11, <1>12
     DEF Next, MainStep, ServiceStep, Load, LoadGoesOn

LEMMA LoadFitsStep ==
  ASSUME TypeOK, CallFits, CallHas, LoadFits, Owners, [Next]_vars
  PROVE  LoadFits'
<1>k. ReadsFail' = ReadsFail /\ ReadsFail \in BOOLEAN
  BY KeepsSetting, Constants
<1>t. load \in LoadType
  BY TypeParts
<1>1. CASE UNCHANGED load
  BY <1>k, <1>1 DEF LoadFits
<1>2. CASE JoinPending
  BY <1>2 DEF JoinPending, LoadFits, NoLoad
<1>3. CASE BeginReads
  <2>1. Given(call.got) = call.lack
    BY <1>3, ServedAll DEF BeginReads
  <2>2. QED
    BY <1>3, <2>1 DEF BeginReads, LoadFits
<1>4. CASE ReadPool
  <2>1. PICK x \in Experts : ReadLands(x)
    BY <1>4 DEF ReadPool
  <2>2. PICK ok \in {TRUE, ~ReadsFail} :
          load' = [load EXCEPT !.reading = @ \ {x}, !.failed = @ \/ ~ok]
    BY <2>1 DEF ReadLands
  <2>3. /\ load'.reading = load.reading \ {x} /\ load'.failed = (load.failed \/ ~ok)
        /\ load'.into = load.into /\ load'.active = load.active
    BY <1>t, <2>2 DEF LoadType
  <2>4. load.active
    BY <2>1 DEF ReadLands, LoadFits, NoLoad
  <2>5. load'.failed => ReadsFail
    BY <1>k, <2>2, <2>3 DEF LoadFits
  <2>6. QED
    BY <1>k, <2>3, <2>4, <2>5 DEF LoadFits
<1>5. QED
  BY <1>1, <1>2, <1>3, <1>4 DEF Next, MainStep, ServiceStep, Load, Finished, vars, GpuRuns,
     BeginToken, EncodeRouter, Flush, FinishService, Poll, PollTimesOut, Defer, JoinExperts,
     Encode, ReadAhead, NextLayer, EndToken, TokenEnds, ServiceTakes, AlreadyPending,
     NothingPending, PlanLoad, TakeBatch, TakeBuffer, EndWait, ReadNow, LoadReturns

-----------------------------------------------------------------------------
\* The command buffer that is held back.

\* While one is held no load runs but its drain.
LEMMA HeldAlone ==
  ASSUME TypeOK, CallFits, HeldWaits, Deferred
  PROVE  /\ svc = "idle" /\ Flow = "mailbox" /\ ~EarlyFlush /\ ~Ahead
         /\ call = NoCall \/ (Draining /\ call.by = "main")
<1>1. Gather /\ Flow = "mailbox" /\ ~Ahead /\ ~EarlyFlush
  BY Constants DEF HeldWaits
<1>2. svc = "idle" /\ call.by # "service"
  BY <1>1 DEF CallFits
<1>3. call \in CallType
  BY TypeParts
<1>4. call.by = "main" => Draining
  BY <1>1 DEF CallFits, HeldWaits, Draining
<1>5. QED
  BY <1>1, <1>2, <1>3, <1>4 DEF CallFits, CallType

LEMMA HeldWaitsLoad ==
  ASSUME TypeOK, CallFits, LoadFits, HeldWaits, Owners, [Next]_vars, LoadGoesOn
  PROVE  HeldWaits'
<1>k. Gather' = Gather /\ ReadsFail' = ReadsFail
  BY KeepsSetting
<1>c. /\ call'.by = call.by /\ call'.as = call.as /\ call'.want = call.want
      /\ call.pc \notin {"none", "return"} /\ call'.pc \notin {"none", "join"}
      /\ UNCHANGED <<main, svc, run>>
  BY LoadKeepsCall
<1>t. call \in CallType /\ load \in LoadType /\ gpu \in GpuType
  BY TypeParts
<1>h. gpu'.held = gpu.held
  BY <1>t DEF LoadGoesOn, AlreadyPending, JoinPending, NothingPending, PlanLoad, TakeBatch,
     TakeBuffer, EndWait, BeginReads, ReadNow, StartWait, FlushBatch, GpuType
<1>1. CASE ~Draining
  <2>1. ~Deferred
    BY <1>c, <1>1, HeldAlone DEF NoCall
  <2>2. ~Deferred' /\ ~Draining'
    BY <1>c, <1>h, <1>1, <2>1 DEF Deferred, Draining
  <2>3. QED
    BY <2>2 DEF HeldWaits
<1>2. CASE Draining
  <2>1. Deferred /\ call.want = gpu.held.want /\ call.pc \in {"join", "plan"}
    BY <1>c, <1>2 DEF HeldWaits
  <2>2. JoinPending \/ PlanLoad
    <3>1. call.pc = "join" => load.active
      BY <1>2, <2>1 DEF HeldWaits
    <3>2. QED
      BY <1>2, <2>1, <3>1 DEF LoadGoesOn, AlreadyPending, NothingPending, TakeBatch, TakeBuffer,
         EndWait, BeginReads, ReadNow, Served, Draining, Joining
  <2>3. CASE JoinPending
    <3>1. /\ load.active /\ load.want = call.want /\ Matches
          /\ call.want \ Resident \subseteq Given(load.into)
      BY <1>2, <2>1, <2>3 DEF HeldWaits, JoinPending, Matches
    <3>2. CASE load.failed
      <4>1. call'.pc = "return" /\ call'.ok = FALSE
        BY <1>t, <2>3, <3>1, <3>2 DEF JoinPending, Returns, CallType
      <4>2. ReadsFail
        BY <3>2 DEF LoadFits
      <4>3. QED
        <5>1. Deferred' /\ Draining' /\ call'.want = gpu'.held.want
          BY <1>c, <1>h, <1>2, <2>1 DEF Deferred, Draining
        <5>2. /\ Gather' /\ main'.pc \in {"after", "next", "router", "late", "end"}
              /\ gpu'.held.lack \subseteq gpu'.held.want /\ ReadsFail'
          BY <1>c, <1>h, <1>k, <2>1, <4>2 DEF HeldWaits
        <5>3. QED
          BY <4>1, <5>1, <5>2 DEF HeldWaits
    <3>3. CASE ~load.failed
      <4>1. call'.pc = "plan" /\ call'.ok = call.ok /\ entry' = Installed(load.into)
        BY <1>t, <2>3, <3>3 DEF JoinPending, CallType
      <4>2. OneToOne(load.into) /\ load.into \in SUBSET Pairs
        BY <1>t DEF Owners, LoadType
      <4>3. call.want \subseteq Resident'
        BY <1>t, <3>1, <4>1, <4>2, EntriesInstalled DEF CallType
      <4>4. QED
        <5>1. /\ Deferred' /\ Draining' /\ call'.want = gpu'.held.want /\ call'.pc = "plan"
              /\ call'.want \subseteq Resident'
          BY <1>c, <1>h, <1>2, <2>1, <4>1, <4>3 DEF Deferred, Draining
        <5>2. ~call'.ok => ReadsFail'
          BY <1>k, <1>2, <4>1 DEF HeldWaits
        <5>3. /\ Gather' /\ main'.pc \in {"after", "next", "router", "late", "end"}
              /\ gpu'.held.lack \subseteq gpu'.held.want
          BY <1>c, <1>h, <1>k, <2>1 DEF HeldWaits
        <5>4. QED
          BY <5>1, <5>2, <5>3 DEF HeldWaits
    <3>4. QED
      BY <3>2, <3>3
  <2>4. CASE PlanLoad
    <3>1. call.pc = "plan" /\ UNCHANGED entry
      BY <2>4 DEF PlanLoad
    <3>2. call.want \subseteq Resident
      BY <1>2, <3>1 DEF HeldWaits
    <3>3. call'.pc = "return" /\ call'.ok = TRUE
      BY <1>t, <2>4, <3>2 DEF PlanLoad, Returns, CallType
    <3>4. call'.want \subseteq Resident'
      BY <1>c, <3>1, <3>2 DEF Resident
    <3>5. QED
      BY <1>c, <1>h, <1>k, <1>2, <2>1, <3>3, <3>4 DEF HeldWaits, Deferred, Draining
  <2>5. QED
    BY <2>2, <2>3, <2>4
<1>3. QED
  BY <1>1, <1>2

LEMMA HeldWaitsStep ==
  ASSUME TypeOK, CallFits, CallHas, LoadFits, HeldWaits, Owners, [Next]_vars
  PROVE  HeldWaits'
<1>k. /\ Gather' = Gather /\ ReadsFail' = ReadsFail
      /\ Gather => Flow = "mailbox" /\ ~Ahead /\ ~EarlyFlush
  BY KeepsSetting, Constants
<1>t. main \in MainType /\ call \in CallType /\ load \in LoadType /\ gpu \in GpuType
  BY TypeParts
<1>n. NoCall.as = "none" /\ NoCall.pc = "none" /\ NoCall.ok = TRUE
  BY DEF NoCall
<1>a. Deferred => call = NoCall \/ (Draining /\ call.by = "main")
  BY HeldAlone
\* Nothing is held, and no drain begins.
<1>q. ASSUME ~Deferred, gpu'.held = gpu.held, call'.as # "drain" PROVE HeldWaits'
  BY <1>q DEF HeldWaits, Deferred, Draining
\* The main thread goes on while what is held waits.
<1>w. ASSUME gpu'.held = gpu.held, UNCHANGED <<call, load>>, call = NoCall, Resident' = Resident,
             main'.pc \in {"after", "next", "router", "late", "end"}
      PROVE  HeldWaits'
  <2>1. ~Draining /\ ~Draining'
    BY <1>n, <1>w DEF Draining
  <2>2. CASE Deferred
    BY <1>k, <1>w, <2>1, <2>2 DEF HeldWaits, Deferred
  <2>3. CASE ~Deferred
    BY <1>w, <2>1, <2>3 DEF HeldWaits, Deferred
  <2>4. QED
    BY <2>2, <2>3
\* The drain begins.
<1>d. ASSUME Deferred, MainFree, Start("main", "drain", gpu.held.want),
             UNCHANGED <<main, load, entry, gpu>>
      PROVE  HeldWaits'
  <2>1. /\ call'.as = "drain" /\ call'.pc = "join" /\ call'.want = gpu'.held.want /\ call'.ok = TRUE
        /\ Deferred'
    BY <1>d, Started DEF Deferred
  <2>3. call = NoCall
    BY <1>a, <1>d DEF MainFree
  <2>4. /\ load'.active /\ load'.want = gpu'.held.want
        /\ gpu'.held.want \ Resident' \subseteq Given(load'.into)
    BY <1>d, <1>n, <2>3 DEF HeldWaits, Draining, Resident
  <2>5. /\ Gather' /\ main'.pc \in {"after", "next", "router", "late", "end"}
        /\ gpu'.held.lack \subseteq gpu'.held.want
    BY <1>d, <1>k DEF HeldWaits
  <2>6. QED
    BY <2>1, <2>4, <2>5 DEF HeldWaits
<1>1. CASE BeginToken \/ TokenEnds \/ ServiceTakes \/ FinishService \/ Poll \/ PollTimesOut
             \/ JoinExperts \/ Encode
  <2>1. /\ main.pc \in {"idle", "endwait", "finish", "poll", "moe", "prune"} \/ svc = "job"
        /\ gpu'.held = gpu.held
    BY <1>1, <1>t DEF BeginToken, TokenEnds, ServiceTakes, FinishService, Poll, PollTimesOut,
       JoinExperts, Encode, GpuType
  <2>2. ~Deferred
    BY <2>1, HeldAlone DEF HeldWaits
  <2>3. call.as # "drain"
    BY <2>2 DEF HeldWaits, Draining
  <2>4. call'.as # "drain"
    <3>1. \/ UNCHANGED call
          \/ Start("service", "early", main.sel)
          \/ \E why \in {"retry", "demand", "missing"} : Start("main", why, main.sel)
      BY <1>1 DEF BeginToken, TokenEnds, ServiceTakes, FinishService, Poll,
         PollTimesOut, JoinExperts, Encode
    <3>2. QED
      BY <2>3, <3>1, Started
  <2>5. QED
    BY <1>q, <2>1, <2>2, <2>4
<1>2. CASE EncodeRouter
  <2>1. /\ main.pc = "router" /\ main'.pc = (IF EarlyFlush THEN "early" ELSE "late")
        /\ gpu'.held = gpu.held /\ UNCHANGED <<call, load, entry>>
    BY <1>2, <1>t DEF EncodeRouter, MainType, GpuType
  <2>2. call = NoCall
    BY <1>t, <2>1 DEF CallFits, CallType
  <2>3. CASE Deferred
    <3>1. main'.pc = "late"
      BY <1>k, <2>1, <2>3 DEF HeldWaits
    <3>2. QED
      BY <1>w, <2>1, <2>2, <3>1 DEF Resident
  <2>4. CASE ~Deferred
    BY <1>n, <1>q, <2>1, <2>2, <2>4
  <2>5. QED
    BY <2>3, <2>4
<1>3. CASE Flush \/ EndToken
  <2>1. CASE Deferred
    BY <1>3, <1>d, <2>1 DEF Flush, EndToken, Deferred
  <2>2. CASE ~Deferred
    <3>1. gpu'.held = gpu.held /\ UNCHANGED call
      BY <1>3, <1>t, <2>2 DEF Flush, EndToken, Deferred, FlushBatch, GpuType
    <3>2. call.as # "drain"
      BY <2>2 DEF HeldWaits, Draining
    <3>3. QED
      BY <1>q, <2>2, <3>1, <3>2
  <2>3. QED
    BY <2>1, <2>2
<1>4. CASE Defer
  <2>1. main.pc = "moe" /\ main'.pc = "after" /\ UNCHANGED <<call, load>> /\ Deferrable
    BY <1>4, MovedTo DEF Defer
  <2>2. call = NoCall /\ ~Deferred
    BY <1>4, <1>t, <2>1 DEF Defer, MainFree, CallFits, CallType, HeldWaits
  <2>3. CASE Missing = {}
    <3>1. gpu'.held = gpu.held
      BY <1>4, <1>t, <2>3 DEF Defer, GpuType
    <3>2. QED
      BY <1>n, <1>q, <2>1, <2>2, <3>1
  <2>4. CASE Missing # {}
    <3>1. gpu'.held.want = main.sel /\ gpu'.held.lack = Missing
      <4>1. \E b, c : gpu' = [gpu EXCEPT !.batch = b,
                                !.held = [cb |-> c, want |-> main.sel, lack |-> Missing]]
        BY <1>4, <2>4 DEF Defer
      <4>2. QED
        BY <1>t, <4>1 DEF GpuType
    <3>2. Gather /\ load.active /\ Missing \subseteq Given(load.into)
      BY <2>1, <2>4 DEF Deferrable, Given
    <3>3. load.want = main.sel
      BY <1>n, <2>1, <2>2, <3>2 DEF CallHas, NoCall
    <3>4. Resident' = Resident
      BY <1>4, EntriesMarked DEF Defer
    <3>5. ~Draining'
      BY <1>n, <2>1, <2>2 DEF Draining
    <3>6. QED
      BY <1>k, <2>1, <3>1, <3>2, <3>3, <3>4, <3>5 DEF HeldWaits, Missing
  <2>5. QED
    BY <2>3, <2>4
<1>5. CASE ReadAhead
  <2>1. Ahead /\ UNCHANGED gpu /\ \E X : Start("main", "ahead", X)
    BY <1>5 DEF ReadAhead
  <2>2. ~Deferred /\ call'.as = "ahead"
    BY <1>k, <2>1, Started DEF HeldWaits
  <2>3. QED
    BY <1>q, <2>1, <2>2
<1>6. CASE NextLayer
  <2>1. /\ main.pc \in {"after", "next"} /\ main'.pc \in {"router", "end"} /\ MainFree
        /\ UNCHANGED <<gpu, call, load, entry>>
    BY <1>6, <1>t DEF NextLayer, MainType
  <2>2. call = NoCall
    BY <1>t, <2>1 DEF MainFree, CallFits, CallType
  <2>3. QED
    BY <1>w, <2>1, <2>2 DEF Resident
<1>7. CASE LoadReturns
  <2>1. call.pc = "return" /\ call' = NoCall /\ AfterLoad /\ UNCHANGED load
    BY <1>7 DEF LoadReturns
  <2>2. CASE Draining
    <3>1. gpu'.held = NoHeld
      BY <1>7, <1>t, <2>2 DEF LoadReturns, ReleaseHeld, Draining, GpuType
    <3>2. QED
      BY <1>n, <2>1, <3>1 DEF HeldWaits, Deferred, Draining
  <2>3. CASE ~Draining
    <3>1. ~Deferred
      BY <1>a, <1>n, <2>1, <2>3
    <3>2. UNCHANGED gpu
      BY <1>7, <2>3 DEF LoadReturns, Draining
    <3>3. QED
      BY <1>n, <1>q, <2>1, <3>1, <3>2
  <2>4. QED
    BY <2>2, <2>3
<1>8. CASE GpuRuns \/ ReadPool \/ Finished \/ UNCHANGED vars
  <2>1. /\ UNCHANGED <<call, main, entry>> /\ gpu'.held = gpu.held
        /\ load'.active = load.active /\ load'.want = load.want /\ load'.into = load.into
    BY <1>8, <1>t DEF GpuRuns, ReadPool, ReadLands, Finished, vars, LoadType, GpuType
  <2>2. QED
    BY <1>k, <2>1 DEF HeldWaits, Deferred, Draining, Resident
<1>9. CASE LoadGoesOn
  BY <1>9, HeldWaitsLoad
<1>10. QED
  BY <1>1, <1>2, <1>3, <1>4, <1>5, <1>6, <1>7, <1>8, <1>9
     DEF Next, MainStep, ServiceStep, Load, LoadGoesOn

-----------------------------------------------------------------------------
\* Epochs.

\* A step that commits nothing and waits for nothing.
LEMMA EpochsStay ==
  ASSUME TypeOK, Epochs, InToken' = InToken, main'.pc = "idle" => main.pc = "idle",
         UNCHANGED seq, gpu'.queue = gpu.queue, gpu'.held = gpu.held,
         gpu'.batch = gpu.batch \/ (InToken /\ gpu'.batch.seq = gpu.batch.seq),
         \A x \in Experts : entry'[x].seq \in {entry[x].seq, 0, seq.batch}
  PROVE  Epochs'
<1>1. \A x \in Experts : entry'[x].seq <= seq'.cb
  <2>1. seq.cb \in Nat /\ seq.batch \in Nat /\ (InToken => seq.batch = seq.cb)
    BY SeqFacts DEF Epochs
  <2>2. seq.batch <= seq.cb
    BY <2>1, SeqFacts DEF Epochs
  <2>3. QED
    BY <2>1, <2>2, SlotFacts DEF Epochs
<1>2. QED
  BY <1>1 DEF Epochs, Deferred

QueueInOrder ==
  \A i \in DOMAIN gpu.queue :
    /\ seq.done < gpu.queue[i].seq /\ gpu.queue[i].seq <= seq.cb
    /\ InToken => gpu.queue[i].seq < seq.batch
    /\ Deferred => gpu.queue[i].seq < gpu.held.cb.seq
    /\ \A j \in DOMAIN gpu.queue : i < j => gpu.queue[i].seq < gpu.queue[j].seq

\* A queue with one more command buffer, and without its first.
LEMMA QueueFacts ==
  ASSUME NEW S, NEW q \in Seq(S)
  PROVE  /\ \A i \in DOMAIN q : i \in Nat /\ q[i] \in S
         /\ \A b \in S : /\ Append(q, b) \in Seq(S)
                         /\ \A i \in DOMAIN q : i < Len(q) + 1 /\ i \in DOMAIN Append(q, b)
                                                /\ Append(q, b)[i] = q[i]
                         /\ Append(q, b)[Len(q) + 1] = b
                         /\ \A i \in DOMAIN Append(q, b) : i \in DOMAIN q \/ i = Len(q) + 1
         /\ q # <<>> => /\ Head(q) = q[1] /\ 1 \in DOMAIN q
                        /\ \A i \in DOMAIN Tail(q) : /\ i \in Nat /\ i + 1 \in DOMAIN q
                                                     /\ Tail(q)[i] = q[i + 1]
<1>1. DOMAIN q = 1..Len(q) /\ Len(q) \in Nat /\ \A i \in 1..Len(q) : q[i] \in S
  OBVIOUS
<1>2. ASSUME NEW b \in S
      PROVE  /\ Append(q, b) \in Seq(S)
             /\ \A i \in DOMAIN q : i < Len(q) + 1 /\ i \in DOMAIN Append(q, b)
                                    /\ Append(q, b)[i] = q[i]
             /\ Append(q, b)[Len(q) + 1] = b
             /\ \A i \in DOMAIN Append(q, b) : i \in DOMAIN q \/ i = Len(q) + 1
  BY <1>1
<1>3. q # <<>> => /\ Head(q) = q[1] /\ 1 \in DOMAIN q
                  /\ \A i \in DOMAIN Tail(q) : i \in Nat /\ i + 1 \in DOMAIN q /\ Tail(q)[i] = q[i + 1]
  BY <1>1
<1>4. QED
  BY <1>1, <1>2, <1>3

\* A newer command buffer is committed, and none stays held.
LEMMA QueueGrows ==
  ASSUME TypeOK, Epochs, ~Deferred', NEW b \in Cb, gpu'.queue = Append(gpu.queue, b),
         seq'.done = seq.done, seq.cb <= seq'.cb, seq'.cb \in Nat, seq'.batch \in Nat,
         seq.done < b.seq, b.seq <= seq'.cb, InToken' => b.seq < seq'.batch,
         \A i \in DOMAIN gpu.queue : gpu.queue[i].seq < b.seq
  PROVE  QueueInOrder'
<1>1. gpu.queue \in Seq(Cb)
  BY TypeParts DEF GpuType
<1> DEFINE q == gpu.queue
<1>2. /\ \A i \in DOMAIN q : i \in Nat /\ q[i].seq \in Nat /\ i < Len(q) + 1
                            /\ gpu'.queue[i] = q[i] /\ i \in DOMAIN gpu'.queue
      /\ gpu'.queue[Len(q) + 1] = b /\ b.seq \in Nat /\ Len(q) \in Nat
      /\ \A i \in DOMAIN gpu'.queue : i \in DOMAIN q \/ i = Len(q) + 1
  <2>1. \A i \in DOMAIN q : i \in Nat /\ q[i] \in Cb
    BY <1>1, QueueFacts
  <2>2. /\ \A i \in DOMAIN q : i < Len(q) + 1 /\ i \in DOMAIN gpu'.queue /\ gpu'.queue[i] = q[i]
        /\ gpu'.queue[Len(q) + 1] = b
        /\ \A i \in DOMAIN gpu'.queue : i \in DOMAIN q \/ i = Len(q) + 1
    BY <1>1, QueueFacts
  <2>3. \A c \in Cb : c.seq \in Nat
    BY DEF Cb
  <2>4. QED
    BY <1>1, <2>1, <2>2, <2>3
<1>3. seq.cb \in Nat /\ seq.done \in Nat
  BY SeqFacts
<1>4. ASSUME NEW i \in DOMAIN gpu'.queue
      PROVE  /\ seq'.done < gpu'.queue[i].seq /\ gpu'.queue[i].seq <= seq'.cb
             /\ InToken' => gpu'.queue[i].seq < seq'.batch
  <2>1. CASE i \in DOMAIN q
    <3>1. gpu'.queue[i] = q[i] /\ q[i].seq \in Nat
      BY <1>2, <2>1
    <3>2. seq.done < q[i].seq /\ q[i].seq <= seq.cb
      BY <2>1 DEF Epochs
    <3>3. q[i].seq < b.seq
      BY <2>1
    <3>4. q[i].seq <= seq'.cb
      BY <1>3, <3>1, <3>2
    <3>5. InToken' => q[i].seq < seq'.batch
      BY <1>2, <3>1, <3>3
    <3>6. QED
      BY <3>1, <3>2, <3>4, <3>5
  <2>2. CASE i = Len(q) + 1
    BY <1>2, <2>2
  <2>3. QED
    BY <1>2, <2>1, <2>2
<1>5. ASSUME NEW i \in DOMAIN gpu'.queue, NEW j \in DOMAIN gpu'.queue, i < j
      PROVE  gpu'.queue[i].seq < gpu'.queue[j].seq
  <2>1. i \in DOMAIN q
    BY <1>2, <1>5
  <2>2. CASE j \in DOMAIN q
    BY <1>2, <1>5, <2>1, <2>2 DEF Epochs
  <2>3. CASE j = Len(q) + 1
    BY <1>2, <2>1, <2>3
  <2>4. QED
    BY <1>2, <2>2, <2>3
<1>6. QED
  BY <1>4, <1>5 DEF QueueInOrder

\* flush_commands within a token, with nothing held.
LEMMA EpochsFlush ==
  ASSUME TypeOK, Epochs, InToken, InToken', ~Deferred, FlushBatch,
         \A x \in Experts : entry'[x].seq = entry[x].seq
  PROVE  Epochs'
<1>t. gpu \in GpuType /\ seq \in SeqType /\ gpu.batch \in Cb
  BY TypeParts DEF GpuType
<1>s. /\ seq.cb \in Nat /\ seq.batch \in Nat /\ seq.pending \in Nat /\ seq.done \in Nat
      /\ seq.owned \in Nat /\ gpu.batch.seq \in Nat
  BY SeqFacts, <1>t DEF Cb
<1>1. /\ gpu'.queue = Append(gpu.queue, gpu.batch) /\ gpu'.batch = OpenBatch(seq.cb + 1)
      /\ gpu'.held = gpu.held
  BY <1>t DEF FlushBatch, GpuType
<1>2. /\ seq'.cb = seq.cb + 1 /\ seq'.batch = seq.cb + 1 /\ seq'.done = seq.done
      /\ seq'.owned = seq.owned /\ seq'.pending = Highest(seq.pending, seq.batch)
  BY <1>t DEF FlushBatch, SeqType
<1>3. /\ gpu.batch.seq = seq.batch /\ seq.batch = seq.cb
      /\ seq.pending < seq.batch /\ seq.done < seq.batch /\ seq.owned <= seq.cb
      /\ \A i \in DOMAIN gpu.queue : gpu.queue[i].seq < gpu.batch.seq
  BY DEF Epochs
<1>4. ~Deferred'
  BY <1>1 DEF Deferred
<1>5. QueueInOrder'
  BY <1>t, <1>s, <1>1, <1>2, <1>3, <1>4, QueueGrows
<1>6. gpu'.batch.seq = seq'.batch
  BY <1>1, <1>2 DEF OpenBatch, NoCb
<1>7. seq'.pending <= seq.cb
  BY <1>s, <1>2, <1>3 DEF Highest
<1>8. main'.pc # "idle"
  BY DEF InToken
<1>9. /\ seq'.pending < seq'.batch /\ seq'.done < seq'.batch /\ seq'.done <= seq'.cb
      /\ seq'.pending <= seq'.cb /\ seq'.owned <= seq'.cb /\ seq'.batch <= seq'.cb
      /\ seq'.batch = seq'.cb /\ seq'.pending \in Nat
  <2>1. seq'.pending \in Nat
    BY <1>s, <1>2 DEF Highest
  <2>2. QED
    BY <2>1, <1>s, <1>2, <1>3, <1>7
<1>10. \A x \in Experts : entry'[x].seq <= seq'.cb
  BY <1>s, <1>2, SlotFacts DEF Epochs
<1>11. QED
  BY <1>4, <1>5, <1>6, <1>8, <1>9, <1>10 DEF Epochs, QueueInOrder

\* What has all run is done.
LEMMA EpochsWaited ==
  ASSUME TypeOK, Epochs, InToken' = InToken, main'.pc = "idle" => main.pc = "idle",
         ~Deferred, gpu.queue = <<>>, seq' = Waited, UNCHANGED <<gpu, entry>>
  PROVE  Epochs'
<1>1. /\ seq.cb \in Nat /\ seq.batch \in Nat /\ seq.pending \in Nat /\ seq.done \in Nat
      /\ seq.owned \in Nat /\ seq \in SeqType
  BY SeqFacts, TypeParts
<1>2. /\ seq'.cb = seq.cb /\ seq'.batch = seq.batch /\ seq'.owned = seq.owned /\ seq'.pending = 0
      /\ seq'.done = Highest(seq.done, seq.pending)
  BY <1>1 DEF Waited, SeqType
<1>3. seq'.done \in {seq.done, seq.pending}
  BY <1>2 DEF Highest
<1>4. DOMAIN gpu'.queue = {} /\ ~Deferred'
  BY DEF Deferred
<1>5. \A x \in Experts : entry'[x].seq <= seq'.cb
  BY <1>2 DEF Epochs
<1>6. seq'.done <= seq'.cb /\ seq'.pending <= seq'.cb /\ seq'.owned <= seq'.cb /\ seq'.batch <= seq'.cb
  BY <1>1, <1>2, <1>3 DEF Epochs
<1>7. InToken => /\ gpu'.batch.seq = seq'.batch /\ seq'.batch = seq'.cb
                 /\ seq'.pending < seq'.batch /\ seq'.done < seq'.batch
  BY <1>1, <1>2, <1>3 DEF Epochs
<1>8. QED
  BY <1>4, <1>5, <1>6, <1>7 DEF Epochs

\* A token begins, ends, or its command buffers have all run.
LEMMA EpochsToken ==
  ASSUME TypeOK, CallFits, HeldWaits, Epochs, BeginToken \/ TokenEnds \/ (EndToken /\ ~Deferred)
  PROVE  Epochs'
<1>t. gpu \in GpuType /\ seq \in SeqType /\ main \in MainType /\ gpu.batch \in Cb
  BY TypeParts DEF GpuType
<1>s. /\ seq.cb \in Nat /\ seq.batch \in Nat /\ seq.pending \in Nat /\ seq.done \in Nat
      /\ seq.owned \in Nat
  BY SeqFacts
<1>e. UNCHANGED entry /\ \A x \in Experts : entry[x].seq \in Nat
  BY SlotFacts DEF BeginToken, TokenEnds, EndToken
<1>1. CASE BeginToken
  <2>1. main.pc = "idle" /\ main'.pc = "router" /\ InToken' /\ gpu.queue = <<>> /\ ~Deferred
    BY <1>1, <1>t DEF BeginToken, MainType, InToken, Epochs, HeldWaits
  <2>2. /\ gpu'.queue = gpu.queue /\ gpu'.held = gpu.held /\ gpu'.batch = OpenBatch(seq.cb + 1)
        /\ gpu'.batch.seq = seq.cb + 1
    BY <1>1, <1>t DEF BeginToken, GpuType, OpenBatch, NoCb
  <2>3. /\ seq'.cb = seq.cb + 1 /\ seq'.batch = seq.cb + 1 /\ seq'.done = seq.done
        /\ seq'.owned = seq.owned /\ seq'.pending = seq.pending
    BY <1>1, <1>t DEF BeginToken, SeqType
  <2>4. DOMAIN gpu'.queue = {} /\ ~Deferred'
    BY <2>1, <2>2 DEF Deferred
  <2>5. /\ seq.done <= seq.cb /\ seq.pending <= seq.cb /\ seq.owned <= seq.cb
        /\ \A x \in Experts : entry[x].seq <= seq.cb
    BY DEF Epochs
  <2>6. \A x \in Experts : entry'[x].seq <= seq'.cb
    BY <1>s, <1>e, <2>3, <2>5
  <2>7. /\ seq'.batch = seq'.cb /\ seq'.pending < seq'.batch /\ seq'.done < seq'.batch
        /\ seq'.done <= seq'.cb /\ seq'.pending <= seq'.cb /\ seq'.owned <= seq'.cb
        /\ seq'.batch <= seq'.cb
    BY <1>s, <2>3, <2>5
  <2>8. QED
    BY <2>1, <2>2, <2>3, <2>4, <2>6, <2>7 DEF Epochs
<1>2. CASE EndToken /\ ~Deferred
  <2>1. main.pc = "end" /\ main'.pc = "endwait" /\ ~InToken' /\ InToken
    BY <1>2, MovedTo DEF EndToken, InToken, Deferred
  <2>2. /\ gpu'.queue = Append(gpu.queue, gpu.batch) /\ gpu'.held = gpu.held /\ gpu'.batch = NoCb
    BY <1>2, <1>t DEF EndToken, GpuType, Deferred
  <2>3. /\ seq'.cb = seq.cb /\ seq'.batch = 0 /\ seq'.done = seq.done
        /\ seq'.owned = seq.batch /\ seq'.pending = seq.pending
    BY <1>2, <1>t DEF EndToken, SeqType, Deferred
  <2>4. ~Deferred'
    BY <1>2, <2>2 DEF Deferred
  <2>5. /\ gpu.batch.seq = seq.batch /\ seq.batch = seq.cb /\ seq.done < seq.batch
        /\ \A i \in DOMAIN gpu.queue : gpu.queue[i].seq < gpu.batch.seq
    BY <2>1 DEF Epochs
  <2>6. QueueInOrder'
    BY <1>t, <1>s, <2>1, <2>2, <2>3, <2>4, <2>5, QueueGrows
  <2>7. /\ seq'.done <= seq'.cb /\ seq'.pending <= seq'.cb /\ seq'.owned <= seq'.cb
        /\ seq'.batch <= seq'.cb
    BY <1>s, <2>3 DEF Epochs
  <2>8. \A x \in Experts : entry'[x].seq <= seq'.cb
    BY <1>e, <2>3 DEF Epochs
  <2>9. QED
    BY <2>1, <2>2, <2>4, <2>6, <2>7, <2>8 DEF Epochs, QueueInOrder
<1>3. CASE TokenEnds
  <2>1. main.pc = "endwait" /\ main'.pc = "idle" /\ ~InToken' /\ gpu.queue = <<>> /\ ~Deferred
        /\ ~InToken /\ UNCHANGED gpu
    BY <1>3, <1>t DEF TokenEnds, MainType, InToken, HeldWaits
  <2>2. /\ seq'.cb = seq.cb /\ seq'.batch = seq.batch /\ seq'.owned = 0 /\ seq'.pending = 0
        /\ seq'.done = Highest(seq.done, Highest(seq.pending, seq.owned))
    BY <1>3, <1>t DEF TokenEnds, SeqType
  <2>3. seq'.done \in {seq.done, seq.pending, seq.owned}
    BY <2>2 DEF Highest
  <2>4. DOMAIN gpu'.queue = {} /\ ~Deferred' /\ gpu'.batch = NoCb /\ gpu'.queue = <<>>
    BY <2>1 DEF Deferred, Epochs
  <2>5. /\ seq'.done <= seq'.cb /\ seq'.pending <= seq'.cb /\ seq'.owned <= seq'.cb
        /\ seq'.batch <= seq'.cb
    BY <1>s, <2>2, <2>3 DEF Epochs
  <2>6. \A x \in Experts : entry'[x].seq <= seq'.cb
    BY <1>e, <2>2 DEF Epochs
  <2>7. QED
    BY <2>1, <2>4, <2>5, <2>6 DEF Epochs
<1>4. QED
  BY <1>1, <1>2, <1>3

\* The GPU runs the oldest committed command buffer.
LEMMA EpochsGpuRuns ==
  ASSUME TypeOK, Epochs, GpuRuns
  PROVE  Epochs'
<1>t. gpu \in GpuType /\ gpu.queue \in Seq(Cb)
  BY TypeParts DEF GpuType
<1>1. /\ gpu.queue # <<>> /\ gpu'.queue = Tail(gpu.queue) /\ gpu'.batch = gpu.batch
      /\ gpu'.held = gpu.held /\ UNCHANGED <<main, seq, entry>>
  BY <1>t DEF GpuRuns, GpuType
<1>2. \A i \in DOMAIN gpu'.queue : /\ i \in Nat /\ i + 1 \in DOMAIN gpu.queue
                                   /\ gpu'.queue[i] = gpu.queue[i + 1]
  BY <1>t, <1>1, QueueFacts
<1>3. ASSUME NEW i \in DOMAIN gpu'.queue
      PROVE  /\ seq.done < gpu'.queue[i].seq /\ gpu'.queue[i].seq <= seq.cb
             /\ InToken => gpu'.queue[i].seq < seq.batch
             /\ Deferred => gpu'.queue[i].seq < gpu.held.cb.seq
             /\ \A j \in DOMAIN gpu'.queue : i < j => gpu'.queue[i].seq < gpu'.queue[j].seq
  <2>1. i + 1 \in DOMAIN gpu.queue /\ gpu'.queue[i] = gpu.queue[i + 1]
    BY <1>2
  <2>2. ASSUME NEW j \in DOMAIN gpu'.queue, i < j PROVE gpu'.queue[i].seq < gpu'.queue[j].seq
    <3>1. j + 1 \in DOMAIN gpu.queue /\ gpu'.queue[j] = gpu.queue[j + 1] /\ i + 1 < j + 1
      BY <1>2, <2>2
    <3>2. QED
      BY <2>1, <3>1 DEF Epochs
  <2>3. QED
    BY <2>1, <2>2 DEF Epochs
<1>4. main.pc # "idle"
  BY <1>1 DEF Epochs
<1>5. (InToken' <=> InToken) /\ (Deferred' <=> Deferred)
  BY <1>1 DEF InToken, Deferred
<1>6. QED
  BY <1>1, <1>3, <1>4, <1>5 DEF Epochs

\* A command buffer is held back, and released.
LEMMA EpochsDefer ==
  ASSUME TypeOK, HeldWaits, Epochs, Defer
  PROVE  Epochs'
<1>t. gpu \in GpuType /\ seq \in SeqType /\ main \in MainType /\ gpu.batch \in Cb
      /\ gpu.queue \in Seq(Cb)
  BY TypeParts DEF GpuType
<1>s. /\ seq.cb \in Nat /\ seq.batch \in Nat /\ seq.pending \in Nat /\ seq.done \in Nat
      /\ seq.owned \in Nat /\ \A x \in Experts : entry[x].seq \in Nat
  BY SeqFacts, SlotFacts
<1>1. /\ main.pc = "moe" /\ main'.pc = "after" /\ InToken /\ InToken' /\ ~Deferred
      /\ entry' = Marked(entry, main.sel \cap Resident)
  BY MovedTo DEF Defer, InToken, HeldWaits
<1>2. \A x \in Experts : entry'[x].seq \in {entry[x].seq, seq.batch}
  BY <1>1, EntriesMarked
<1>3. CASE Missing = {}
  <2>1. UNCHANGED seq /\ gpu'.queue = gpu.queue /\ gpu'.held = gpu.held
    BY <1>t, <1>3 DEF Defer, GpuType
  <2>2. gpu'.batch.seq = gpu.batch.seq
    <3>1. \E u : gpu' = [gpu EXCEPT !.batch = [gpu.batch EXCEPT !.uses = u]]
      BY <1>3 DEF Defer
    <3>2. QED
      BY <1>t, <3>1 DEF GpuType, Cb
  <2>3. QED
    BY <1>1, <1>2, <2>1, <2>2, EpochsStay
<1>4. CASE Missing # {}
  <2>1. /\ gpu'.queue = gpu.queue /\ gpu'.held.cb.seq = gpu.batch.seq
        /\ gpu'.batch = OpenBatch(seq.cb + 1)
    <3>1. \E u : gpu' = [gpu EXCEPT !.batch = OpenBatch(seq.cb + 1),
                              !.held = [cb |-> [gpu.batch EXCEPT !.uses = u],
                                        want |-> main.sel, lack |-> Missing]]
      BY <1>4 DEF Defer
    <3>2. PICK u : gpu' = [gpu EXCEPT !.batch = OpenBatch(seq.cb + 1),
                              !.held = [cb |-> [gpu.batch EXCEPT !.uses = u],
                                        want |-> main.sel, lack |-> Missing]]
      BY <3>1
    <3>3. gpu'.queue = gpu.queue /\ gpu'.batch = OpenBatch(seq.cb + 1)
          /\ gpu'.held.cb = [gpu.batch EXCEPT !.uses = u]
      BY <1>t, <3>2 DEF GpuType
    <3>4. QED
      BY <1>t, <3>3 DEF Cb
  <2>2. /\ seq'.cb = seq.cb + 1 /\ seq'.batch = seq.cb + 1 /\ seq'.done = seq.done
        /\ seq'.owned = seq.owned /\ seq'.pending = Highest(seq.pending, seq.batch)
    BY <1>t, <1>4 DEF Defer, SeqType
  <2>3. gpu'.batch.seq = seq.cb + 1
    BY <2>1 DEF OpenBatch, NoCb
  <2>4. /\ gpu.batch.seq = seq.batch /\ seq.batch = seq.cb /\ seq.done < seq.batch
        /\ seq.pending < seq.batch /\ seq.owned <= seq.cb
        /\ \A i \in DOMAIN gpu.queue :
             /\ seq.done < gpu.queue[i].seq /\ gpu.queue[i].seq <= seq.cb
             /\ gpu.queue[i].seq < seq.batch
             /\ \A j \in DOMAIN gpu.queue : i < j => gpu.queue[i].seq < gpu.queue[j].seq
        /\ \A x \in Experts : entry[x].seq <= seq.cb
    BY <1>1 DEF Epochs
  <2>5. seq'.pending = seq.batch
    BY <1>s, <2>2, <2>4 DEF Highest
  <2>6. \A x \in Experts : entry'[x].seq <= seq'.cb
    BY <1>s, <1>2, <2>2, <2>4
  <2>7. \A i \in DOMAIN gpu.queue : gpu.queue[i].seq \in Nat
    <3>1. \A i \in DOMAIN gpu.queue : gpu.queue[i] \in Cb
      BY <1>t, QueueFacts
    <3>2. QED
      BY <3>1 DEF Cb
  <2>8. ASSUME NEW i \in DOMAIN gpu'.queue
        PROVE  /\ seq'.done < gpu'.queue[i].seq /\ gpu'.queue[i].seq <= seq'.cb
               /\ gpu'.queue[i].seq < seq'.batch /\ gpu'.queue[i].seq < gpu'.held.cb.seq
               /\ \A j \in DOMAIN gpu'.queue : i < j => gpu'.queue[i].seq < gpu'.queue[j].seq
    BY <1>s, <2>1, <2>2, <2>4, <2>7
  <2>9. /\ seq'.batch = seq'.cb /\ seq'.pending < seq'.batch /\ seq'.done < seq'.batch
        /\ seq'.done <= seq'.cb /\ seq'.pending <= seq'.cb /\ seq'.owned <= seq'.cb
        /\ seq'.batch <= seq'.cb
        /\ seq'.done < gpu'.held.cb.seq /\ gpu'.held.cb.seq < seq'.batch
        /\ gpu'.batch.seq = seq'.batch
    BY <1>s, <2>1, <2>2, <2>3, <2>4, <2>5
  <2>10. main'.pc # "idle"
    BY <1>1
  <2>11. QED
    BY <1>1, <2>6, <2>8, <2>9, <2>10 DEF Epochs
<1>5. QED
  BY <1>3, <1>4

LEMMA EpochsDrained ==
  ASSUME TypeOK, CallFits, HeldWaits, Epochs, LoadReturns, Draining
  PROVE  Epochs'
<1>t. /\ gpu \in GpuType /\ main \in MainType /\ gpu.batch \in Cb /\ gpu.held.cb \in Cb
      /\ seq.batch \in Nat /\ seq.cb \in Nat /\ seq.done \in Nat
      /\ \A x \in Experts : entry[x].seq \in Nat
  BY TypeParts, SeqFacts, SlotFacts DEF GpuType, HeldType
<1>1. /\ Deferred /\ InToken /\ main'.pc = main.pc /\ UNCHANGED seq
      /\ gpu' = [gpu EXCEPT !.queue = Append(@, gpu.held.cb), !.held = NoHeld]
      /\ entry' = IF call.ok THEN Marked(entry, gpu.held.lack) ELSE entry
  BY ReturnedTo DEF LoadReturns, ReleaseHeld, Draining, HeldWaits, InToken
<1>2. gpu'.queue = Append(gpu.queue, gpu.held.cb) /\ gpu'.batch = gpu.batch /\ gpu'.held = NoHeld
  BY <1>t, <1>1 DEF GpuType
<1>3. InToken' /\ ~Deferred'
  BY <1>1, <1>2 DEF InToken, Deferred
<1>4. \A x \in Experts : entry'[x].seq \in {entry[x].seq, seq.batch}
  BY <1>1, EntriesMarked
<1>5. /\ gpu.batch.seq = seq.batch /\ seq.batch = seq.cb
      /\ seq.done < gpu.held.cb.seq /\ gpu.held.cb.seq < seq.batch
      /\ \A i \in DOMAIN gpu.queue : gpu.queue[i].seq < gpu.held.cb.seq
  BY <1>1 DEF Epochs
<1>6. gpu.held.cb.seq \in Nat
  BY <1>t DEF Cb
<1>7. QueueInOrder'
  BY <1>t, <1>1, <1>2, <1>3, <1>5, <1>6, QueueGrows
<1>8. \A x \in Experts : entry'[x].seq <= seq'.cb
  BY <1>t, <1>1, <1>4, <1>5 DEF Epochs
<1>9. main'.pc # "idle"
  BY <1>1 DEF InToken
<1>10. /\ gpu'.batch.seq = seq'.batch /\ seq'.batch = seq'.cb
       /\ seq'.pending < seq'.batch /\ seq'.done < seq'.batch
       /\ seq'.done <= seq'.cb /\ seq'.pending <= seq'.cb /\ seq'.owned <= seq'.cb
       /\ seq'.batch <= seq'.cb
  BY <1>1, <1>2 DEF Epochs
<1>11. QED
  BY <1>3, <1>7, <1>8, <1>9, <1>10 DEF Epochs, QueueInOrder

LEMMA EpochsStep ==
  ASSUME TypeOK, CallFits, CallHas, HeldWaits, Epochs, Owners, [Next]_vars
  PROVE  Epochs'
<1>t. main \in MainType /\ gpu \in GpuType /\ call \in CallType /\ gpu.batch \in Cb
  BY TypeParts DEF GpuType
<1>s. \A x \in Experts : entry[x].seq = entry[x].seq
  OBVIOUS
\* A step in which the thread that decodes goes on within the token, or stays.
<1>1. CASE BeginToken \/ TokenEnds \/ (EndToken /\ ~Deferred)
  BY <1>1, EpochsToken
<1>2. CASE EndToken /\ Deferred
  <2>1. UNCHANGED <<main, seq, gpu, entry>>
    BY <1>2 DEF EndToken, Deferred
  <2>2. QED
    BY <2>1, EpochsStay DEF InToken
<1>3. CASE Flush
  <2>1. CASE Deferred
    <3>1. UNCHANGED <<main, seq, gpu, entry>>
      BY <1>3, <2>1 DEF Flush, Deferred
    <3>2. QED
      BY <3>1, EpochsStay DEF InToken
  <2>2. CASE ~Deferred
    <3>1. /\ main.pc \in {"early", "late"} /\ main'.pc \in {"late", "finish", "poll"}
          /\ FlushBatch /\ UNCHANGED entry
      BY <1>3, <2>2, MovedTo DEF Flush, Deferred
    <3>2. InToken /\ InToken'
      BY <3>1 DEF InToken
    <3>3. QED
      BY <2>2, <3>1, <3>2, EpochsFlush
  <2>3. QED
    BY <2>1, <2>2
<1>4. CASE Defer
  BY <1>4, EpochsDefer
<1>5. CASE LoadReturns /\ Draining
  BY <1>5, EpochsDrained
<1>6. CASE GpuRuns
  BY <1>6, EpochsGpuRuns
<1>7. CASE PollTimesOut
  <2>1. /\ main.pc = "poll" /\ gpu.queue = <<>> /\ seq' = Waited /\ UNCHANGED <<gpu, entry, main>>
    BY <1>7 DEF PollTimesOut
  <2>2. ~Deferred /\ InToken' = InToken
    BY <2>1 DEF HeldWaits, InToken
  <2>3. QED
    BY <2>1, <2>2, EpochsWaited
<1>8. CASE EndWait
  <2>1. /\ gpu.queue = <<>> /\ seq' = Waited /\ UNCHANGED <<gpu, entry, main>>
        /\ call.pc \in {"batchwait", "takewait"}
    BY <1>8 DEF EndWait
  <2>2. ~Deferred /\ InToken' = InToken
    BY <2>1, HeldAlone DEF HeldWaits, NoCall, InToken
  <2>3. QED
    BY <2>1, <2>2, EpochsWaited
<1>9. CASE TakeBatch \/ TakeBuffer
  <2>1. UNCHANGED main /\ call.pc \in {"batch", "take"}
    BY <1>9 DEF TakeBatch, TakeBuffer
  <2>2. ~Deferred /\ InToken' = InToken
    BY <2>1, HeldAlone DEF HeldWaits, NoCall, InToken
  <2>3. CASE StartWait
    <3>1. InToken
      BY <1>t, <2>1 DEF CallFits, CallType, InToken
    <3>2. QED
      BY <2>1, <2>2, <2>3, <3>1, EpochsFlush DEF StartWait
  <2>4. CASE UNCHANGED <<seq, gpu>> /\ \E V : entry' = Evicted(V)
    <3>1. \A x \in Experts : entry'[x].seq \in {entry[x].seq, 0}
      BY <2>4, EntriesEvicted
    <3>2. QED
      BY <2>1, <2>2, <2>4, <3>1, EpochsStay
  <2>5. CASE UNCHANGED <<seq, gpu, entry>>
    BY <2>1, <2>2, <2>5, EpochsStay
  <2>6. QED
    BY <1>9, <2>3, <2>4, <2>5, Takes
<1>10. CASE JoinPending \/ ReadNow
  <2>1. UNCHANGED <<main, seq, gpu>>
    BY <1>10 DEF JoinPending, ReadNow
  <2>2. UNCHANGED entry \/ entry' = Installed(load.into) \/ entry' = Installed(call.got)
    BY <1>10 DEF JoinPending, ReadNow
  <2>3. /\ OneToOne(load.into) /\ load.into \in SUBSET Pairs
        /\ OneToOne(call.got) /\ call.got \in SUBSET Pairs
    BY TypeParts, CallTypes DEF Owners, LoadType
  <2>4. \A x \in Experts : entry'[x].seq \in {entry[x].seq, 0}
    BY <2>2, <2>3, EntriesInstalled
  <2>5. QED
    BY <2>1, <2>4, EpochsStay DEF InToken
<1>11. CASE AlreadyPending \/ NothingPending \/ PlanLoad \/ BeginReads \/ ReadPool \/ Finished
              \/ UNCHANGED vars \/ ServiceTakes \/ Poll
  <2>1. UNCHANGED <<main, seq, gpu, entry>>
    BY <1>11 DEF AlreadyPending, NothingPending, PlanLoad, BeginReads, ReadPool, ReadLands,
       Finished, vars, ServiceTakes, Poll
  <2>2. QED
    BY <2>1, EpochsStay DEF InToken
<1>12. CASE LoadReturns /\ ~Draining
  <2>1. UNCHANGED <<seq, gpu, entry>> /\ AfterLoad /\ call.pc = "return"
    BY <1>12 DEF LoadReturns, Draining
  <2>2. InToken
    BY <1>t, <2>1 DEF CallFits, CallType, InToken
  <2>3. main'.pc \in {main.pc, "moe", "prune", "next", "end"}
    BY <2>1, ReturnedTo DEF AfterLoad
  <2>4. InToken' /\ main'.pc # "idle"
    BY <2>2, <2>3 DEF InToken
  <2>5. QED
    BY <2>1, <2>2, <2>4, EpochsStay
<1>13. CASE EncodeRouter \/ FinishService \/ JoinExperts \/ Encode \/ ReadAhead \/ NextLayer
  <2>1. UNCHANGED seq /\ gpu'.queue = gpu.queue /\ gpu'.held = gpu.held
        /\ gpu'.batch.seq = gpu.batch.seq
    <3>1. /\ UNCHANGED seq
          /\ \/ UNCHANGED gpu
             \/ \E r : gpu' = [gpu EXCEPT !.batch = [gpu.batch EXCEPT !.router = r]]
             \/ \E u : gpu' = [gpu EXCEPT !.batch = [gpu.batch EXCEPT !.uses = u]]
      BY <1>13 DEF EncodeRouter, FinishService, JoinExperts, Encode, ReadAhead, NextLayer
    <3>2. QED
      BY <1>t, <3>1 DEF GpuType, Cb
  <2>2. InToken /\ InToken' /\ main'.pc # "idle"
    <3>1. main.pc \notin {"idle", "endwait"}
      BY <1>13 DEF EncodeRouter, FinishService, JoinExperts, Encode, ReadAhead, NextLayer
    <3>2. UNCHANGED main \/ main'.pc \in {"early", "late", "router", "end", "moe", "prune", "after"}
      BY <1>13, <1>t, MovedTo DEF EncodeRouter, FinishService, JoinExperts, Encode, ReadAhead,
         NextLayer, MainType
    <3>3. QED
      BY <3>1, <3>2 DEF InToken
  <2>3. \/ UNCHANGED entry \/ (\E V : entry' = Evicted(V)) \/ (\E X : entry' = Marked(entry, X))
    BY <1>13 DEF EncodeRouter, FinishService, JoinExperts, Encode, ReadAhead, NextLayer
  <2>4. \A x \in Experts : entry'[x].seq \in {entry[x].seq, 0, seq.batch}
    BY <2>3, EntriesEvicted, EntriesMarked
  <2>5. QED
    BY <2>1, <2>2, <2>4, EpochsStay
<1>14. QED
  BY <1>1, <1>2, <1>3, <1>4, <1>5, <1>6, <1>7, <1>8, <1>9, <1>10, <1>11, <1>12, <1>13
     DEF Next, MainStep, ServiceStep, Load

-----------------------------------------------------------------------------
\* Every buffer has one owner.

\* No buffer changes hands.
LEMMA OwnersStay ==
  ASSUME TypeOK, Owners, \A x \in Experts : entry'[x].slot = entry[x].slot, UNCHANGED free,
         load'.into \in {load.into, {}}, call'.got \in {call.got, {}}
  PROVE  Owners'
<1>1. Resident' = Resident /\ \A x \in Resident : x \in Experts /\ entry'[x].slot = entry[x].slot
  BY DEF Resident
<1>2. EntrySlots' = EntrySlots
  BY <1>1 DEF EntrySlots
<1>3. /\ Targets(load.into)' \subseteq Targets(load.into)
      /\ Targets(call.got)' \subseteq Targets(call.got)
      /\ Given(load.into)' \subseteq Given(load.into)
      /\ OneToOne(load.into)' /\ OneToOne(call.got)'
  BY DEF Targets, Given, OneToOne, Owners
<1>4. QED
  BY <1>1, <1>2, <1>3 DEF Owners

\* Buffers prepared for a load become entries.
LEMMA OwnersInstalled ==
  ASSUME TypeOK, Owners, NEW P \in SUBSET Pairs, OneToOne(P), Given(P) \cap Resident = {},
         Targets(P) \cap (free \cup EntrySlots) = {}, entry' = Installed(P), UNCHANGED free,
         load'.into = {}, call'.got = {}
  PROVE  Owners'
<1>1. /\ Resident' = Resident \cup Given(P)
      /\ \A p \in P : entry'[p[1]].slot = p[2]
      /\ \A x \in Experts : x \notin Given(P) => entry'[x] = entry[x]
  BY EntriesInstalled
<1>2. \A x \in Resident : x \in Experts /\ entry'[x] = entry[x]
  BY <1>1 DEF Resident
<1>3. \A x \in Resident' : \/ x \in Resident /\ entry'[x].slot = entry[x].slot
                           \/ \E p \in P : x = p[1] /\ entry'[x].slot = p[2]
  BY <1>1, <1>2 DEF Given
<1>4. ASSUME NEW x \in Resident', NEW y \in Resident', entry'[x].slot = entry'[y].slot
      PROVE  x = y
  <2>1. \A z \in Resident, p \in P : entry[z].slot # p[2]
    BY DEF EntrySlots, Targets
  <2>2. CASE x \in Resident /\ entry'[x].slot = entry[x].slot
    <3>1. CASE y \in Resident /\ entry'[y].slot = entry[y].slot
      BY <1>4, <2>2, <3>1 DEF Owners
    <3>2. CASE \E p \in P : y = p[1] /\ entry'[y].slot = p[2]
      BY <1>4, <2>1, <2>2, <3>2
    <3>3. QED
      BY <1>3, <3>1, <3>2
  <2>3. CASE \E p \in P : x = p[1] /\ entry'[x].slot = p[2]
    BY <1>3, <1>4, <2>1, <2>3 DEF OneToOne
  <2>4. QED
    BY <1>3, <2>2, <2>3
<1>5. EntrySlots' \cap free' = {}
  <2>1. ASSUME NEW x \in Resident' PROVE entry'[x].slot \notin free
    <3>1. CASE x \in Resident /\ entry'[x].slot = entry[x].slot
      BY <3>1 DEF Owners, EntrySlots
    <3>2. CASE \E p \in P : x = p[1] /\ entry'[x].slot = p[2]
      BY <3>2 DEF Targets
    <3>3. QED
      BY <1>3, <3>1, <3>2
  <2>2. QED
    BY <2>1 DEF EntrySlots
<1>6. QED
  BY <1>4, <1>5 DEF Owners, Targets, Given, OneToOne

\* Victims give their buffers up, to a load or to the free list.
LEMMA OwnersEvicted ==
  ASSUME TypeOK, Owners, NEW V \in SUBSET Resident, entry' = Evicted(V), UNCHANGED load,
         OneToOne(call'.got), free \subseteq free',
         \A s \in free' : s \in free \/ \E v \in V : s = entry[v].slot,
         \A p \in call'.got : p \in call.got \/ \E v \in V : p[2] = entry[v].slot,
         free' = free \/ call'.got = call.got
  PROVE  Owners'
<1>1. /\ Resident' = Resident \ V
      /\ \A x \in Resident' : x \in Resident /\ entry'[x].slot = entry[x].slot
  BY EntriesEvicted
<1>2. EntrySlots' \subseteq EntrySlots /\ \A v \in V : entry[v].slot \notin EntrySlots'
  BY <1>1 DEF EntrySlots, Owners
<1>3. \A v \in V : /\ entry[v].slot \in EntrySlots /\ entry[v].slot \notin free
                   /\ entry[v].slot \notin Targets(load.into)
                   /\ entry[v].slot \notin Targets(call.got)
  BY DEF EntrySlots, Owners
<1>4. \A s \in Targets(call.got)' : s \in Targets(call.got) \/ \E v \in V : s = entry[v].slot
  BY DEF Targets
<1>5. \A s \in free' : s \notin EntrySlots' /\ s \notin Targets(load.into)
  BY <1>2, <1>3 DEF Owners
<1>6. \A s \in Targets(call.got)' : s \notin EntrySlots' /\ s \notin Targets(load.into)
  BY <1>2, <1>3, <1>4 DEF Owners
<1>7. \A s \in Targets(call.got)' : s \notin free'
  <2>1. CASE free' = free
    BY <1>3, <1>4, <2>1 DEF Owners
  <2>2. CASE call'.got = call.got
    BY <1>3, <2>2 DEF Owners, Targets
  <2>3. QED
    BY <2>1, <2>2
<1>8. Targets(load.into)' = Targets(load.into) /\ Given(load.into)' = Given(load.into)
      /\ OneToOne(load.into)'
  BY DEF Owners, Targets, Given, OneToOne
<1>9. \A x, y \in Resident' : entry'[x].slot = entry'[y].slot => x = y
  BY <1>1 DEF Owners
<1>10. Targets(load.into)' \cap (free \cup EntrySlots)' = {}
  BY <1>2, <1>5, <1>8 DEF Owners
<1>11. Given(load.into)' \cap Resident' = {}
  BY <1>1, <1>8 DEF Owners
<1>12. OneToOne(call.got)'
  BY DEF OneToOne
<1>13. QED
  BY <1>5, <1>6, <1>7, <1>8, <1>9, <1>10, <1>11, <1>12 DEF Owners

\* A load is given a buffer nobody owned, or one of the free list.
LEMMA OwnersGiven ==
  ASSUME TypeOK, Owners, NEW s, UNCHANGED <<entry, load>>, OneToOne(call'.got),
         s \notin EntrySlots, s \notin Targets(load.into), s \notin free',
         free' \subseteq free, \A p \in call'.got : p \in call.got \/ p[2] = s
  PROVE  Owners'
<1>1. \A t \in Targets(call.got)' : t \in Targets(call.got) \/ t = s
  BY DEF Targets
<1>2. /\ Resident' = Resident /\ EntrySlots' = EntrySlots /\ OneToOne(call.got)'
      /\ Targets(load.into)' = Targets(load.into) /\ Given(load.into)' = Given(load.into)
      /\ OneToOne(load.into)'
  BY DEF Resident, EntrySlots, Targets, Given, OneToOne, Owners
<1>3. Targets(call.got)' \cap (free \cup EntrySlots \cup Targets(load.into))' = {}
  BY <1>1, <1>2 DEF Owners
<1>4. QED
  BY <1>2, <1>3 DEF Owners

LEMMA OwnersLoad ==
  ASSUME TypeOK, CallHas, LoadFits, Owners, LoadGoesOn
  PROVE  Owners'
<1>t. /\ call \in CallType /\ load \in LoadType /\ call.got \in SUBSET Pairs
      /\ load.into \in SUBSET Pairs
  BY TypeParts, CallTypes DEF LoadType
<1>o. OneToOne(load.into) /\ OneToOne(call.got)
  BY DEF Owners
<1>i. NoLoad.into = {}
  BY DEF NoLoad
<1>1. CASE AlreadyPending \/ NothingPending \/ PlanLoad \/ EndWait
  <2>1. UNCHANGED <<entry, free, load>> /\ call'.got = call.got
    BY <1>1, <1>t DEF AlreadyPending, NothingPending, PlanLoad, EndWait, Returns, CallType
  <2>2. QED
    BY <2>1, OwnersStay
<1>2. CASE JoinPending
  <2>1. load' = NoLoad /\ call'.got = call.got /\ UNCHANGED free /\ call.pc = "join"
    BY <1>2, <1>t DEF JoinPending, Returns, CallType
  <2>2. CASE load.failed
    <3>1. UNCHANGED entry
      BY <1>2, <2>2 DEF JoinPending
    <3>2. QED
      BY <1>i, <2>1, <3>1, OwnersStay
  <2>3. CASE ~load.failed
    <3>1. entry' = Installed(load.into)
      BY <1>2, <2>3 DEF JoinPending
    <3>2. call.got = {}
      BY <2>1 DEF CallHas
    <3>3. Given(load.into) \cap Resident = {} /\ Targets(load.into) \cap (free \cup EntrySlots) = {}
      BY DEF Owners
    <3>4. QED
      BY <1>t, <1>o, <1>i, <2>1, <3>1, <3>2, <3>3, OwnersInstalled
  <2>4. QED
    BY <2>2, <2>3
<1>3. CASE TakeBatch \/ TakeBuffer
  <2>1. UNCHANGED load
    BY <1>3, Takes
  <2>2. ASSUME NEW V \in SUBSET Victims(call.want), entry' = Evicted(V), UNCHANGED free,
               OneToOne(call'.got),
               \A p \in call'.got : p \in call.got \/ \E v \in V : p[2] = entry[v].slot
        PROVE  Owners'
    <3>1. V \in SUBSET Resident
      BY DEF Victims
    <3>2. QED
      BY <2>1, <2>2, <3>1, OwnersEvicted
  <2>3. CASE UNCHANGED <<entry, free>> /\ call'.got = call.got
    BY <2>1, <2>3, OwnersStay
  <2>4. ASSUME NEW s \in free, free' = free \ {s}, UNCHANGED entry, OneToOne(call'.got),
               \A p \in call'.got : p \in call.got \/ p[2] = s
        PROVE  Owners'
    <3>1. s \notin EntrySlots /\ s \notin Targets(load.into)
      BY DEF Owners
    <3>2. QED
      BY <2>1, <2>4, <3>1, OwnersGiven
  <2>5. ASSUME NEW s \in Unallocated, UNCHANGED <<entry, free>>, OneToOne(call'.got),
               \A p \in call'.got : p \in call.got \/ p[2] = s
        PROVE  Owners'
    <3>1. s \notin EntrySlots /\ s \notin Targets(load.into)
      BY DEF Unallocated, Referred, EntrySlots, Resident
    <3>2. s \notin free
      BY TypeParts DEF Unallocated
    <3>3. QED
      BY <2>1, <2>5, <3>1, <3>2, OwnersGiven
  <2>6. CASE StartWait /\ call'.got = call.got
    <3>1. UNCHANGED <<entry, free>>
      BY <2>6 DEF StartWait
    <3>2. QED
      BY <2>1, <2>6, <3>1, OwnersStay
  <2>7. QED
    BY <1>3, <2>2, <2>3, <2>4, <2>5, <2>6, Takes
<1>4. CASE BeginReads
  <2>1. UNCHANGED <<entry, free>> /\ load'.into = call.got /\ call'.got = {} /\ Served
    BY <1>4, <1>t DEF BeginReads, CallType
  <2>2. Given(call.got) \cap Resident = {}
    BY <2>1, ServedAll
  <2>3. Resident' = Resident /\ EntrySlots' = EntrySlots
    BY <2>1 DEF Resident, EntrySlots
  <2>4. /\ Targets(load.into)' = Targets(call.got) /\ Given(load.into)' = Given(call.got)
        /\ OneToOne(load.into)' /\ OneToOne(call.got)' /\ Targets(call.got)' = {}
    BY <1>o, <2>1 DEF Targets, Given, OneToOne
  <2>5. QED
    BY <2>1, <2>2, <2>3, <2>4 DEF Owners
<1>5. CASE ReadNow
  <2>1. ~load.active /\ Given(call.got) \cap Resident = {}
    BY <1>5, ServedAll DEF ReadNow
  <2>2. load.into = {} /\ load'.into = {}
    BY <1>5, <1>i, <2>1 DEF LoadFits, ReadNow
  <2>3. /\ call'.got = {} /\ UNCHANGED free
        /\ entry' = Installed(call.got) \/ UNCHANGED entry
    BY <1>5, <1>t DEF ReadNow, CallType
  <2>4. CASE entry' = Installed(call.got)
    <3>1. Targets(call.got) \cap (free \cup EntrySlots) = {}
      BY DEF Owners
    <3>2. QED
      BY <1>t, <1>o, <2>1, <2>2, <2>3, <2>4, <3>1, OwnersInstalled
  <2>5. CASE UNCHANGED entry
    BY <2>2, <2>3, <2>5, OwnersStay
  <2>6. QED
    BY <2>3, <2>4, <2>5
<1>6. QED
  BY <1>1, <1>2, <1>3, <1>4, <1>5 DEF LoadGoesOn

LEMMA OwnersStep ==
  ASSUME TypeOK, CallHas, LoadFits, Owners, [Next]_vars
  PROVE  Owners'
<1>t. call \in CallType /\ load \in LoadType
  BY TypeParts
<1>1. CASE Load /\ ~LoadReturns
  BY <1>1, OwnersLoad DEF Load, LoadGoesOn
<1>2. CASE Encode
  <2>1. UNCHANGED <<load, call>>
    BY <1>2 DEF Encode
  <2>2. CASE Overfull
    <3>1. PICK x \in Resident \ main.sel :
            LET V == {x} \ {y \in Resident : Inflight(y)}
            IN entry' = Evicted(V) /\ free' = Recycled(V)
      BY <1>2, <2>2 DEF Encode
    <3> DEFINE V == {x} \ {y \in Resident : Inflight(y)}
    <3>2. /\ entry' = Evicted(V) /\ free' = free \cup ({entry[v].slot : v \in V} \cap Slabs)
          /\ V \in SUBSET Resident
      BY <3>1 DEF Recycled
    <3>3. OneToOne(call'.got) /\ call'.got = call.got
      BY <2>1 DEF Owners
    <3> HIDE DEF V
    <3>4. free \subseteq free' /\ \A s \in free' : s \in free \/ \E v \in V : s = entry[v].slot
      BY <3>2
    <3>5. QED
      BY <2>1, <3>2, <3>3, <3>4, OwnersEvicted
  <2>3. CASE ~Overfull
    <3>1. entry' = Marked(entry, main.sel) /\ UNCHANGED free
      BY <1>2, <2>3 DEF Encode
    <3>2. QED
      BY <2>1, <3>1, EntriesMarked, OwnersStay
  <2>4. QED
    BY <2>2, <2>3
<1>3. CASE ~(Load /\ ~LoadReturns) /\ ~Encode
  <2>1. \/ BeginToken \/ EncodeRouter \/ Flush \/ ServiceTakes \/ FinishService \/ Poll
        \/ PollTimesOut \/ Defer \/ JoinExperts \/ ReadAhead \/ NextLayer \/ EndToken
        \/ TokenEnds \/ LoadReturns \/ GpuRuns \/ ReadPool \/ Finished \/ UNCHANGED vars
    BY <1>3 DEF Next, MainStep, ServiceStep, Load
  <2>2. UNCHANGED free /\ load'.into = load.into
    BY <1>t, <2>1 DEF BeginToken, EncodeRouter, Flush, ServiceTakes, FinishService, Poll,
       PollTimesOut, Defer, JoinExperts, ReadAhead, NextLayer, EndToken, TokenEnds, LoadReturns,
       GpuRuns, ReadPool, ReadLands, Finished, vars, LoadType
  <2>3. call'.got \in {call.got, {}}
    <3>1. \/ UNCHANGED call \/ call' = NoCall
          \/ \E who, why, want : Start(who, why, want)
      BY <2>1 DEF BeginToken, EncodeRouter, Flush, ServiceTakes, FinishService, Poll,
         PollTimesOut, Defer, JoinExperts, ReadAhead, NextLayer, EndToken, TokenEnds, LoadReturns,
         GpuRuns, ReadPool, ReadLands, Finished, vars
    <3>2. NoCall.got = {}
      BY DEF NoCall
    <3>3. QED
      BY <3>1, <3>2, Started
  <2>4. \A x \in Experts : entry'[x].slot = entry[x].slot
    <3>1. UNCHANGED entry \/ \E X : entry' = Marked(entry, X)
      BY <2>1 DEF BeginToken, EncodeRouter, Flush, ServiceTakes, FinishService, Poll,
         PollTimesOut, Defer, JoinExperts, ReadAhead, NextLayer, EndToken, TokenEnds, LoadReturns,
         ReleaseHeld, GpuRuns, ReadPool, ReadLands, Finished, vars
    <3>2. QED
      BY <3>1, EntriesMarked
  <2>5. QED
    BY <2>2, <2>3, <2>4, OwnersStay
<1>4. QED
  BY <1>1, <1>2, <1>3

-----------------------------------------------------------------------------
\* What a command buffer uses stays.

EntriesKept ==
  \A x \in Experts : Inflight(x) => /\ entry'[x].slot = entry[x].slot
                                   /\ entry[x].seq <= entry'[x].seq /\ entry'[x].seq \in Nat

StillMarked(cb) == \A p \in cb.uses : entry'[p[1]].slot = p[2] /\ cb.seq <= entry'[p[1]].seq

\* No step takes the buffer of an expert in flight, or makes its mark older.
LEMMA KeptWhere ==
  ASSUME TypeOK, Epochs, Owners,
         \/ UNCHANGED entry
         \/ \E V : entry' = Evicted(V) /\ \A x \in V : ~Inflight(x)
         \/ InToken /\ \E X : entry' = Marked(entry, X)
         \/ \E P \in SUBSET Pairs : /\ OneToOne(P) /\ Given(P) \cap Resident = {}
                                    /\ entry' = Installed(P)
  PROVE  EntriesKept
<1>s. /\ seq.batch \in Nat /\ \A x \in Experts : entry[x].seq \in Nat
      /\ \A x \in Experts : entry[x].seq <= seq.cb
  BY SeqFacts, SlotFacts DEF Epochs
<1>1. CASE UNCHANGED entry
  BY <1>s, <1>1 DEF EntriesKept
<1>2. ASSUME NEW V, entry' = Evicted(V), \A x \in V : ~Inflight(x) PROVE EntriesKept
  <2>1. \A x \in Experts : Inflight(x) => entry'[x] = entry[x]
    BY <1>2, EntriesEvicted
  <2>2. QED
    BY <1>s, <2>1 DEF EntriesKept
<1>3. ASSUME InToken, NEW X, entry' = Marked(entry, X) PROVE EntriesKept
  <2>1. \A x \in Experts : /\ entry'[x].slot = entry[x].slot
                           /\ entry'[x].seq = IF x \in X THEN seq.batch ELSE entry[x].seq
    BY <1>3, EntriesMarked
  <2>2. seq.batch = seq.cb
    BY <1>3 DEF Epochs
  <2>3. QED
    BY <1>s, <2>1, <2>2 DEF EntriesKept
<1>4. ASSUME NEW P \in SUBSET Pairs, OneToOne(P), Given(P) \cap Resident = {}, entry' = Installed(P)
      PROVE  EntriesKept
  <2>1. \A x \in Experts : x \notin Given(P) => entry'[x] = entry[x]
    BY <1>4, EntriesInstalled
  <2>2. \A x \in Experts : Inflight(x) => x \in Resident
    BY DEF Inflight, Resident
  <2>3. QED
    BY <1>4, <1>s, <2>1, <2>2 DEF EntriesKept
<1>5. QED
  BY <1>1, <1>2, <1>3, <1>4

\* A command buffer that has not run keeps what it uses.
LEMMA MarkStays ==
  ASSUME TypeOK, EntriesKept, NEW cb \in Cb, NEW p \in cb.uses, seq.done < cb.seq,
         entry[p[1]].slot = p[2], cb.seq <= entry[p[1]].seq
  PROVE  entry'[p[1]].slot = p[2] /\ cb.seq <= entry'[p[1]].seq
<1>1. p[1] \in Experts /\ p[2] \in Slots /\ cb.seq \in Nat
  BY DEF Cb, Pairs
<1>2. seq.done \in Nat /\ entry[p[1]].seq \in Nat /\ NoSlot \notin Slots
  BY <1>1, SeqFacts, SlotFacts
<1>3. Inflight(p[1])
  BY <1>1, <1>2 DEF Inflight
<1>4. entry'[p[1]].slot = p[2] /\ entry[p[1]].seq <= entry'[p[1]].seq /\ entry'[p[1]].seq \in Nat
  BY <1>1, <1>3 DEF EntriesKept
<1>5. QED
  BY <1>1, <1>2, <1>4

LEMMA UsesKept ==
  ASSUME TypeOK, Epochs, UsesMarked, EntriesKept
  PROVE  /\ \A i \in DOMAIN gpu.queue : StillMarked(gpu.queue[i])
         /\ StillMarked(gpu.batch)
         /\ \A p \in gpu.held.cb.uses :
              \/ entry'[p[1]].slot = p[2] /\ gpu.held.cb.seq <= entry'[p[1]].seq
              \/ p[1] \in gpu.held.lack /\ (p \in load.into \/ entry[p[1]].slot = p[2])
<1>t. gpu.batch \in Cb /\ gpu.queue \in Seq(Cb) /\ gpu.held.cb \in Cb
  BY TypeParts DEF GpuType, HeldType
<1>1. ASSUME NEW i \in DOMAIN gpu.queue PROVE StillMarked(gpu.queue[i])
  <2>1. gpu.queue[i] \in Cb
    BY <1>t, QueueFacts
  <2>2. seq.done < gpu.queue[i].seq
    BY DEF Epochs
  <2>3. QED
    BY <2>1, <2>2, MarkStays DEF UsesMarked, MarkedFor, StillMarked
<1>2. StillMarked(gpu.batch)
  <2>1. CASE InToken
    <3>1. seq.done < gpu.batch.seq
      BY <2>1 DEF Epochs
    <3>2. QED
      BY <1>t, <3>1, MarkStays DEF UsesMarked, MarkedFor, StillMarked
  <2>2. CASE ~InToken
    BY <2>2 DEF Epochs, NoCb, StillMarked
  <2>3. QED
    BY <2>1, <2>2
<1>3. ASSUME NEW p \in gpu.held.cb.uses
      PROVE  \/ entry'[p[1]].slot = p[2] /\ gpu.held.cb.seq <= entry'[p[1]].seq
             \/ p[1] \in gpu.held.lack /\ (p \in load.into \/ entry[p[1]].slot = p[2])
  <2>1. Deferred
    BY DEF Deferred, NoHeld, NoCb
  <2>2. seq.done < gpu.held.cb.seq
    BY <2>1 DEF Epochs
  <2>3. QED
    BY <1>t, <2>2, MarkStays DEF UsesMarked
<1>4. QED
  BY <1>1, <1>2, <1>3

\* The committed command buffers stay as they are, and so does what the held one waits for.
LEMMA UsesBatch ==
  ASSUME TypeOK, Epochs, UsesMarked, EntriesKept,
         gpu'.queue = gpu.queue, StillMarked(gpu'.batch), gpu'.held = gpu.held,
         Deferred => load'.into = load.into /\ \A x \in Experts : entry'[x].slot = entry[x].slot
  PROVE  UsesMarked'
<1>1. \A i \in DOMAIN gpu'.queue : StillMarked(gpu'.queue[i])
  BY UsesKept
<1>2. ASSUME NEW p \in gpu'.held.cb.uses
      PROVE  \/ entry'[p[1]].slot = p[2] /\ gpu'.held.cb.seq <= entry'[p[1]].seq
             \/ p[1] \in gpu'.held.lack /\ (p \in load'.into \/ entry'[p[1]].slot = p[2])
  <2>1. Deferred
    BY DEF Deferred, NoHeld, NoCb
  <2>2. p[1] \in Experts
    BY TypeParts DEF GpuType, HeldType, Cb, Pairs
  <2>3. QED
    BY <2>1, <2>2, UsesKept
<1>3. QED
  BY <1>1, <1>2 DEF UsesMarked, MarkedFor, StillMarked

LEMMA UsesStay ==
  ASSUME TypeOK, Epochs, UsesMarked, EntriesKept,
         gpu'.queue = gpu.queue, gpu'.batch.uses = gpu.batch.uses, gpu'.batch.seq = gpu.batch.seq,
         gpu'.held = gpu.held,
         Deferred => load'.into = load.into /\ \A x \in Experts : entry'[x].slot = entry[x].slot
  PROVE  UsesMarked'
<1>1. StillMarked(gpu'.batch)
  BY UsesKept DEF StillMarked
<1>2. QED
  BY <1>1, UsesBatch

\* A command buffer that is marked for joins the queue, with none held then.
LEMMA UsesQueued ==
  ASSUME TypeOK, Epochs, UsesMarked, EntriesKept, NEW b \in Cb, StillMarked(b),
         gpu'.queue = Append(gpu.queue, b), StillMarked(gpu'.batch), gpu'.held = NoHeld
  PROVE  UsesMarked'
<1>1. gpu.queue \in Seq(Cb)
  BY TypeParts DEF GpuType
<1>2. \A i \in DOMAIN gpu'.queue : gpu'.queue[i] = b \/ \E j \in DOMAIN gpu.queue : gpu'.queue[i] = gpu.queue[j]
  BY <1>1, QueueFacts
<1>3. \A i \in DOMAIN gpu'.queue : StillMarked(gpu'.queue[i])
  BY <1>2, UsesKept
<1>4. gpu'.held.cb.uses = {}
  BY DEF NoHeld, NoCb
<1>5. QED
  BY <1>3, <1>4 DEF UsesMarked, MarkedFor, StillMarked

\* wait_inflight, and flush_commands with nothing held.
LEMMA UsesFlush ==
  ASSUME TypeOK, Epochs, UsesMarked, FlushBatch, UNCHANGED entry, Owners, ~Deferred
  PROVE  UsesMarked'
<1>1. /\ gpu'.queue = Append(gpu.queue, gpu.batch) /\ gpu'.batch = OpenBatch(seq.cb + 1)
      /\ gpu'.held = NoHeld /\ gpu.batch \in Cb
  BY TypeParts DEF FlushBatch, GpuType, Deferred
<1>2. EntriesKept
  BY KeptWhere
<1>3. StillMarked(gpu.batch)
  BY <1>2, UsesKept
<1>4. StillMarked(gpu'.batch)
  BY <1>1 DEF StillMarked, OpenBatch, NoCb
<1>5. QED
  BY <1>1, <1>2, <1>3, <1>4, UsesQueued

LEMMA UsesLoad ==
  ASSUME TypeOK, CallFits, CallHas, LoadFits, HeldWaits, Epochs, Owners, Careful, UsesMarked,
         LoadGoesOn
  PROVE  UsesMarked'
<1>t. /\ load.into \in SUBSET Pairs /\ call.got \in SUBSET Pairs
      /\ OneToOne(load.into) /\ OneToOne(call.got) /\ Given(load.into) \cap Resident = {}
      /\ gpu.held \in HeldType
  BY TypeParts, CallTypes DEF LoadType, Owners, GpuType
<1>c. call # NoCall
  BY LoadKeepsCall DEF NoCall
<1>1. CASE Deferred
  <2>1. Gather /\ Draining /\ call.pc \in {"join", "plan"} /\ call.want = gpu.held.want
    BY <1>1, <1>c, HeldAlone, LoadKeepsCall DEF HeldWaits
  <2>2. JoinPending \/ PlanLoad
    <3>1. call.pc = "join" => load.active
      BY <1>1, <2>1 DEF HeldWaits
    <3>2. QED
      BY <2>1, <3>1 DEF LoadGoesOn, AlreadyPending, NothingPending, TakeBatch, TakeBuffer,
         EndWait, BeginReads, ReadNow, Served, Draining, Joining
  <2>3. CASE PlanLoad
    <3>1. UNCHANGED <<entry, gpu, load>>
      BY <2>3 DEF PlanLoad
    <3>2. EntriesKept
      BY <3>1, KeptWhere
    <3>3. QED
      BY <3>1, <3>2, UsesStay
  <2>4. CASE JoinPending
    <3>1. ~load.failed
      BY <2>1 DEF LoadFits, Careful
    <3>2. entry' = Installed(load.into) /\ UNCHANGED gpu
      BY <2>4, <3>1 DEF JoinPending
    <3>3. EntriesKept
      BY <1>t, <3>2, KeptWhere
    <3>4. /\ \A i \in DOMAIN gpu'.queue : StillMarked(gpu'.queue[i])
          /\ StillMarked(gpu'.batch)
          /\ \A p \in gpu'.held.cb.uses :
               \/ entry'[p[1]].slot = p[2] /\ gpu'.held.cb.seq <= entry'[p[1]].seq
               \/ p[1] \in gpu'.held.lack /\ (p \in load.into \/ entry[p[1]].slot = p[2])
      BY <3>2, <3>3, UsesKept DEF StillMarked
    <3>5. ASSUME NEW p \in gpu'.held.cb.uses, p \in load.into \/ entry[p[1]].slot = p[2]
          PROVE  entry'[p[1]].slot = p[2]
      <4>1. p[1] \in Experts /\ p[2] \in Slots
        BY <1>t, <3>2 DEF HeldType, Cb, Pairs
      <4>2. CASE p \in load.into
        BY <1>t, <3>2, <4>2, EntriesInstalled
      <4>3. CASE entry[p[1]].slot = p[2]
        <5>1. p[1] \in Resident
          BY <4>1, <4>3, SlotFacts DEF Resident
        <5>2. entry'[p[1]] = entry[p[1]]
          BY <1>t, <3>2, <4>1, <5>1, EntriesInstalled
        <5>3. QED
          BY <4>3, <5>2
      <4>4. QED
        BY <3>5, <4>2, <4>3
    <3>6. QED
      BY <3>4, <3>5 DEF UsesMarked, MarkedFor, StillMarked
  <2>5. QED
    BY <2>2, <2>3, <2>4
<1>2. CASE ~Deferred
  <2>1. CASE TakeBatch \/ TakeBuffer
    <3>1. CASE StartWait
      BY <1>2, <3>1, UsesFlush DEF StartWait
    <3>2. CASE UNCHANGED gpu /\ \E V \in SUBSET Victims(call.want) : entry' = Evicted(V)
      <4>1. EntriesKept
        BY <3>2, KeptWhere DEF Victims
      <4>2. QED
        BY <1>2, <3>2, <4>1, UsesStay
    <3>3. CASE UNCHANGED <<gpu, entry>>
      <4>1. EntriesKept
        BY <3>3, KeptWhere
      <4>2. QED
        BY <1>2, <3>3, <4>1, UsesStay
    <3>4. QED
      BY <2>1, <3>1, <3>2, <3>3, Takes
  <2>2. CASE ~(TakeBatch \/ TakeBuffer)
    <3>1. UNCHANGED gpu
      BY <2>2 DEF LoadGoesOn, AlreadyPending, JoinPending, NothingPending, PlanLoad, EndWait,
         BeginReads, ReadNow
    <3>2. \/ UNCHANGED entry \/ entry' = Installed(load.into)
          \/ entry' = Installed(call.got) /\ Served
      BY <2>2 DEF LoadGoesOn, AlreadyPending, JoinPending, NothingPending, PlanLoad, EndWait,
         BeginReads, ReadNow
    <3>3. Served => Given(call.got) \cap Resident = {}
      BY ServedAll
    <3>4. EntriesKept
      BY <1>t, <3>2, <3>3, KeptWhere
    <3>5. QED
      BY <1>2, <3>1, <3>4, UsesStay
  <2>3. QED
    BY <2>1, <2>2
<1>3. QED
  BY <1>1, <1>2

\* The routed kernel is bound to the experts' buffers, marked with the open batch.
LEMMA MarkedNow ==
  ASSUME TypeOK, Epochs, InToken, NEW X \in SUBSET Resident, entry' = Marked(entry, X)
  PROVE  \A p \in Buffers(X) : entry'[p[1]].slot = p[2] /\ gpu.batch.seq <= entry'[p[1]].seq
<1>1. \A x \in X : entry'[x].slot = entry[x].slot /\ entry'[x].seq = seq.batch
  BY EntriesMarked DEF Resident
<1>2. gpu.batch.seq = seq.batch /\ seq.batch \in Nat
  BY SeqFacts DEF Epochs
<1>3. QED
  BY <1>1, <1>2 DEF Buffers

LEMMA UsesEncode ==
  ASSUME TypeOK, CallHas, Epochs, Owners, UsesMarked, HeldWaits, Encode
  PROVE  UsesMarked'
<1>t. gpu \in GpuType /\ gpu.batch \in Cb
  BY TypeParts DEF GpuType
<1>1. main.pc = "prune" /\ ~Deferred /\ InToken
  BY DEF Encode, HeldWaits, InToken
<1>2. CASE Overfull
  <2>1. UNCHANGED gpu /\ \E x \in Resident \ main.sel :
                             entry' = Evicted({x} \ {y \in Resident : Inflight(y)})
    BY <1>2 DEF Encode
  <2>2. PICK x \in Resident \ main.sel : entry' = Evicted({x} \ {y \in Resident : Inflight(y)})
    BY <2>1
  <2> DEFINE V == {x} \ {y \in Resident : Inflight(y)}
  <2>3. entry' = Evicted(V) /\ \A y \in V : ~Inflight(y)
    BY <2>2
  <2>4. EntriesKept
    BY <2>3, KeptWhere
  <2>5. QED
    BY <1>1, <2>1, <2>4, UsesStay
<1>3. CASE ~Overfull
  <2>1. /\ entry' = Marked(entry, main.sel)
        /\ gpu' = [gpu EXCEPT !.batch.uses = @ \cup Buffers(main.sel)]
    BY <1>3 DEF Encode
  <2>2. /\ gpu'.queue = gpu.queue /\ gpu'.held = gpu.held
        /\ gpu'.batch.seq = gpu.batch.seq
        /\ gpu'.batch.uses = gpu.batch.uses \cup Buffers(main.sel)
    BY <1>t, <2>1 DEF GpuType, Cb
  <2>3. EntriesKept
    BY <1>1, <2>1, KeptWhere
  <2>4. main.sel \in SUBSET Resident
    BY <1>1 DEF CallHas
  <2>5. \A p \in Buffers(main.sel) : entry'[p[1]].slot = p[2] /\ gpu.batch.seq <= entry'[p[1]].seq
    BY <1>1, <2>1, <2>4, MarkedNow
  <2>6. StillMarked(gpu.batch)
    BY <2>3, UsesKept
  <2>7. StillMarked(gpu'.batch)
    BY <2>2, <2>5, <2>6 DEF StillMarked
  <2>8. QED
    BY <1>1, <2>2, <2>3, <2>7, UsesBatch
<1>4. QED
  BY <1>2, <1>3

LEMMA UsesDefer ==
  ASSUME TypeOK, Epochs, Owners, UsesMarked, HeldWaits, Defer
  PROVE  UsesMarked'
<1> DEFINE here == main.sel \cap Resident
           ahead == {p \in load.into : p[1] \in Missing}
           uses == Buffers(here) \cup ahead
           cb == [gpu.batch EXCEPT !.uses = @ \cup uses]
<1>t. gpu \in GpuType /\ gpu.batch \in Cb
  BY TypeParts DEF GpuType
<1>1. main.pc = "moe" /\ ~Deferred /\ InToken /\ entry' = Marked(entry, here) /\ UNCHANGED load
  BY DEF Defer, HeldWaits, InToken
<1>2. EntriesKept
  BY <1>1, KeptWhere
<1>3. \A p \in Buffers(here) : entry'[p[1]].slot = p[2] /\ gpu.batch.seq <= entry'[p[1]].seq
  BY <1>1, MarkedNow
<1>4. /\ StillMarked(gpu.batch) /\ \A i \in DOMAIN gpu.queue : StillMarked(gpu.queue[i])
  BY <1>2, UsesKept
<1>5. cb.seq = gpu.batch.seq /\ cb.uses = gpu.batch.uses \cup uses
  BY <1>t DEF Cb
<1>6. \A p \in gpu.batch.uses \cup Buffers(here) :
        entry'[p[1]].slot = p[2] /\ gpu.batch.seq <= entry'[p[1]].seq
  BY <1>3, <1>4 DEF StillMarked
<1>7. CASE Missing = {}
  <2>1. gpu' = [gpu EXCEPT !.batch = cb]
    BY <1>7 DEF Defer
  <2>2. gpu'.queue = gpu.queue /\ gpu'.held = gpu.held /\ gpu'.batch = cb
    BY <1>t, <2>1 DEF GpuType
  <2>3. cb.uses = gpu.batch.uses \cup Buffers(here)
    BY <1>5, <1>7
  <2>4. StillMarked(gpu'.batch)
    BY <1>5, <1>6, <2>2, <2>3 DEF StillMarked
  <2>5. QED
    BY <1>1, <1>2, <2>2, <2>4, UsesBatch
<1>8. CASE Missing # {}
  <2>1. gpu' = [gpu EXCEPT !.batch = OpenBatch(seq.cb + 1),
                           !.held = [cb |-> cb, want |-> main.sel, lack |-> Missing]]
    BY <1>8 DEF Defer
  <2>2. /\ gpu'.queue = gpu.queue /\ gpu'.batch = OpenBatch(seq.cb + 1)
        /\ gpu'.held = [cb |-> cb, want |-> main.sel, lack |-> Missing]
    BY <1>t, <2>1 DEF GpuType
  <2>3. gpu'.held.cb = cb /\ gpu'.held.lack = Missing
    BY <2>2
  <2>4. StillMarked(gpu'.batch)
    BY <2>2 DEF StillMarked, OpenBatch, NoCb
  <2>5. \A i \in DOMAIN gpu'.queue : StillMarked(gpu'.queue[i])
    BY <1>4, <2>2
  <2> HIDE DEF cb
  <2>6. ASSUME NEW p \in gpu'.held.cb.uses
        PROVE  \/ entry'[p[1]].slot = p[2] /\ gpu'.held.cb.seq <= entry'[p[1]].seq
               \/ p[1] \in gpu'.held.lack /\ (p \in load'.into \/ entry'[p[1]].slot = p[2])
    <3>1. CASE p \in gpu.batch.uses \cup Buffers(here)
      BY <1>5, <1>6, <2>3, <3>1
    <3>2. CASE p \in ahead
      BY <1>1, <2>3, <3>2
    <3>3. QED
      BY <1>5, <2>3, <3>1, <3>2
  <2>7. QED
    BY <2>4, <2>5, <2>6 DEF UsesMarked, MarkedFor, StillMarked
<1>9. QED
  BY <1>7, <1>8

\* The held command buffer is committed: its reads have succeeded, and what it waited for is
\* marked with the open batch.
LEMMA UsesDrained ==
  ASSUME TypeOK, Epochs, Owners, Careful, UsesMarked, HeldWaits, LoadReturns, Draining
  PROVE  UsesMarked'
<1>t. gpu \in GpuType /\ gpu.held.cb \in Cb /\ gpu.batch \in Cb
  BY TypeParts DEF GpuType, HeldType
<1>1. /\ Deferred /\ InToken /\ Gather /\ call.pc = "return" /\ call.want = gpu.held.want
      /\ gpu.held.lack \subseteq gpu.held.want
  BY DEF LoadReturns, HeldWaits, InToken
<1>2. call.ok /\ call.want \subseteq Resident
  BY <1>1 DEF HeldWaits, Careful
<1>3. /\ entry' = Marked(entry, gpu.held.lack)
      /\ gpu' = [gpu EXCEPT !.queue = Append(@, gpu.held.cb), !.held = NoHeld]
  BY <1>2 DEF LoadReturns, ReleaseHeld, Draining
<1>4. gpu'.queue = Append(gpu.queue, gpu.held.cb) /\ gpu'.batch = gpu.batch /\ gpu'.held = NoHeld
  BY <1>t, <1>3 DEF GpuType
<1>5. EntriesKept
  BY <1>1, <1>3, KeptWhere
<1>6. StillMarked(gpu'.batch)
  BY <1>4, <1>5, UsesKept DEF StillMarked
<1>7. gpu.held.cb.seq < seq.batch /\ seq.batch \in Nat /\ gpu.held.cb.seq \in Nat
  BY <1>t, <1>1, SeqFacts DEF Epochs, Cb
<1>8. ASSUME NEW p \in gpu.held.cb.uses
      PROVE  entry'[p[1]].slot = p[2] /\ gpu.held.cb.seq <= entry'[p[1]].seq
  <2>1. CASE entry'[p[1]].slot = p[2] /\ gpu.held.cb.seq <= entry'[p[1]].seq
    BY <2>1
  <2>2. CASE p[1] \in gpu.held.lack /\ (p \in load.into \/ entry[p[1]].slot = p[2])
    <3>1. p[1] \in Resident /\ p[1] \in Experts
      BY <1>1, <1>2, <2>2 DEF Resident
    <3>2. p \notin load.into
      BY <3>1 DEF Owners, Given
    <3>3. entry'[p[1]].slot = p[2] /\ entry'[p[1]].seq = seq.batch
      BY <1>3, <2>2, <3>1, <3>2, EntriesMarked
    <3>4. QED
      BY <1>7, <3>3
  <2>3. QED
    BY <1>5, <2>1, <2>2, UsesKept
<1>9. StillMarked(gpu.held.cb)
  BY <1>8 DEF StillMarked
<1>10. QED
  BY <1>t, <1>4, <1>5, <1>6, <1>9, UsesQueued

LEMMA UsesStep ==
  ASSUME TypeOK, CallFits, CallHas, LoadFits, HeldWaits, Epochs, Owners, Careful, UsesMarked,
         [Next]_vars
  PROVE  UsesMarked'
<1>t. gpu \in GpuType /\ gpu.batch \in Cb /\ gpu.queue \in Seq(Cb) /\ load \in LoadType
  BY TypeParts DEF GpuType
<1>1. CASE Load /\ ~LoadReturns
  BY <1>1, UsesLoad DEF Load, LoadGoesOn
<1>2. CASE LoadReturns /\ Draining
  BY <1>2, UsesDrained
<1>3. CASE Defer
  BY <1>3, UsesDefer
<1>4. CASE Encode
  BY <1>4, UsesEncode
<1>5. CASE (Flush \/ EndToken) /\ ~Deferred
  <2>1. UNCHANGED entry
    BY <1>5 DEF Flush, EndToken
  <2>2. CASE Flush
    BY <1>5, <2>1, <2>2, UsesFlush DEF Flush, Deferred
  <2>3. CASE EndToken
    <3>1. gpu'.queue = Append(gpu.queue, gpu.batch) /\ gpu'.batch = NoCb /\ gpu'.held = NoHeld
      BY <1>5, <1>t, <2>3 DEF EndToken, GpuType, Deferred
    <3>2. EntriesKept
      BY <2>1, KeptWhere
    <3>3. StillMarked(gpu.batch) /\ StillMarked(gpu'.batch)
      BY <3>1, <3>2, UsesKept DEF StillMarked, NoCb
    <3>4. QED
      BY <1>t, <3>1, <3>2, <3>3, UsesQueued
  <2>4. QED
    BY <1>5, <2>2, <2>3
<1>6. CASE BeginToken
  <2>1. UNCHANGED entry /\ main.pc = "idle"
    BY <1>6 DEF BeginToken
  <2>2. EntriesKept /\ ~Deferred
    BY <2>1, KeptWhere DEF HeldWaits
  <2>3. gpu'.queue = gpu.queue /\ gpu'.held = gpu.held /\ gpu'.batch = OpenBatch(seq.cb + 1)
    BY <1>6, <1>t DEF BeginToken, GpuType
  <2>4. StillMarked(gpu'.batch)
    BY <2>3 DEF StillMarked, OpenBatch, NoCb
  <2>5. QED
    BY <2>2, <2>3, <2>4, UsesBatch
<1>7. CASE GpuRuns
  <2>1. /\ gpu.queue # <<>> /\ gpu'.queue = Tail(gpu.queue) /\ gpu'.batch = gpu.batch
        /\ gpu'.held = gpu.held /\ UNCHANGED <<entry, load>>
    BY <1>7, <1>t DEF GpuRuns, GpuType
  <2>2. \A i \in DOMAIN gpu'.queue : \E j \in DOMAIN gpu.queue : gpu'.queue[i] = gpu.queue[j]
    BY <1>t, <2>1, QueueFacts
  <2>3. QED
    BY <2>1, <2>2 DEF UsesMarked, MarkedFor
<1>8. CASE ~(Load /\ ~LoadReturns) /\ ~(LoadReturns /\ Draining) /\ ~Defer /\ ~Encode
           /\ ~((Flush \/ EndToken) /\ ~Deferred) /\ ~BeginToken /\ ~GpuRuns
  <2>1. \/ EncodeRouter \/ ((Flush \/ EndToken) /\ Deferred) \/ ServiceTakes \/ FinishService
        \/ Poll \/ PollTimesOut \/ JoinExperts \/ ReadAhead \/ NextLayer \/ TokenEnds
        \/ (LoadReturns /\ ~Draining) \/ ReadPool \/ Finished \/ UNCHANGED vars
    BY <1>8 DEF Next, MainStep, ServiceStep, Load
  <2>2. /\ gpu'.queue = gpu.queue /\ gpu'.held = gpu.held
        /\ gpu'.batch.uses = gpu.batch.uses /\ gpu'.batch.seq = gpu.batch.seq
    <3>1. UNCHANGED gpu \/ \E r : gpu' = [gpu EXCEPT !.batch = [gpu.batch EXCEPT !.router = r]]
      BY <2>1 DEF EncodeRouter, Flush, EndToken, Deferred, ServiceTakes, FinishService, Poll,
         PollTimesOut, JoinExperts, ReadAhead, NextLayer, TokenEnds, LoadReturns, Draining,
         ReadPool, ReadLands, Finished, vars
    <3>2. QED
      BY <1>t, <3>1 DEF GpuType, Cb
  <2>3. load'.into = load.into
    BY <1>t, <2>1 DEF EncodeRouter, Flush, EndToken, Deferred, ServiceTakes, FinishService, Poll,
       PollTimesOut, JoinExperts, ReadAhead, NextLayer, TokenEnds, LoadReturns, Draining,
       ReadPool, ReadLands, Finished, vars, LoadType
  <2>4. UNCHANGED entry \/ (InToken /\ \E X : entry' = Marked(entry, X))
    BY <2>1 DEF EncodeRouter, Flush, EndToken, Deferred, ServiceTakes, FinishService, Poll,
       PollTimesOut, JoinExperts, ReadAhead, NextLayer, TokenEnds, LoadReturns, Draining,
       ReadPool, ReadLands, Finished, vars, InToken
  <2>5. EntriesKept
    BY <2>4, KeptWhere
  <2>6. \A x \in Experts : entry'[x].slot = entry[x].slot
    BY <2>4, EntriesMarked
  <2>7. QED
    BY <2>2, <2>3, <2>5, <2>6, UsesStay
<1>9. QED
  BY <1>1, <1>2, <1>3, <1>4, <1>5, <1>6, <1>7, <1>8

-----------------------------------------------------------------------------
\* What the buffers hold.

ResidentsHold == \A x \in Resident : content[entry[x].slot] = x
ArrivedHold == \A p \in load.into : load.failed \/ p[1] \in load.reading \/ Holds(p)

\* What is marked is resident, so its buffer holds it.
LEMMA MarkedHold ==
  ASSUME TypeOK, UsesMarked, ResidentsHold
  PROVE  KernelsHold
<1>t. gpu.batch \in Cb /\ gpu.queue \in Seq(Cb) /\ gpu.held.cb \in Cb
  BY TypeParts DEF GpuType, HeldType
<1>1. ASSUME NEW p \in Pairs, entry[p[1]].slot = p[2] PROVE Holds(p)
  <2>1. p[1] \in Resident
    BY <1>1, SlotFacts DEF Pairs, Resident
  <2>2. QED
    BY <1>1, <2>1 DEF ResidentsHold, Holds
<1>2. ASSUME NEW cb \in Committed \cup {gpu.batch}, NEW p \in cb.uses PROVE Holds(p)
  <2>1. cb \in Cb
    <3>1. \A i \in DOMAIN gpu.queue : gpu.queue[i] \in Cb
      BY <1>t, QueueFacts
    <3>2. QED
      BY <1>t, <3>1 DEF Committed
  <2>2. p \in Pairs /\ MarkedFor(cb)
    BY <2>1 DEF Cb, UsesMarked, Committed
  <2>3. QED
    BY <1>1, <2>2 DEF MarkedFor
<1>3. ASSUME NEW p \in gpu.held.cb.uses PROVE Holds(p) \/ p \in load.into
  <2>1. p \in Pairs
    BY <1>t DEF Cb
  <2>2. QED
    BY <1>1, <2>1 DEF UsesMarked
<1>4. QED
  BY <1>2, <1>3 DEF KernelsHold

\* A step that writes into none of the experts' buffers.
LEMMA ResidentsStay ==
  ASSUME TypeOK, ResidentsHold, \A s \in EntrySlots : content'[s] = content[s],
         \/ \A x \in Experts : entry'[x].slot = entry[x].slot
         \/ \E V : entry' = Evicted(V)
  PROVE  ResidentsHold'
<1>1. \A x \in Resident' : x \in Resident /\ entry'[x].slot = entry[x].slot
  BY EntriesEvicted DEF Resident
<1>2. QED
  BY <1>1 DEF ResidentsHold, EntrySlots

\* Experts whose buffers hold them become resident.
LEMMA ResidentsInstalled ==
  ASSUME TypeOK, ResidentsHold, NEW P \in SUBSET Pairs, OneToOne(P), entry' = Installed(P),
         \A s \in EntrySlots : content'[s] = content[s], \A p \in P : content'[p[2]] = p[1]
  PROVE  ResidentsHold'
<1>1. /\ Resident' = Resident \cup Given(P)
      /\ \A p \in P : entry'[p[1]].slot = p[2]
      /\ \A x \in Experts : x \notin Given(P) => entry'[x] = entry[x]
  BY EntriesInstalled
<1>2. ASSUME NEW x \in Resident' PROVE content'[entry'[x].slot] = x
  <2>1. CASE x \in Given(P)
    BY <1>1, <2>1 DEF Given
  <2>2. CASE x \notin Given(P)
    BY <1>1, <2>2 DEF ResidentsHold, EntrySlots, Resident
  <2>3. QED
    BY <2>1, <2>2
<1>3. QED
  BY <1>2 DEF ResidentsHold

LEMMA ReadLandsHolds ==
  ASSUME TypeOK, LoadFits, Owners, ResidentsHold, ArrivedHold, NEW x \in Experts, ReadLands(x)
  PROVE  ResidentsHold' /\ ArrivedHold'
<1>t. load \in LoadType /\ load.into \in SUBSET Pairs /\ OneToOne(load.into)
      /\ content \in [Slots -> Experts \cup {Torn}]
  BY TypeParts DEF Owners, LoadType
<1>1. PICK p \in load.into : p[1] = x
  BY DEF ReadLands, LoadFits, Given
<1>2. p[2] \in Slots /\ BufferOf(x, load.into) = p[2]
  BY <1>t, <1>1, BufferOfPair
<1>3. PICK ok \in BOOLEAN :
        /\ load' = [load EXCEPT !.reading = @ \ {x}, !.failed = @ \/ ~ok]
        /\ content' = IF ok THEN [content EXCEPT ![p[2]] = x] ELSE content
  BY <1>2, Constants DEF ReadLands
<1>4. /\ load'.into = load.into /\ load'.reading = load.reading \ {x}
      /\ load'.failed = (load.failed \/ ~ok)
  BY <1>t, <1>3 DEF LoadType
<1>5. UNCHANGED entry
  BY DEF ReadLands
<1>6. p[2] \notin EntrySlots
  BY <1>1 DEF Owners, Targets
<1>7. \A s \in Slots : s # p[2] => content'[s] = content[s]
  BY <1>t, <1>3
<1>8. EntrySlots \subseteq Slots
  BY SlotFacts DEF EntrySlots
<1>9. ResidentsHold'
  BY <1>5, <1>6, <1>7, <1>8, ResidentsStay
<1>10. ASSUME NEW q \in load.into, ok, ~load.failed, q[1] \notin load'.reading
       PROVE  content'[q[2]] = q[1]
  <2>1. CASE q = p
    BY <1>t, <1>1, <1>2, <1>3, <1>10, <2>1
  <2>2. CASE q # p
    <3>1. q[1] # x /\ q[2] # p[2] /\ q[2] \in Slots
      BY <1>t, <1>1, <2>2 DEF OneToOne, Pairs
    <3>2. Holds(q)
      BY <1>4, <1>10, <3>1 DEF ArrivedHold
    <3>3. QED
      BY <1>7, <3>1, <3>2 DEF Holds
  <2>3. QED
    BY <2>1, <2>2
<1>11. ArrivedHold'
  BY <1>4, <1>10 DEF ArrivedHold, Holds
<1>12. QED
  BY <1>9, <1>11

LEMMA HoldsLoad ==
  ASSUME TypeOK, CallHas, LoadFits, Owners, ResidentsHold, ArrivedHold, LoadGoesOn
  PROVE  ResidentsHold' /\ ArrivedHold'
<1>t. /\ load.into \in SUBSET Pairs /\ call.got \in SUBSET Pairs
      /\ OneToOne(load.into) /\ OneToOne(call.got) /\ load \in LoadType
      /\ EntrySlots \subseteq Slots
  BY TypeParts, CallTypes, SlotFacts DEF LoadType, Owners, EntrySlots
<1>i. NoLoad.into = {}
  BY DEF NoLoad
<1>g. Targets(call.got) \cap EntrySlots = {} /\ Targets(call.got) \subseteq Slots
  BY <1>t DEF Owners, Targets, Pairs
<1>1. CASE AlreadyPending \/ NothingPending \/ PlanLoad \/ EndWait
  <2>1. UNCHANGED <<entry, load, content>>
    BY <1>1 DEF AlreadyPending, NothingPending, PlanLoad, EndWait
  <2>2. QED
    BY <2>1, ResidentsStay DEF ArrivedHold, Holds
<1>2. CASE TakeBatch \/ TakeBuffer
  <2>1. UNCHANGED <<load, content>> /\ (UNCHANGED entry \/ \E V : entry' = Evicted(V))
    BY <1>2, Takes DEF StartWait
  <2>2. QED
    BY <2>1, ResidentsStay DEF ArrivedHold, Holds
<1>3. CASE JoinPending
  <2>1. load' = NoLoad /\ UNCHANGED content /\ load.reading = {}
        /\ (UNCHANGED entry \/ (entry' = Installed(load.into) /\ ~load.failed))
    BY <1>3 DEF JoinPending
  <2>2. CASE UNCHANGED entry
    BY <1>i, <2>1, <2>2, ResidentsStay DEF ArrivedHold
  <2>3. CASE entry' = Installed(load.into) /\ ~load.failed
    <3>1. \A p \in load.into : content'[p[2]] = p[1]
      BY <2>1, <2>3 DEF ArrivedHold, Holds
    <3>2. QED
      BY <1>t, <1>i, <2>1, <2>3, <3>1, ResidentsInstalled DEF ArrivedHold
  <2>4. QED
    BY <2>1, <2>2, <2>3
<1>4. CASE BeginReads
  <2>1. /\ UNCHANGED entry /\ Served /\ content' = Tear(Targets(call.got))
        /\ load'.into = call.got /\ load'.reading = call.lack
    BY <1>4 DEF BeginReads
  <2>2. \A s \in EntrySlots : content'[s] = content[s]
    BY <1>t, <1>g, <2>1 DEF Tear
  <2>3. \A p \in load'.into : p[1] \in load'.reading
    BY <2>1, ServedAll DEF Given
  <2>4. QED
    BY <2>1, <2>2, <2>3, ResidentsStay DEF ArrivedHold
<1>5. CASE ReadNow
  <2>1. load.into = {} /\ UNCHANGED load
    BY <1>5, <1>i, ServedAll DEF ReadNow, LoadFits
  <2>2. \/ UNCHANGED entry /\ content' = Tear(Targets(call.got))
        \/ entry' = Installed(call.got) /\ content' = Fill(call.got)
    BY <1>5 DEF ReadNow
  <2>3. \A s \in EntrySlots : content'[s] = content[s]
    BY <1>t, <1>g, <2>2 DEF Tear, Fill
  <2>4. CASE UNCHANGED entry
    BY <2>1, <2>3, <2>4, ResidentsStay DEF ArrivedHold
  <2>5. CASE entry' = Installed(call.got) /\ content' = Fill(call.got)
    <3>1. ASSUME NEW p \in call.got PROVE content'[p[2]] = p[1]
      <4>1. p[2] \in Slots /\ p[2] \in Targets(call.got)
        BY <1>t DEF Targets, Pairs
      <4>2. (CHOOSE q \in call.got : q[2] = p[2]) = p
        BY <1>t DEF OneToOne
      <4>3. QED
        BY <2>5, <4>1, <4>2 DEF Fill
    <3>2. QED
      BY <1>t, <2>1, <2>3, <2>5, <3>1, ResidentsInstalled DEF ArrivedHold
  <2>6. QED
    BY <2>2, <2>4, <2>5
<1>6. QED
  BY <1>1, <1>2, <1>3, <1>4, <1>5 DEF LoadGoesOn

LEMMA WeightsStep ==
  ASSUME TypeOK, TypeOK', CallHas, LoadFits, Owners, UsesMarked, UsesMarked', WeightsHold,
         [Next]_vars
  PROVE  WeightsHold'
<1>h. ResidentsHold /\ ArrivedHold /\ KernelsHold /\ ~run.wrong /\ TokenIsExact
  BY DEF WeightsHold, ResidentsHold, ArrivedHold
<1>r. run \in [setting : Settings, wrong : BOOLEAN, last : {"none", "failed", "wrong", "right"}]
  BY TypeParts
<1>1. ResidentsHold' /\ ArrivedHold'
  <2>1. CASE Load /\ ~LoadReturns
    BY <1>h, <2>1, HoldsLoad DEF Load, LoadGoesOn
  <2>2. CASE ReadPool
    BY <1>h, <2>2, ReadLandsHolds DEF ReadPool
  <2>3. CASE ~(Load /\ ~LoadReturns) /\ ~ReadPool
    <3>1. UNCHANGED <<content, load>>
      BY <2>3 DEF Next, MainStep, ServiceStep, Load, BeginToken, EncodeRouter, Flush, EndToken,
         ServiceTakes, FinishService, Poll, PollTimesOut, Defer, JoinExperts, Encode, ReadAhead,
         NextLayer, TokenEnds, LoadReturns, GpuRuns, Finished, vars
    <3>2. UNCHANGED entry \/ (\E V : entry' = Evicted(V)) \/ (\E X : entry' = Marked(entry, X))
      BY <2>3 DEF Next, MainStep, ServiceStep, Load, BeginToken, EncodeRouter, Flush, EndToken,
         ServiceTakes, FinishService, Poll, PollTimesOut, Defer, JoinExperts, Encode, ReadAhead,
         NextLayer, TokenEnds, LoadReturns, ReleaseHeld, GpuRuns, Finished, vars
    <3>3. (\A x \in Experts : entry'[x].slot = entry[x].slot) \/ \E V : entry' = Evicted(V)
      BY <3>2, EntriesMarked
    <3>4. QED
      BY <1>h, <3>1, <3>3, ResidentsStay DEF ArrivedHold, Holds
  <2>4. QED
    BY <2>1, <2>2, <2>3
<1>2. KernelsHold'
  <2>1. (TypeOK /\ UsesMarked /\ ResidentsHold => KernelsHold)'
    BY MarkedHold, PTL
  <2>2. QED
    BY <1>1, <2>1
<1>3. ~run'.wrong /\ TokenIsExact'
  <2>1. CASE GpuRuns
    <3>1. Head(gpu.queue) \in Committed
      BY <2>1, QueueFacts, TypeParts DEF GpuRuns, Committed, GpuType
    <3>2. \A p \in Head(gpu.queue).uses : content[p[2]] = p[1]
      BY <1>h, <3>1 DEF KernelsHold, Holds
    <3>3. run'.wrong = FALSE /\ run'.last = run.last
      BY <1>h, <1>r, <2>1, <3>2 DEF GpuRuns
    <3>4. QED
      BY <1>h, <3>3 DEF TokenIsExact
  <2>2. CASE BeginToken \/ TokenEnds
    <3>1. run'.wrong = FALSE /\ run'.last \in {run.last, "failed", "right"}
      BY <1>h, <1>r, <2>2 DEF BeginToken, TokenEnds
    <3>2. QED
      BY <1>h, <3>1 DEF TokenIsExact
  <2>3. CASE ~GpuRuns /\ ~BeginToken /\ ~TokenEnds
    <3>1. UNCHANGED run
      BY <2>3 DEF Next, MainStep, ServiceStep, Load, EncodeRouter, Flush, EndToken,
         ServiceTakes, FinishService, Poll, PollTimesOut, Defer, JoinExperts, Encode, ReadAhead,
         NextLayer, LoadReturns, Finished, vars, AlreadyPending, JoinPending, NothingPending,
         PlanLoad, TakeBatch, TakeBuffer, EndWait, BeginReads, ReadNow, ReadPool, ReadLands
    <3>2. QED
      BY <1>h, <3>1 DEF TokenIsExact
  <2>4. QED
    BY <2>1, <2>2, <2>3
<1>4. QED
  BY <1>1, <1>2, <1>3 DEF WeightsHold, ResidentsHold, ArrivedHold

-----------------------------------------------------------------------------
\* What the invariant implies.

LEMMA InvEpochSound == TypeOK /\ Epochs => EpochSound
<1> SUFFICES ASSUME TypeOK, Epochs,
                    NEW cb \in Committed \cup ({gpu.batch, gpu.held.cb} \ {NoCb})
             PROVE  cb.seq > seq.done
  BY DEF EpochSound
<1>t. /\ gpu.batch \in Cb /\ gpu.held.cb \in Cb /\ seq.done \in Nat
      /\ \A i \in DOMAIN gpu.queue : gpu.queue[i].seq \in Nat
  <2>1. gpu.queue \in Seq(Cb)
    BY TypeParts DEF GpuType
  <2>2. \A i \in DOMAIN gpu.queue : gpu.queue[i] \in Cb
    BY <2>1, QueueFacts
  <2>3. QED
    BY <2>2, TypeParts, SeqFacts DEF GpuType, HeldType, Cb
<1>1. CASE cb \in Committed
  BY <1>t, <1>1 DEF Committed, Epochs
<1>2. CASE cb = gpu.batch /\ cb # NoCb
  <2>1. InToken
    BY <1>2 DEF Epochs
  <2>2. QED
    BY <1>t, <1>2, <2>1 DEF Epochs, Cb
<1>3. CASE cb = gpu.held.cb /\ cb # NoCb
  <2>1. Deferred
    BY <1>3 DEF Deferred, NoHeld
  <2>2. QED
    BY <1>t, <1>3, <2>1 DEF Epochs, Cb
<1>4. QED
  BY <1>1, <1>2, <1>3

Ascends(s) == \A i, j \in DOMAIN s : i < j => s[i].seq < s[j].seq

LEMMA AscendsNext ==
  ASSUME NEW s \in Seq(Cb), Ascends(s), NEW b \in Cb, \A i \in DOMAIN s : s[i].seq < b.seq
  PROVE  /\ s \o <<b>> \in Seq(Cb) /\ Ascends(s \o <<b>>)
         /\ \A i \in DOMAIN (s \o <<b>>) :
              (s \o <<b>>)[i] = b \/ \E j \in DOMAIN s : (s \o <<b>>)[i] = s[j]
<1> DEFINE t == s \o <<b>>
<1>1. /\ t \in Seq(Cb) /\ DOMAIN t = 1..(Len(s) + 1) /\ DOMAIN s = 1..Len(s) /\ Len(s) \in Nat
      /\ t[Len(s) + 1] = b /\ \A i \in DOMAIN s : t[i] = s[i]
  OBVIOUS
<1> HIDE DEF t
<1>2. ASSUME NEW i \in DOMAIN t, NEW j \in DOMAIN t, i < j PROVE t[i].seq < t[j].seq
  <2>1. i \in DOMAIN s
    BY <1>1, <1>2
  <2>2. CASE j \in DOMAIN s
    BY <1>1, <1>2, <2>1, <2>2 DEF Ascends
  <2>3. CASE j = Len(s) + 1
    BY <1>1, <2>1, <2>3
  <2>4. QED
    BY <1>1, <2>2, <2>3
<1>3. Ascends(t)
  BY <1>2 DEF Ascends
<1>4. \A i \in DOMAIN t : t[i] = b \/ \E j \in DOMAIN s : t[i] = s[j]
  <2>1. \A i \in DOMAIN t : i = Len(s) + 1 \/ i \in DOMAIN s
    BY <1>1
  <2>2. QED
    BY <1>1, <2>1
<1>5. QED
  BY <1>1, <1>3, <1>4 DEF t

LEMMA InvCommitOrder == TypeOK /\ HeldWaits /\ Epochs => CommitOrder
<1> SUFFICES ASSUME TypeOK, HeldWaits, Epochs PROVE CommitOrder
  OBVIOUS
<1>t. gpu.queue \in Seq(Cb) /\ gpu.batch \in Cb /\ gpu.held.cb \in Cb
  BY TypeParts DEF GpuType, HeldType
<1> DEFINE first == gpu.queue \o (IF gpu.held # NoHeld THEN <<gpu.held.cb>> ELSE <<>>)
           line == first \o (IF gpu.batch # NoCb THEN <<gpu.batch>> ELSE <<>>)
<1>1. Ascends(gpu.queue)
  BY DEF Epochs, Ascends
<1>2. /\ first \in Seq(Cb) /\ Ascends(first)
      /\ InToken => \A i \in DOMAIN first : first[i].seq < seq.batch
  <2>1. CASE Deferred
    <3>1. InToken /\ gpu.held.cb.seq < seq.batch
          /\ \A i \in DOMAIN gpu.queue : gpu.queue[i].seq < gpu.held.cb.seq /\ gpu.queue[i].seq < seq.batch
      BY <2>1 DEF HeldWaits, InToken, Epochs
    <3>2. first = gpu.queue \o <<gpu.held.cb>>
      BY <2>1 DEF Deferred
    <3>3. /\ first \in Seq(Cb) /\ Ascends(first)
          /\ \A i \in DOMAIN first :
               first[i] = gpu.held.cb \/ \E j \in DOMAIN gpu.queue : first[i] = gpu.queue[j]
      <4> DEFINE with == gpu.queue \o <<gpu.held.cb>>
      <4>1. /\ with \in Seq(Cb) /\ Ascends(with)
            /\ \A i \in DOMAIN with :
                 with[i] = gpu.held.cb \/ \E j \in DOMAIN gpu.queue : with[i] = gpu.queue[j]
        BY <1>t, <1>1, <3>1, AscendsNext
      <4>2. QED
        BY <3>2, <4>1
    <3>4. QED
      BY <3>1, <3>3
  <2>2. CASE ~Deferred
    <3>1. first = gpu.queue
      BY <1>t, <2>2 DEF Deferred
    <3>2. InToken => \A i \in DOMAIN gpu.queue : gpu.queue[i].seq < seq.batch
      BY DEF Epochs
    <3>3. QED
      BY <1>t, <1>1, <3>1, <3>2
  <2>3. QED
    BY <2>1, <2>2
<1> HIDE DEF first
<1>3. Ascends(line)
  <2>1. CASE gpu.batch = NoCb
    BY <1>2, <2>1
  <2>2. CASE gpu.batch # NoCb
    <3>1. InToken /\ gpu.batch.seq = seq.batch
      BY <2>2 DEF Epochs
    <3>2. line = first \o <<gpu.batch>>
      BY <2>2
    <3>3. QED
      BY <1>t, <1>2, <3>1, <3>2, AscendsNext
  <2>3. QED
    BY <2>1, <2>2
<1>4. QED
  BY <1>3 DEF Ascends, CommitOrder, first

LEMMA InvOneOwner == TypeOK /\ Owners => OneOwner
<1> SUFFICES ASSUME TypeOK, Owners PROVE OneOwner
  OBVIOUS
<1>t. load.into \in SUBSET Pairs
  BY TypeParts DEF LoadType
<1>1. Cardinality(EntrySlots) = Entries
  <2> DEFINE f == [x \in Resident |-> entry[x].slot]
  <2>1. f \in Bijection(Resident, EntrySlots)
    BY DEF Bijection, Injection, Surjection, IsInjective, Owners, EntrySlots
  <2>2. QED
    BY <2>1, EntriesNat, FS_Bijection DEF ExistsBijection, Entries
<1>2. Cardinality(Targets(load.into)) = Cardinality(load.into)
  <2> DEFINE f == [p \in load.into |-> p[2]]
  <2>1. f \in Bijection(load.into, Targets(load.into))
    BY DEF Bijection, Injection, Surjection, IsInjective, Owners, Targets, OneToOne
  <2>2. IsFiniteSet(load.into)
    <3>1. IsFiniteSet(Slots)
      BY FS_Interval, Constants DEF Slots
    <3>2. IsFiniteSet(Pairs)
      BY <3>1, EntriesNat, FS_Product DEF Pairs
    <3>3. QED
      BY <1>t, <3>2, FS_Subset
  <2>3. QED
    BY <2>1, <2>2, FS_Bijection DEF ExistsBijection
<1>3. \A p \in load.into : p[1] \notin Resident
  BY DEF Owners, Given
<1>4. \A i, j \in 1..4 : i # j =>
        LET parts == <<free, EntrySlots, Targets(load.into), Targets(call.got)>>
        IN  parts[i] \cap parts[j] = {}
  <2> DEFINE parts == <<free, EntrySlots, Targets(load.into), Targets(call.got)>>
  <2>1. parts[1] \cap parts[2] = {} /\ parts[1] \cap parts[3] = {} /\ parts[1] \cap parts[4] = {}
    BY DEF Owners
  <2>2. parts[2] \cap parts[3] = {} /\ parts[2] \cap parts[4] = {} /\ parts[3] \cap parts[4] = {}
    BY DEF Owners
  <2> HIDE DEF parts
  <2>3. ASSUME NEW i \in 1..4, NEW j \in 1..4, i # j PROVE parts[i] \cap parts[j] = {}
    <3>1. i \in {1, 2, 3, 4} /\ j \in {1, 2, 3, 4}
      OBVIOUS
    <3>2. QED
      BY <2>1, <2>2, <2>3, <3>1
  <2>4. QED
    BY <2>3 DEF parts
<1>5. QED
  BY <1>1, <1>2, <1>3, <1>4 DEF OneOwner

-----------------------------------------------------------------------------
\* The invariant.

LEMMA InvInit == Init => CacheInv /\ ContentInv
<1> SUFFICES ASSUME Init PROVE CacheInv /\ ContentInv
  OBVIOUS
<1>1. TypeOK
  BY TypeInit
<1>2. /\ gpu.queue = <<>> /\ gpu.batch = NoCb /\ gpu.held = NoHeld /\ call = NoCall
      /\ load = NoLoad /\ main.pc = "idle" /\ svc = "idle" /\ run.wrong = FALSE /\ run.last = "none"
      /\ seq = [cb |-> 0, batch |-> 0, owned |-> 0, pending |-> 0, done |-> 0]
      /\ entry = [x \in Experts |-> NoEntry] /\ free = Slabs
  BY DEF Init
<1>3. Resident = {} /\ \A x \in Experts : entry[x].seq = 0
  BY <1>2 DEF Resident, NoEntry
<1>4. CallFits
  BY <1>2 DEF CallFits, NoCall
<1>5. CallHas
  BY <1>2 DEF CallHas, NoCall
<1>6. LoadFits
  BY <1>2 DEF LoadFits, NoLoad
<1>7. ~Deferred /\ ~Draining /\ ~InToken
  BY <1>2 DEF Deferred, Draining, NoCall, InToken
<1>8. HeldWaits
  BY <1>7 DEF HeldWaits
<1>9. Epochs
  BY <1>2, <1>3, <1>7 DEF Epochs
<1>10. load.into = {} /\ call.got = {} /\ gpu.batch.uses = {} /\ gpu.held.cb.uses = {}
  BY <1>2 DEF NoLoad, NoCall, NoCb, NoHeld
<1>11. Owners
  BY <1>3, <1>10 DEF Owners, OneToOne, EntrySlots, Targets, Given
<1>12. UsesMarked
  BY <1>2, <1>10 DEF UsesMarked, MarkedFor
<1>13. WeightsHold
  BY <1>2, <1>3, <1>10 DEF WeightsHold, KernelsHold, Committed, TokenIsExact
<1>14. QED
  BY <1>1, <1>4, <1>5, <1>6, <1>8, <1>9, <1>11, <1>12, <1>13 DEF CacheInv, ContentInv

LEMMA InvStep == CacheInv /\ [Next]_vars => CacheInv'
<1> SUFFICES ASSUME CacheInv, [Next]_vars PROVE CacheInv'
  OBVIOUS
<1>1. TypeOK /\ CallFits /\ CallHas /\ LoadFits /\ HeldWaits /\ Epochs /\ Owners
  BY DEF CacheInv
<1>2. TypeOK'
  BY <1>1, TypeStep
<1>3. CallFits'
  BY <1>1, CallFitsStep
<1>4. CallHas'
  BY <1>1, CallHasStep
<1>5. LoadFits'
  BY <1>1, LoadFitsStep
<1>6. HeldWaits'
  BY <1>1, HeldWaitsStep
<1>7. Epochs'
  BY <1>1, EpochsStep
<1>8. Owners'
  BY <1>1, OwnersStep
<1>9. QED
  BY <1>2, <1>3, <1>4, <1>5, <1>6, <1>7, <1>8 DEF CacheInv

LEMMA ContentStep == CacheInv /\ ContentInv /\ [Next]_vars => ContentInv'
<1> SUFFICES ASSUME CacheInv, ContentInv, [Next]_vars, Careful' PROVE UsesMarked' /\ WeightsHold'
  BY DEF ContentInv
<1>1. TypeOK /\ CallFits /\ CallHas /\ LoadFits /\ HeldWaits /\ Epochs /\ Owners
  BY DEF CacheInv
<1>2. Careful /\ UsesMarked /\ WeightsHold
  BY <1>1, KeepsSetting DEF Careful, ContentInv
<1>3. UsesMarked'
  BY <1>1, <1>2, UsesStep
<1>4. TypeOK'
  BY <1>1, TypeStep
<1>5. WeightsHold'
  BY <1>1, <1>2, <1>3, <1>4, WeightsStep
<1>6. QED
  BY <1>3, <1>5

\* The cache of any size, under any schedule, stays within the invariant: types, the place of
\* the load in progress, epochs and the owners of buffers.
THEOREM CacheInvariant == Spec => []CacheInv
  BY InvInit, InvStep, PTL DEF Spec

\* Every variable has its type (the fields of ds4_metal.m's streaming cache).
THEOREM CacheTypeCorrect == Spec => []TypeOK
<1>1. CacheInv => TypeOK
  BY DEF CacheInv
<1>2. QED
  BY <1>1, CacheInvariant, PTL

\* Whatever the schedule, and also where reads fail: no command buffer that has not run is
\* taken for done, they are committed in the order they were opened, and no buffer has two
\* owners (note_pending_completed 1704, flush_commands 9759, prepare_load_buffers 17373).
THEOREM EpochsAndOwnersCorrect == Spec => [](EpochSound /\ CommitOrder /\ OneOwner)
<1>1. CacheInv => EpochSound /\ CommitOrder /\ OneOwner
  BY InvEpochSound, InvCommitOrder, InvOneOwner DEF CacheInv
<1>2. QED
  BY <1>1, CacheInvariant, PTL

LEMMA CacheAndContent == Spec => [](CacheInv /\ ContentInv)
<1>1. Init => CacheInv /\ ContentInv
  BY InvInit
<1>2. CacheInv /\ ContentInv /\ [Next]_vars => CacheInv' /\ ContentInv'
  BY InvStep, ContentStep
<1>3. QED
  BY <1>1, <1>2, PTL DEF Spec

\* No buffer is written under a command buffer that reads it, unless a kernel may be encoded
\* ahead of reads that fail (ar_gather_phase2 commits it whether or not they did).
THEOREM BuffersHoldCorrect == Spec => [](Careful => BuffersHold)
<1>1. CacheInv /\ ContentInv => (Careful => BuffersHold)
  BY InvEpochSound, InvCommitOrder, InvOneOwner
     DEF CacheInv, ContentInv, WeightsHold, BuffersHold
<1>2. QED
  BY <1>1, CacheAndContent, PTL

\* Under the same condition, no token reported good was computed from other weights than
\* those of the experts the router chose, also where reads fail.
THEOREM TokenIsExactCorrect == Spec => [](Careful => TokenIsExact)
<1>1. CacheInv /\ ContentInv => (Careful => TokenIsExact)
  BY DEF ContentInv, WeightsHold
<1>2. QED
  BY <1>1, CacheAndContent, PTL

=============================================================================
