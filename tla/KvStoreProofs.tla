---------------------------- MODULE KvStoreProofs ----------------------------
(***************************************************************************)
(* Theorems about KvStore, for every set of histories, engines and         *)
(* prompts, every budget and any number of crashes.                        *)
(***************************************************************************)
EXTENDS KvStore, SequenceTheorems, TLAPS

\* The texts of histories are sequences.
LEMMA TextFacts ==
  /\ \A t \in Text : Len(t) \in Nat
  /\ History \subseteq Text
  /\ \A h \in History : Visible(h) \in Text /\ h \in Text /\ h # <<>> /\ Len(h) \in Nat
  BY KvAssumption DEF Text

\* What Min and Max say of two numbers.
LEMMA MinMaxOfTwo ==
  ASSUME NEW x \in Nat, NEW y \in Nat
  PROVE  /\ Min({x, y}) \in {x, y} /\ Min({x, y}) <= x /\ Min({x, y}) <= y
         /\ Max({x, y}) \in {x, y} /\ Max({x, y}) >= x /\ Max({x, y}) >= y
<1>1. \E m \in {x, y} : \A z \in {x, y} : m <= z
  OBVIOUS
<1>2. \E m \in {x, y} : \A z \in {x, y} : m >= z
  OBVIOUS
<1>3. Min({x, y}) \in {x, y} /\ \A z \in {x, y} : Min({x, y}) <= z
  BY <1>1 DEF Min
<1>4. Max({x, y}) \in {x, y} /\ \A z \in {x, y} : Max({x, y}) >= z
  BY <1>2 DEF Max
<1>5. QED
  BY <1>3, <1>4

\* Base is a number for every key and every history.
LEMMA BaseIsNat ==
  ASSUME NEW k \in Text, NEW h \in History
  PROVE  Base(k, h) \in Nat /\ Base(k, h) - 1 \in Nat
  BY TextFacts DEF Base

\* The part of the invariant that speaks of files.
FilesOK ==
  /\ DOMAIN files \subseteq Text
  /\ \A k \in DOMAIN files : files[k] \in File /\ Says(k, files[k].toks, files[k].ctx)

\* What a candidate of a lookup is.
LEMMA CandidateFacts ==
  ASSUME KvInv, NEW p \in Prompt, NEW k \in Longest(Candidates(p))
  PROVE  /\ k \in Listed /\ k \in Text /\ files[k].toks \in History
         /\ files[k].model \in Model /\ files[k].model = engine.model
         /\ k \in {files[k].toks, Visible(files[k].toks)}
         /\ Len(files[k].toks) <= engine.ctx
         /\ IsPrefix(k, p)
<1>1. k \in Candidates(p)
  BY DEF Longest
<1>2. k \in Listed /\ Usable(k) /\ IsPrefix(k, p)
  BY <1>1 DEF Candidates
<1>3. k \in DOMAIN files /\ files[k] \in File /\ Says(k, files[k].toks, files[k].ctx)
  BY <1>2 DEF Listed, KvInv, TypeOK
<1>4. files[k].ctx \in Nat /\ engine.ctx \in Nat /\ Len(files[k].toks) \in Nat
  BY <1>3, KvAssumption, TextFacts DEF File, Ctx, KvInv, TypeOK
<1>5. QED
  BY <1>2, <1>3, <1>4 DEF Usable, Says, File, KvInv, TypeOK

(***************************************************************************)
(* The inductive invariant.                                                *)
(***************************************************************************)

LEMMA InitInv == Init => KvInv
<1> SUFFICES ASSUME Init PROVE KvInv
  OBVIOUS
<1>1. DOMAIN files = {}
  BY DEF Init
<1>2. /\ hit = None /\ session = None /\ pc = "open" /\ engine \in Engine
      /\ litter = 0 /\ trailer = 0 /\ stuck = FALSE /\ crashes = 0
  BY DEF Init
<1>3. TypeOK
  <2>1. DOMAIN files \subseteq Text /\ \A k \in DOMAIN files : files[k] \in File
    BY <1>1
  <2>2. job \in [key : Text \cup {<<>>}, toks : History \cup {<<>>},
                 est : Nat, left : SUBSET Text, tmp : Nat]
    BY DEF Init, NoJob
  <2>3. trailer \in 0 .. MaxTrailer /\ crashes \in 0 .. MaxCrashes /\ litter \in Nat
    BY <1>2, KvAssumption
  <2>4. hit \in {None} \cup [model : Model, key : Text, toks : History, prompt : Prompt]
    BY <1>2
  <2>5. QED
    BY <1>2, <2>1, <2>2, <2>3, <2>4 DEF TypeOK
<1>4. HitAnswersPrompt
  BY <1>2 DEF HitAnswersPrompt
<1>5. QED
  BY <1>1, <1>2, <1>3, <1>4 DEF KvInv

\* Every step keeps the files well formed: each says the text of its name.
LEMMA FilesStep ==
  ASSUME KvInv, [Next]_vars
  PROVE  FilesOK'
<1> FilesOK
  BY DEF KvInv, TypeOK, FilesOK
<1>1. CASE UNCHANGED files
  BY <1>1 DEF FilesOK, Says
<1>2. ASSUME NEW k, files' = Without(k)
      PROVE  FilesOK'
  BY <1>2 DEF FilesOK, Without, Says
<1>3. CASE \E k \in DOMAIN files : WriteBack(k)
  BY <1>3 DEF WriteBack, FilesOK, File, Says
<1>4. CASE CheckExisting
  BY <1>1, <1>2, <1>4 DEF CheckExisting
<1>5. CASE \E k \in Text : Evict(k)
  BY <1>1, <1>2, <1>5 DEF Evict
<1>6. CASE Rename
  <2>1. job.toks \in History /\ job.key \in Text /\ Says(job.key, job.toks, engine.ctx)
    BY <1>6, KvAssumption, TextFacts DEF Rename, KvInv, TypeOK, Says
  <2>2. engine.model \in Model /\ engine.ctx \in Ctx /\ job.tmp \in Nat
    BY DEF KvInv, TypeOK, Model, Ctx
  <2> DEFINE f == [model |-> engine.model, ctx |-> engine.ctx,
                   toks |-> job.toks, size |-> job.tmp, durable |-> 0]
  <2>3. f \in File /\ Says(job.key, f.toks, f.ctx)
    BY <2>1, <2>2 DEF File
  <2>4. files' = With(job.key, f)
    BY <1>6 DEF Rename
  <2> HIDE DEF f
  <2>5. QED
    BY <2>1, <2>3, <2>4 DEF With, FilesOK, Says
<1>7. CASE CutTrailer
  <2> DEFINE base == Base(job.key, files[job.key].toks)
             g == [files EXCEPT ![job.key].size = base]
  <2>1. CASE job.key \notin DOMAIN files
    <3>1. DOMAIN files' = DOMAIN files /\ \A k \in DOMAIN files : files'[k] = files[k]
      BY <1>7, <2>1 DEF CutTrailer
    <3>2. QED
      BY <3>1 DEF FilesOK, Says
  <2>2. CASE job.key \in DOMAIN files
    <3>1. base \in Nat
      BY <2>2, BaseIsNat DEF FilesOK, File
    <3>2. files[job.key].durable \in Nat
      BY <2>2 DEF FilesOK, File
    <3>3. Min({files[job.key].durable, base}) \in Nat
      BY <3>1, <3>2, MinMaxOfTwo
    <3>4. files' = [files EXCEPT ![job.key] =
                      [files[job.key] EXCEPT !.size = base,
                           !.durable = Min({files[job.key].durable, base})]]
      BY <1>7, <2>2, Zenon DEF CutTrailer
    <3> DEFINE x == [files[job.key] EXCEPT !.size = base,
                                           !.durable = Min({files[job.key].durable, base})]
    <3>5. files[job.key] \in File
      BY <2>2 DEF FilesOK
    <3> HIDE DEF base
    <3>6. x \in File /\ x.toks = files[job.key].toks /\ x.ctx = files[job.key].ctx
      BY <3>1, <3>3, <3>5 DEF File
    <3>7. files' = [files EXCEPT ![job.key] = x]
      BY <3>4
    <3> HIDE DEF x
    <3>8. /\ DOMAIN files' = DOMAIN files
          /\ \A k \in DOMAIN files : files'[k] = IF k = job.key THEN x ELSE files[k]
      BY <3>7
    <3>9. QED
      BY <2>2, <3>6, <3>8 DEF FilesOK, Says
  <2>3. QED
    BY <2>1, <2>2
<1>8. CASE AppendTrailer
  <2>1. CASE UNCHANGED files
    BY <1>1, <2>1
  <2>2. CASE files' = [files EXCEPT ![job.key].size = @ + trailer]
    <3>1. CASE job.key \notin DOMAIN files
      <4>1. DOMAIN files' = DOMAIN files /\ \A k \in DOMAIN files : files'[k] = files[k]
        BY <2>2, <3>1
      <4>2. QED
        BY <4>1 DEF FilesOK, Says
    <3>2. CASE job.key \in DOMAIN files
      <4>1. files[job.key].size + trailer \in Nat
        BY <3>2 DEF FilesOK, File, KvInv, TypeOK
      <4>2. QED
        BY <2>2, <3>2, <4>1 DEF FilesOK, File, Says
    <3>3. QED
      BY <3>1, <3>2
  <2>3. QED
    BY <1>8, <2>1, <2>2 DEF AppendTrailer
<1>9. CASE Discard
  BY <1>2, <1>9 DEF Discard
<1>10. ASSUME NEW e \in Engine, PowerLoss(e)
       PROVE  FilesOK'
  <2>1. PICK lost \in SUBSET {k \in DOMAIN files : files[k].durable = 0},
             cut \in SUBSET DOMAIN files :
          files' = [k \in DOMAIN files \ lost |->
                      IF k \in cut THEN CutFile(k)
                      ELSE [files[k] EXCEPT !.durable = files[k].size]]
    BY <1>10 DEF PowerLoss
  <2>2. ASSUME NEW k \in DOMAIN files
        PROVE  CutFile(k) \in File /\ CutFile(k).toks = files[k].toks
               /\ CutFile(k).ctx = files[k].ctx
    <3>1. files[k].size \in Nat /\ files[k].durable \in Nat /\ files[k] \in File
      BY DEF FilesOK, File
    <3>2. Base(k, files[k].toks) - 1 \in Nat
      BY BaseIsNat DEF FilesOK, File
    <3> DEFINE size == Max({files[k].durable, Base(k, files[k].toks) - 1})
    <3>3. size \in Nat
      BY <3>1, <3>2, MinMaxOfTwo
    <3> HIDE DEF size
    <3>4. Min({files[k].size, size}) \in Nat
      BY <3>1, <3>3, MinMaxOfTwo
    <3>5. CutFile(k) = [files[k] EXCEPT !.size = Min({files[k].size, size}),
                                        !.durable = Min({files[k].size, size})]
      BY <3>1 DEF CutFile, size, File
    <3>6. QED
      BY <3>1, <3>4, <3>5 DEF File
  <2>3. ASSUME NEW k \in DOMAIN files
        PROVE  LET f == [files[k] EXCEPT !.durable = files[k].size]
               IN  f \in File /\ f.toks = files[k].toks /\ f.ctx = files[k].ctx
    BY DEF FilesOK, File
  <2>4. QED
    BY <2>1, <2>2, <2>3 DEF FilesOK, Says
<1>11. QED
  BY <1>1, <1>3, <1>4, <1>5, <1>6, <1>7, <1>8, <1>9, <1>10
     DEF Next, StoreStep, vars, Evolve, TrailerChanges, Store, Stage, StoreSkipped,
         EvictEnds, WriteTmp, StoreFails, LoadHit, LoadMiss, LoadFails, Kill, Restart

\* What a step may do to the store's job, and that it stays well formed.
JobOK ==
  /\ pc \in {"open", "idle", "check", "stage", "evict", "write", "rename", "trailer", "append"}
  /\ job \in [key : Text \cup {<<>>}, toks : History \cup {<<>>},
              est : Nat, left : SUBSET Text, tmp : Nat]
  /\ pc \notin {"open", "idle"} =>
       job.toks # <<>> /\ Says(job.key, job.toks, engine.ctx)
  /\ pc = "rename" => job.tmp >= Base(job.key, job.toks)

LEMMA JobStep ==
  ASSUME KvInv, [Next]_vars
  PROVE  JobOK'
<1>1. JobOK /\ FilesOK /\ FilesOK' /\ trailer \in Nat
  BY FilesStep, KvAssumption DEF KvInv, TypeOK, JobOK, FilesOK
<1>2. Listed \subseteq Text /\ Listed' \subseteq Text
  BY <1>1 DEF FilesOK, Listed
<1>3. ASSUME UNCHANGED <<pc, job, engine>>
      PROVE  JobOK'
  BY <1>1, <1>3 DEF JobOK, Says, Base
<1>4. ASSUME Idle
      PROVE  JobOK'
  <2>1. pc' = "idle" /\ job' = [key |-> <<>>, toks |-> <<>>, est |-> 0, left |-> {}, tmp |-> 0]
    BY <1>4 DEF Idle, NoJob
  <2>2. QED
    BY <2>1 DEF JobOK
<1>5. ASSUME NEW h \in History, NEW key \in {h, Visible(h)}, Store(h, key)
      PROVE  JobOK'
  <2>1. job' = [key |-> key, toks |-> h, est |-> 0, left |-> {}, tmp |-> 0]
    BY <1>5 DEF Store, NoJob
  <2>2. pc' = "check" /\ engine' = engine /\ Len(h) <= engine.ctx
    BY <1>5 DEF Store, KvInv
  <2>3. QED
    BY <2>1, <2>2, TextFacts DEF JobOK, Says
<1>6. CASE CheckExisting
  BY <1>1, <1>6 DEF CheckExisting, JobOK, Says
<1>7. CASE Stage
  <2>1. job.toks \in History /\ job.key \in Text
    BY <1>1, <1>7, TextFacts DEF Stage, JobOK, Says
  <2> DEFINE est == Base(job.key, job.toks) + trailer
  <2>2. est \in Nat
    BY <1>1, <2>1, BaseIsNat
  <2>3. job' = [job EXCEPT !.est = est, !.left = Listed] /\ pc' = "evict" /\ engine' = engine
    BY <1>7 DEF Stage
  <2> HIDE DEF est
  <2>4. QED
    BY <1>1, <1>2, <1>7, <2>2, <2>3 DEF JobOK, Says, Stage
<1>8. CASE \E k \in Text : Evict(k)
  BY <1>1, <1>8 DEF Evict, JobOK, Says, Base
<1>9. CASE EvictEnds
  BY <1>1, <1>9 DEF EvictEnds, JobOK, Says
<1>10. CASE WriteTmp
  <2> DEFINE base == Base(job.key, job.toks)
  <2>1. base \in Nat /\ base - 1 \in Nat
    BY <1>1, <1>10, TextFacts, BaseIsNat DEF WriteTmp, JobOK, Says
  <2>2. ASSUME NEW n \in Nat, job' = [job EXCEPT !.tmp = n], UNCHANGED engine,
               pc' = "write" \/ (pc' = "rename" /\ n >= base)
        PROVE  JobOK'
    <3>1. job'.key = job.key /\ job'.toks = job.toks /\ job'.tmp = n
      BY <1>1, <2>2 DEF JobOK
    <3>2. Base(job.key, job.toks)' = base
      BY <3>1 DEF Base
    <3> HIDE DEF base
    <3>3. QED
      BY <1>1, <1>10, <2>2, <3>1, <3>2 DEF WriteTmp, JobOK, Says
  <2>3. CASE \E n \in {1, base - 1} : job' = [job EXCEPT !.tmp = n] /\ UNCHANGED pc
    BY <1>10, <2>1, <2>2, <2>3 DEF WriteTmp
  <2>4. CASE job' = [job EXCEPT !.tmp = base + trailer] /\ pc' = "rename"
    BY <1>1, <1>10, <2>1, <2>2, <2>4 DEF WriteTmp
  <2>5. QED
    BY <1>10, <2>3, <2>4 DEF WriteTmp
<1>11. CASE CutTrailer
  BY <1>1, <1>11 DEF CutTrailer, JobOK, Says
<1>12. ASSUME pc' = "open", job' = [NoJob EXCEPT !.left = Listed']
       PROVE  JobOK'
  <2>1. job' = [key |-> <<>>, toks |-> <<>>, est |-> 0, left |-> Listed', tmp |-> 0]
    BY <1>12 DEF NoJob
  <2>2. job' \in [key : Text \cup {<<>>}, toks : History \cup {<<>>},
                  est : Nat, left : SUBSET Text, tmp : Nat]
    BY <1>2, <2>1
  <2>3. QED
    BY <1>12, <2>2 DEF JobOK
<1>13. ASSUME NEW e \in Engine, Kill(e)
       PROVE  JobOK'
  BY <1>12, <1>13 DEF Kill, Restart, Listed, Whole, Base
<1>14. QED
  BY <1>3, <1>4, <1>5, <1>6, <1>7, <1>8, <1>9, <1>10, <1>11, <1>12, <1>13
     DEF Next, StoreStep, vars, Evolve, TrailerChanges, WriteBack, StoreSkipped,
         StoreFails, Rename, AppendTrailer, LoadHit, LoadMiss, LoadFails, Discard,
         PowerLoss, Restart

\* Every step keeps the other types.
LEMMA RestStep ==
  ASSUME KvInv, [Next]_vars
  PROVE  /\ litter' \in Nat /\ engine' \in Engine /\ session' \in History \cup {None}
         /\ trailer' \in 0 .. MaxTrailer /\ stuck' \in BOOLEAN
         /\ crashes' \in 0 .. MaxCrashes
<1> litter \in Nat /\ engine \in Engine /\ session \in History \cup {None}
    /\ trailer \in 0 .. MaxTrailer /\ stuck \in BOOLEAN /\ crashes \in 0 .. MaxCrashes
  BY DEF KvInv, TypeOK
<1>1. \/ UNCHANGED <<litter, engine, crashes>>
      \/ \E e \in Engine : Restart(e)
  <2>1. ASSUME NEW e \in Engine, Kill(e) \/ PowerLoss(e)
        PROVE  Restart(e)
    BY <2>1 DEF Kill, PowerLoss
  <2>2. CASE StoreStep
    BY <2>2 DEF StoreStep, CheckExisting, Stage, StoreSkipped, Evict, EvictEnds, WriteTmp,
                StoreFails, Rename, CutTrailer, AppendTrailer
  <2>3. QED
    BY <2>1, <2>2 DEF Next, vars, Evolve, TrailerChanges, WriteBack, Store, LoadHit, LoadMiss,
                      LoadFails, Discard
<1>2. trailer' \in 0 .. MaxTrailer
  <2>1. ASSUME NEW e \in Engine, Kill(e) \/ PowerLoss(e)
        PROVE  trailer' = 0
    BY <2>1, Zenon DEF Kill, PowerLoss, Restart
  <2>2. ASSUME StoreStep PROVE UNCHANGED trailer
    BY <2>2 DEF StoreStep, CheckExisting, Stage, StoreSkipped, Evict, EvictEnds, WriteTmp,
                StoreFails, Rename, CutTrailer, AppendTrailer
  <2>3. CASE TrailerChanges
    BY <2>3 DEF TrailerChanges
  <2>4. UNCHANGED trailer \/ trailer' = 0 \/ TrailerChanges
    <3>1. CASE \E p \in Prompt : LoadHit(p) \/ LoadMiss(p) \/ LoadFails(p)
      BY <3>1 DEF LoadHit, LoadMiss, LoadFails
    <3>2. CASE \E h \in History : Store(h, h) \/ Store(h, Visible(h))
      BY <3>2 DEF Store
    <3>3. QED
      BY <2>1, <2>2, <3>1, <3>2 DEF Next, vars, Evolve, WriteBack, Discard
  <2>5. 0 \in 0 .. MaxTrailer
    BY KvAssumption
  <2>6. QED
    BY <2>3, <2>4, <2>5
<1>3. stuck' \in BOOLEAN
  <2>1. ASSUME NEW e \in Engine, Kill(e) \/ PowerLoss(e)
        PROVE  UNCHANGED stuck
    BY <2>1, Zenon DEF Kill, PowerLoss, Restart
  <2>2. CASE StoreStep
    BY <2>2 DEF StoreStep, CheckExisting, Stage, StoreSkipped, Evict, EvictEnds, WriteTmp,
                StoreFails, Rename, CutTrailer, AppendTrailer
  <2>3. QED
    BY <2>1, <2>2
       DEF Next, vars, Evolve, TrailerChanges, WriteBack, Store, LoadHit, LoadMiss,
           LoadFails, Discard
<1>4. job.tmp \in Nat
  BY DEF KvInv, TypeOK
<1>5. litter' \in Nat /\ engine' \in Engine /\ crashes' \in 0 .. MaxCrashes
  BY <1>1, <1>4, KvAssumption DEF Restart
<1>6. ASSUME NEW p \in Prompt, LoadHit(p)
      PROVE  session' \in History
  BY <1>6, CandidateFacts DEF LoadHit, KvInv, TypeOK
<1>7. session' \in History \cup {None}
  BY <1>6
     DEF Next, StoreStep, vars, Evolve, TrailerChanges, WriteBack, Store, CheckExisting,
         Stage, StoreSkipped, Evict, EvictEnds, WriteTmp, StoreFails, Rename, CutTrailer,
         AppendTrailer, LoadMiss, LoadFails, Discard, Kill, PowerLoss, Restart
<1>8. QED
  BY <1>2, <1>3, <1>5, <1>7

\* The session fits the context of the engine, and so does a hit.
LEMMA HitStep ==
  ASSUME KvInv, [Next]_vars
  PROVE  /\ hit' \in {None} \cup [model : Model, key : Text, toks : History, prompt : Prompt]
         /\ HitAnswersPrompt'
         /\ session' # None => Len(session') <= engine'.ctx
<1>1. ASSUME UNCHANGED <<hit, session, engine>>
      PROVE  /\ hit' \in {None} \cup [model : Model, key : Text, toks : History, prompt : Prompt]
             /\ HitAnswersPrompt'
             /\ session' # None => Len(session') <= engine'.ctx
  BY <1>1 DEF KvInv, TypeOK, HitAnswersPrompt
<1>2. ASSUME hit' = None, session' = None
      PROVE  HitAnswersPrompt'
  BY <1>2 DEF HitAnswersPrompt
<1>3. CASE Evolve
  BY <1>3 DEF Evolve, HitAnswersPrompt
<1>4. ASSUME NEW p \in Prompt, LoadMiss(p)
      PROVE  HitAnswersPrompt' /\ hit' = None /\ UNCHANGED <<session, engine>>
  BY <1>4 DEF LoadMiss, HitAnswersPrompt
<1>5. ASSUME NEW p \in Prompt, LoadHit(p)
      PROVE  /\ hit' \in [model : Model, key : Text, toks : History, prompt : Prompt]
             /\ HitAnswersPrompt'
             /\ Len(session') <= engine'.ctx
  <2>1. PICK k \in Longest(Candidates(p)) :
          /\ session' = files[k].toks
          /\ hit' = [model |-> files[k].model, key |-> k, toks |-> files[k].toks, prompt |-> p]
    BY <1>5 DEF LoadHit
  <2>2. engine' = engine
    BY <1>5 DEF LoadHit
  <2>3. QED
    BY <2>1, <2>2, CandidateFacts DEF HitAnswersPrompt
<1>6. QED
  BY <1>1, <1>2, <1>3, <1>4, <1>5
     DEF Next, StoreStep, vars, Evolve, TrailerChanges, WriteBack, Store, CheckExisting,
         Stage, StoreSkipped, Evict, EvictEnds, WriteTmp, StoreFails, Rename, CutTrailer,
         AppendTrailer, LoadFails, Discard, Kill, PowerLoss, Restart, KvInv

(***************************************************************************)
(* Rewriting a tool map in place.                                          *)
(***************************************************************************)

\* Only two steps touch a file while a tool map is being rewritten.
LEMMA RewriteStep ==
  ASSUME KvInv, [Next]_vars, pc \in {"trailer", "append"}, pc' # "open",
         NEW k \in Listed
  PROVE  k \in Listed'
<1>1. /\ k \in DOMAIN files /\ files[k] \in File /\ k \in Text
      /\ Base(k, files[k].toks) \in Nat
      /\ files[k].size >= Base(k, files[k].toks)
  BY BaseIsNat DEF Listed, Whole, KvInv, TypeOK, File
<1>2. ASSUME k \in DOMAIN files', files'[k].toks = files[k].toks,
             files'[k].size >= Base(k, files[k].toks)
      PROVE  k \in Listed'
  BY <1>2 DEF Listed, Whole, Base
<1>3. CASE UNCHANGED files
  BY <1>1, <1>2, <1>3
<1>4. CASE \E l \in DOMAIN files : WriteBack(l)
  BY <1>1, <1>2, <1>4 DEF WriteBack, File
<1>5. CASE CutTrailer
  <2>1. CASE k # job.key
    BY <1>1, <1>2, <1>5, <2>1 DEF CutTrailer
  <2>2. CASE k = job.key
    <3> DEFINE base == Base(job.key, files[job.key].toks)
    <3>1. files' = [files EXCEPT ![k] =
                     [files[k] EXCEPT !.size = base,
                          !.durable = Min({files[k].durable, base})]]
      BY <1>1, <1>5, <2>2, Zenon DEF CutTrailer
    <3>2. base = Base(k, files[k].toks)
      BY <2>2
    <3> HIDE DEF base
    <3>3. k \in DOMAIN files' /\ files'[k].toks = files[k].toks /\ files'[k].size = base
      BY <1>1, <3>1 DEF File
    <3>4. QED
      BY <1>1, <1>2, <3>2, <3>3
  <2>3. QED
    BY <2>1, <2>2
<1>6. CASE AppendTrailer
  <2>1. CASE files' = [files EXCEPT ![job.key].size = @ + trailer]
    <3>1. trailer \in Nat /\ files[k].size \in Nat
      BY <1>1, KvAssumption DEF KvInv, TypeOK, File
    <3>2. QED
      BY <1>1, <1>2, <2>1, <3>1 DEF File
  <2>2. QED
    BY <1>3, <1>6, <2>1 DEF AppendTrailer
<1>7. CASE StoreStep
  BY <1>3, <1>5, <1>6, <1>7
     DEF StoreStep, CheckExisting, Stage, StoreSkipped, Evict, EvictEnds, WriteTmp,
         StoreFails, Rename
<1>8. CASE \E p \in Prompt : LoadHit(p) \/ LoadMiss(p) \/ LoadFails(p)
  BY <1>8 DEF LoadHit, LoadMiss, LoadFails
<1>9. CASE \E h \in History : Store(h, h) \/ Store(h, Visible(h))
  BY <1>9 DEF Store
<1>10. CASE \E e \in Engine : Kill(e) \/ PowerLoss(e)
  BY <1>10 DEF Kill, PowerLoss, Restart
<1>11. QED
  BY <1>3, <1>4, <1>7, <1>8, <1>9, <1>10 DEF Next, vars, Evolve, TrailerChanges, Discard

\* A tool map is rewritten in a file whose payload is whole.
LEMMA TrailerStep ==
  ASSUME KvInv, [Next]_vars, pc' \in {"trailer", "append"}
  PROVE  job'.key \in Listed'
<1>1. CASE pc \in {"trailer", "append"}
  <2>1. job.key \in Listed'
    BY <1>1, RewriteStep DEF KvInv
  <2>2. CASE StoreStep
    <3>1. UNCHANGED job
      BY <1>1, <2>2 DEF StoreStep, CheckExisting, Stage, StoreSkipped, Evict, EvictEnds,
                        WriteTmp, StoreFails, Rename, CutTrailer, AppendTrailer, Idle
    <3>2. QED
      BY <2>1, <3>1
  <2>3. CASE ~StoreStep
    <3>1. ASSUME NEW p \in Prompt, LoadHit(p) \/ LoadMiss(p) \/ LoadFails(p)
          PROVE  UNCHANGED job
      BY <3>1 DEF LoadHit, LoadMiss, LoadFails
    <3>2. ASSUME NEW h \in History, Store(h, h) \/ Store(h, Visible(h))
          PROVE  FALSE
      BY <1>1, <3>2 DEF Store
    <3>3. ASSUME NEW e \in Engine, Kill(e) \/ PowerLoss(e)
          PROVE  FALSE
      BY <3>3 DEF Kill, PowerLoss, Restart
    <3>4. UNCHANGED job
      BY <2>3, <3>1, <3>2, <3>3
         DEF Next, vars, Evolve, TrailerChanges, Discard, WriteBack
    <3>5. QED
      BY <2>1, <3>4
  <2>4. QED
    BY <2>2, <2>3
<1>2. CASE pc \notin {"trailer", "append"}
  <2>1. CheckExisting
    BY <1>2
       DEF Next, StoreStep, vars, Evolve, TrailerChanges, WriteBack, Store,
           Stage, StoreSkipped, Evict, EvictEnds, WriteTmp, StoreFails, Rename, CutTrailer,
           AppendTrailer, LoadHit, LoadMiss, LoadFails, Discard, Kill, PowerLoss, Restart,
           Idle
  <2>2. UNCHANGED <<files, job>> /\ job.key \in Listed
    BY <2>1 DEF CheckExisting
  <2>3. QED
    BY <2>2 DEF Listed, Whole, Base
<1>3. QED
  BY <1>1, <1>2

LEMMA InvStep == KvInv /\ [Next]_vars => KvInv'
  BY FilesStep, JobStep, RestStep, HitStep, TrailerStep DEF KvInv, TypeOK, FilesOK, JobOK

\* The invariant holds in every reachable state.
THEOREM KvInvariant == Spec => []KvInv
  BY InitInv, InvStep, PTL DEF Spec

\* Every variable keeps its type.
THEOREM KvTypeCorrect == Spec => []TypeOK
  BY KvInvariant, PTL DEF KvInv

\* A hit is an exact prefix of the prompt that asked, whatever was stored, evicted,
\* rewritten or cut short by a crash before (ds4_kvstore_try_load_text).
THEOREM HitAnswersPromptCorrect == Spec => []HitAnswersPrompt
  BY KvInvariant, PTL DEF KvInv

\* A store that finds its file leaves the payload readable at every step of the
\* rewriting (kv_cache_rewrite_trailer).
THEOREM RewriteKeepsPayloadCorrect == Spec => RewriteKeepsPayload
<1>1. KvInv /\ [Next]_vars =>
        [\A k \in Listed :
           pc \in {"trailer", "append"} /\ pc' # "open" => k \in Listed']_vars
  BY RewriteStep
<1>2. QED
  BY <1>1, KvInvariant, PTL DEF Spec, RewriteKeepsPayload

(***************************************************************************)
(* The refinement of PrefixCache.                                          *)
(***************************************************************************)

\* What the table says of a listed file, and nothing else.
LEMMA TableFacts ==
  /\ \A m \in DOMAIN Table : m = <<files[m[2]].model, m[2]>> /\ m[2] \in Listed
  /\ \A k \in Listed : /\ <<files[k].model, k>> \in DOMAIN Table
                       /\ Table[<<files[k].model, k>>] = files[k].toks
  /\ \A m \in DOMAIN Table : Table[m] = files[m[2]].toks
  BY DEF Table

\* Files that keep their model and tokens, and files that go, are forgotten at most.
LEMMA KeepsTable ==
  ASSUME \A k \in Listed' : /\ k \in Listed
                            /\ files'[k].model = files[k].model
                            /\ files'[k].toks = files[k].toks
  PROVE  Cache!Keeps(Table')
  BY DEF Cache!Keeps, Table

\* A new file of a key replaces the key's entry, or adds one.
LEMMA RenameStores ==
  ASSUME KvInv, Rename
  PROVE  Cache!Store
<1> DEFINE new == [model |-> engine.model, ctx |-> engine.ctx,
                   toks |-> job.toks, size |-> job.tmp, durable |-> 0]
           m == <<engine.model, job.key>>
<1>1. /\ job.toks \in History /\ job.key \in {job.toks, Visible(job.toks)}
      /\ job.key \in Text /\ job.tmp >= Base(job.key, job.toks)
      /\ engine.model \in Model
  BY TextFacts DEF Rename, KvInv, TypeOK, Says, Model
<1>2. files' = With(job.key, new) /\ hit' = hit
  BY DEF Rename
<1>3. /\ DOMAIN files' = DOMAIN files \cup {job.key} /\ files'[job.key] = new
      /\ \A k \in DOMAIN files \ {job.key} : files'[k] = files[k]
  BY <1>2 DEF With
<1>4. new.model = engine.model /\ new.toks = job.toks /\ new.size = job.tmp
  OBVIOUS
<1> HIDE DEF new
<1>5. job.key \in Listed'
  BY <1>1, <1>3, <1>4 DEF Listed, Whole, Base
<1>6. \A k \in Listed' \ {job.key} : k \in Listed /\ files'[k] = files[k]
  BY <1>3 DEF Listed, Whole, Base
<1>7. m \in DOMAIN Table' /\ Table'[m] = job.toks
  BY <1>3, <1>4, <1>5 DEF Table
<1>8. \A l \in DOMAIN Table' \ {m} : l \in DOMAIN Table /\ Table'[l] = Table[l]
  <2> TAKE l \in DOMAIN Table' \ {m}
  <2>1. PICK k \in Listed' : l = <<files'[k].model, k>>
    BY DEF Table
  <2>2. k # job.key
    BY <1>3, <1>4, <2>1
  <2>3. k \in Listed /\ files'[k] = files[k]
    BY <1>6, <2>1, <2>2
  <2>4. QED
    BY <2>1, <2>3 DEF Table
<1>9. <<job.key, job.toks>> \in {p \in Text \X History : p[1] \in {p[2], Visible(p[2])}}
  BY <1>1
<1>10. UNCHANGED IF hit = None THEN None
                 ELSE [model |-> hit.model, text |-> hit.key, history |-> hit.toks]
  BY <1>2
<1>11. QED
  BY <1>1, <1>7, <1>8, <1>9, <1>10 DEF Cache!Store

\* The cache's answer, as PrefixCache sees it.
Answer == IF hit = None THEN None
          ELSE [model |-> hit.model, text |-> hit.key, history |-> hit.toks]

\* A lookup that hits answers with an entry of the table.
LEMMA LoadHits ==
  ASSUME KvInv, NEW p \in Prompt, LoadHit(p)
  PROVE  Cache!Hit
<1>1. PICK k \in Longest(Candidates(p)) :
        hit' = [model |-> files[k].model, key |-> k, toks |-> files[k].toks, prompt |-> p]
  BY DEF LoadHit
<1>2. /\ k \in Listed /\ k \in Text /\ files[k].toks \in History /\ files[k].model \in Model
  BY CandidateFacts
<1>3. hit' \in [model : Model, key : Text, toks : History, prompt : Prompt]
  BY <1>1, <1>2
<1>4. hit' # None
  BY <1>3, KvAssumption
<1> DEFINE m == <<files[k].model, k>>
<1>5. m \in DOMAIN Table /\ Table[m] = files[k].toks
  BY <1>2, TableFacts
<1>6. Answer' = [model |-> m[1], text |-> m[2], history |-> Table[m]]
  BY <1>1, <1>4, <1>5 DEF Answer
<1>7. UNCHANGED Table
  BY DEF LoadHit, Table, Listed, Whole, Base
<1>8. QED
  BY <1>5, <1>6, <1>7 DEF Cache!Hit, Answer

\* Steps that only take files away, or change what the table does not show.
LEMMA FilesForgotten ==
  ASSUME KvInv, [Next]_vars, ~Rename
  PROVE  \A k \in Listed' : /\ k \in Listed
                            /\ files'[k].model = files[k].model
                            /\ files'[k].toks = files[k].toks
<1> DEFINE Kept == \A k \in Listed' : /\ k \in Listed
                                      /\ files'[k].model = files[k].model
                                      /\ files'[k].toks = files[k].toks
<1>0. \A k \in DOMAIN files : files[k] \in File /\ Base(k, files[k].toks) \in Nat
  BY BaseIsNat DEF KvInv, TypeOK, File
<1>1. ASSUME UNCHANGED files
      PROVE  Kept
  BY <1>1 DEF Listed, Whole, Base
<1>2. ASSUME NEW k, files' = Without(k)
      PROVE  Kept
  BY <1>2 DEF Without, Listed, Whole, Base
<1>3. CASE \E k \in DOMAIN files : WriteBack(k)
  <2>1. PICK l \in DOMAIN files :
          files' = [files EXCEPT ![l] = [files[l] EXCEPT !.durable = files[l].size]]
    BY <1>3 DEF WriteBack
  <2>2. \A k \in DOMAIN files' :
          /\ k \in DOMAIN files /\ files'[k].size = files[k].size
          /\ files'[k].toks = files[k].toks /\ files'[k].model = files[k].model
    BY <1>0, <2>1 DEF File
  <2>3. QED
    BY <2>2 DEF Listed, Whole, Base
<1>4. CASE CutTrailer \/ AppendTrailer
  <2>1. job.key \in Listed /\ job.key \in DOMAIN files
    BY <1>4 DEF CutTrailer, AppendTrailer, KvInv, Listed
  <2>2. /\ DOMAIN files' = DOMAIN files
        /\ \A k \in DOMAIN files : k # job.key => files'[k] = files[k]
    BY <1>4, <2>1 DEF CutTrailer, AppendTrailer
  <2>3. files'[job.key].toks = files[job.key].toks
        /\ files'[job.key].model = files[job.key].model
    BY <1>0, <1>4, <2>1 DEF CutTrailer, AppendTrailer, File
  <2>4. QED
    BY <2>1, <2>2, <2>3 DEF Listed, Whole, Base
<1>5. CASE StoreStep
  BY <1>1, <1>2, <1>4, <1>5
     DEF StoreStep, CheckExisting, Stage, StoreSkipped, Evict, EvictEnds, WriteTmp, StoreFails
<1>6. CASE Discard
  BY <1>2, <1>6 DEF Discard
<1>7. ASSUME NEW e \in Engine, PowerLoss(e)
      PROVE  Kept
  <2>1. PICK lost \in SUBSET {k \in DOMAIN files : files[k].durable = 0},
             cut \in SUBSET DOMAIN files :
          files' = [k \in DOMAIN files \ lost |->
                      IF k \in cut THEN CutFile(k)
                      ELSE [files[k] EXCEPT !.durable = files[k].size]]
    BY <1>7 DEF PowerLoss
  <2>2. ASSUME NEW k \in DOMAIN files
        PROVE  /\ CutFile(k).toks = files[k].toks /\ CutFile(k).model = files[k].model
               /\ CutFile(k).size <= files[k].size /\ CutFile(k).size \in Nat
    <3>1. files[k].size \in Nat /\ files[k].durable \in Nat /\ files[k] \in File
          /\ Base(k, files[k].toks) - 1 \in Nat
      BY <1>0, BaseIsNat DEF File, KvInv, TypeOK
    <3> DEFINE size == Max({files[k].durable, Base(k, files[k].toks) - 1})
    <3>2. size \in Nat
      BY <3>1, MinMaxOfTwo
    <3> HIDE DEF size
    <3>3. Min({files[k].size, size}) \in Nat /\ Min({files[k].size, size}) <= files[k].size
      BY <3>1, <3>2, MinMaxOfTwo
    <3>4. CutFile(k) = [files[k] EXCEPT !.size = Min({files[k].size, size}),
                                        !.durable = Min({files[k].size, size})]
      BY <3>1 DEF CutFile, size, File
    <3>5. QED
      BY <3>1, <3>3, <3>4 DEF File
  <2>3. ASSUME NEW k \in DOMAIN files
        PROVE  /\ [files[k] EXCEPT !.durable = files[k].size].toks = files[k].toks
               /\ [files[k] EXCEPT !.durable = files[k].size].model = files[k].model
               /\ [files[k] EXCEPT !.durable = files[k].size].size = files[k].size
    BY <1>0 DEF File
  <2>4. \A k \in DOMAIN files' :
          /\ k \in DOMAIN files
          /\ files'[k].toks = files[k].toks /\ files'[k].model = files[k].model
          /\ files'[k].size \in Nat /\ files'[k].size <= files[k].size
    <3> TAKE k \in DOMAIN files'
    <3>1. k \in DOMAIN files /\ files[k].size \in Nat
      BY <1>0, <2>1 DEF File
    <3>2. files'[k] = CutFile(k) \/ files'[k] = [files[k] EXCEPT !.durable = files[k].size]
      BY <2>1
    <3>3. CASE files'[k] = CutFile(k)
      BY <2>2, <3>1, <3>3
    <3>4. CASE files'[k] = [files[k] EXCEPT !.durable = files[k].size]
      BY <1>0, <3>1, <3>4 DEF File
    <3>5. QED
      BY <3>2, <3>3, <3>4
  <2>5. QED
    BY <1>0, <2>4 DEF Listed, Whole, File
<1>8. CASE \E p \in Prompt : LoadHit(p) \/ LoadMiss(p) \/ LoadFails(p)
  BY <1>1, <1>8 DEF LoadHit, LoadMiss, LoadFails
<1>9. CASE \E h \in History : Store(h, h) \/ Store(h, Visible(h))
  BY <1>1, <1>9 DEF Store
<1>10. CASE \E e \in Engine : Kill(e)
  BY <1>1, <1>10 DEF Kill
<1>11. QED
  BY <1>1, <1>3, <1>5, <1>6, <1>7, <1>8, <1>9, <1>10
     DEF Next, vars, Evolve, TrailerChanges

\* Every step is a step of PrefixCache, or leaves its variables alone.
LEMMA RefinementStep ==
  ASSUME KvInv, [Next]_vars
  PROVE  [Cache!Next]_(Cache!pcVars)
<1>1. CASE Rename
  BY <1>1, RenameStores DEF Cache!Next
<1>2. ASSUME NEW p \in Prompt, LoadHit(p)
      PROVE  Cache!Next
  BY <1>2, LoadHits DEF Cache!Next
<1>3. CASE ~Rename /\ hit' = None
  BY <1>3, FilesForgotten, KeepsTable DEF Cache!Next, Cache!Miss
<1>4. CASE ~Rename /\ hit' = hit
  BY <1>4, FilesForgotten, KeepsTable DEF Cache!Next, Cache!Forget
<1>5. hit' = None \/ hit' = hit \/ \E p \in Prompt : LoadHit(p)
  <2>1. CASE StoreStep
    BY <2>1 DEF StoreStep, CheckExisting, Stage, StoreSkipped, Evict, EvictEnds, WriteTmp,
                StoreFails, Rename, CutTrailer, AppendTrailer
  <2>2. CASE ~StoreStep
    BY <2>2 DEF Next, vars, Evolve, TrailerChanges, WriteBack, Store, LoadMiss, LoadFails,
                Discard, Kill, PowerLoss, Restart
  <2>3. QED
    BY <2>1, <2>2
<1>6. QED
  BY <1>1, <1>2, <1>3, <1>4, <1>5

\* The disk cache is a lossy table that never answers with what was not stored
\* under the very text it is asked for (ds4_kvstore.c as a whole).
THEOREM ImplementsPrefixCacheCorrect == Spec => ImplementsPrefixCache
<1>1. Init => Cache!Init
  BY DEF Init, Cache!Init, Table, Listed
<1>2. KvInv /\ [Next]_vars => [Cache!Next]_(Cache!pcVars)
  BY RefinementStep
<1>3. QED
  BY <1>1, <1>2, KvInvariant, PTL DEF Spec, ImplementsPrefixCache, Cache!Spec

==============================================================================
