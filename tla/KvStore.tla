------------------------------- MODULE KvStore -------------------------------
(***************************************************************************)
(* The disk cache of ds4_kvstore.c: checkpoint files named by the hash of  *)
(* the text they stand for.  A store runs under kv_mu and inference_mu, so *)
(* it is one thread of steps; a kill or a power loss may come between any  *)
(* two of them.                                                            *)
(*                                                                         *)
(* Sizes are in units: one for the header, one per letter of the key, one  *)
(* per token of the payload, and the trailer (the tool map).  The file     *)
(* system keeps the order of appended data: a power loss leaves a prefix   *)
(* of what was written and not yet written back.                           *)
(***************************************************************************)
EXTENDS Integers, Sequences, SequencesExt, FiniteSets, FiniteSetsExt

CONSTANTS
  Letter, Thought,   \* tokens; a thought is not part of the visible text
  History,           \* token histories that sessions reach
  Prompt,            \* texts that are looked up
  Engine,            \* [model, ctx] that may run on the directory, one at a time
  Budget,            \* budget_bytes
  MaxTrailer,        \* bound on the tool map
  MaxCrashes,        \* bound on kills and power losses
  None

Visible(t) == SelectSeq(t, LAMBDA x : x # Thought)
Text == {Visible(h) : h \in History} \cup History

Model == {e.model : e \in Engine}
Ctx == {e.ctx : e \in Engine}

ASSUME KvAssumption ==
  /\ History \subseteq Seq(Letter \cup {Thought}) /\ <<>> \notin History
  /\ \A e \in Engine : DOMAIN e = {"model", "ctx"} /\ e.ctx \in Nat
  /\ Budget \in Nat /\ MaxTrailer \in Nat /\ MaxCrashes \in Nat
  /\ Text \subseteq Seq(Letter \cup {Thought})   \* so says SelectSeq
  /\ None \notin History \cup [model : Model, key : Text, toks : History, prompt : Prompt]

VARIABLES
  files,     \* key -> file, the *.kv files by name
  litter,    \* units in temporary files of dead processes
  engine,    \* [model, ctx] of this process
  session,   \* tokens of the valid checkpoint, or None
  trailer,   \* size of the tool map's part for a text, at present
  pc,        \* where the store is
  job,       \* [key, toks, est, left, tmp] of the store
  hit,       \* the last lookup that hit, or None
  stuck,     \* has an unlink failed?
  crashes

vars == <<files, litter, engine, session, trailer, pc, job, hit, stuck, crashes>>

File == [model : Model, ctx : Ctx, toks : History, size : Nat, durable : Nat]

\* Header, text and payload: what read_entry_file expects at least.
Base(k, toks) == 1 + Len(k) + Len(toks)
Whole(k) == files[k].size >= Base(k, files[k].toks)

\* kv_cache_refresh: malformed files are not listed.
Listed == {k \in DOMAIN files : Whole(k)}
TotalOf(S) == MapThenSumSet(LAMBDA k : files[k].size, S)

Without(k) == [l \in DOMAIN files \ {k} |-> files[l]]
With(k, f) == [l \in DOMAIN files \cup {k} |-> IF l = k THEN f ELSE files[l]]

NoJob == [key |-> <<>>, toks |-> <<>>, est |-> 0, left |-> {}, tmp |-> 0]
Idle == job' = NoJob /\ pc' = "idle"

TypeOK ==
  /\ DOMAIN files \subseteq Text
  /\ \A k \in DOMAIN files : files[k] \in File
  /\ litter \in Nat
  /\ engine \in Engine
  /\ session \in History \cup {None}
  /\ trailer \in 0 .. MaxTrailer
  /\ pc \in {"open", "idle", "check", "stage", "evict", "write", "rename", "trailer", "append"}
  /\ job \in [key : Text \cup {<<>>}, toks : History \cup {<<>>},
              est : Nat, left : SUBSET Text, tmp : Nat]
  /\ hit \in {None} \cup [model : Model, key : Text, toks : History, prompt : Prompt]
  /\ stuck \in BOOLEAN /\ crashes \in 0 .. MaxCrashes

Init ==
  /\ files = <<>> /\ litter = 0
  /\ engine \in Engine
  /\ session = None /\ trailer = 0
  /\ pc = "open" /\ job = NoJob
  /\ hit = None /\ stuck = FALSE /\ crashes = 0

------------------------------------------------------------------------------
(* Around the store.                                                          *)

\* Prefill and decode move the session, within its context: a hit is used up.
Evolve ==
  /\ pc = "idle"
  /\ session' \in {h \in History : Len(h) <= engine.ctx}
  /\ hit' = None
  /\ UNCHANGED <<files, litter, engine, trailer, pc, job, stuck, crashes>>

\* Tool calls are remembered and pruned under tool_mu, also during a store.
TrailerChanges ==
  /\ trailer' \in (0 .. MaxTrailer) \ {trailer}
  /\ UNCHANGED <<files, litter, engine, session, pc, job, hit, stuck, crashes>>

\* The kernel writes back what a closed file holds.
WriteBack(k) ==
  /\ files[k].durable < files[k].size
  /\ files' = [files EXCEPT ![k].durable = files[k].size]
  /\ UNCHANGED <<litter, engine, session, trailer, pc, job, hit, stuck, crashes>>

------------------------------------------------------------------------------
(* ds4_kvstore_store_live_prefix_text.                                        *)

\* A bug: a prefix may be asked for while the session is past it.
StoreAnyPrefix(h, key) ==
  /\ pc = "idle" /\ session # None
  /\ IsPrefix(h, session)
  /\ job' = [NoJob EXCEPT !.key = key, !.toks = session]
  /\ pc' = "check"
  /\ UNCHANGED <<files, litter, engine, session, trailer, hit, stuck, crashes>>

\* The tokens h are to be stored: the session must stand exactly there.
Store(h, key) ==
  /\ pc = "idle" /\ session # None
  /\ h = session
  /\ job' = [NoJob EXCEPT !.key = key, !.toks = session]
  /\ pc' = "check"
  /\ UNCHANGED <<files, litter, engine, session, trailer, hit, stuck, crashes>>

\* A bug: the context of the file is not compared.
UsableInAnyContext(k) == files[k].model = engine.model

\* A larger context can read the checkpoint of a smaller one.
Usable(k) == files[k].model = engine.model /\ files[k].ctx <= engine.ctx

\* kv_cache_existing_compatible: an unusable file of that name is removed.
CheckExisting ==
  /\ pc = "check"
  /\ IF job.key \in Listed /\ Usable(job.key)
     THEN pc' = "trailer" /\ UNCHANGED files
     ELSE /\ pc' = "stage"
          /\ files' = IF job.key \in Listed THEN Without(job.key) ELSE files
  /\ UNCHANGED <<litter, engine, session, trailer, job, hit, stuck, crashes>>

\* The 1% of kv_cache_budget_required: less than a unit, so one unit.
Fits(bytes) == bytes + 1 <= Budget

\* Staging may fail, or the file be too large: nothing is stored.
StoreSkipped ==
  /\ pc = "stage"
  /\ Idle
  /\ UNCHANGED <<files, litter, engine, session, trailer, hit, stuck, crashes>>

Stage ==
  /\ pc = "stage"
  /\ LET est == Base(job.key, job.toks) + trailer
     IN /\ Fits(est)
        /\ job' = [job EXCEPT !.est = est, !.left = Listed]
  /\ pc' = "evict"
  /\ UNCHANGED <<files, litter, engine, session, trailer, hit, stuck, crashes>>

\* ds4_kvstore_evict makes room for the estimate.
OverBudget == TotalOf(job.left) > Budget - job.est

\* The file of the lowest score: any, here.  When it cannot be removed the loop ends.
Evict(k) ==
  /\ pc \in {"open", "evict"}
  /\ OverBudget /\ k \in job.left
  /\ \/ /\ files' = Without(k)
        /\ job' = [job EXCEPT !.left = @ \ {k}]
        /\ UNCHANGED stuck
     \/ /\ job' = [job EXCEPT !.left = {}]
        /\ stuck' = TRUE
        /\ UNCHANGED files
  /\ UNCHANGED <<litter, engine, session, trailer, pc, hit, crashes>>

EvictEnds ==
  /\ pc \in {"open", "evict"}
  /\ ~OverBudget
  /\ job' = [job EXCEPT !.left = {}]
  /\ pc' = IF pc = "open" THEN "idle" ELSE "write"
  /\ UNCHANGED <<files, litter, engine, session, trailer, hit, stuck, crashes>>

\* Part after part of the temporary file; the last one is the trailer of now.
WriteTmp ==
  /\ pc = "write"
  /\ LET base == Base(job.key, job.toks) IN
     \/ /\ job.tmp = 0
        /\ \E n \in {1, base - 1} : job' = [job EXCEPT !.tmp = n]
        /\ UNCHANGED pc
     \/ job' = [job EXCEPT !.tmp = base + trailer] /\ pc' = "rename"
  /\ UNCHANGED <<files, litter, engine, session, trailer, hit, stuck, crashes>>

\* A write fails, or the final size no longer fits: unlink(tmp).
StoreFails ==
  /\ \/ pc = "write"
     \/ pc = "rename"
  /\ Idle
  /\ UNCHANGED <<files, litter, engine, session, trailer, hit, stuck, crashes>>

Rename ==
  /\ pc = "rename" /\ Fits(job.tmp)
  /\ files' = With(job.key, [model |-> engine.model, ctx |-> engine.ctx,
                            toks |-> job.toks, size |-> job.tmp, durable |-> 0])
  /\ Idle
  /\ UNCHANGED <<litter, engine, session, trailer, hit, stuck, crashes>>

\* A bug: the file is cut a byte too early.
CutTooMuch ==
  /\ pc = "trailer" /\ trailer > 0
  /\ files' = [files EXCEPT ![job.key].size = Base(job.key, files[job.key].toks) - 1]
  /\ Idle
  /\ UNCHANGED <<litter, engine, session, trailer, hit, stuck, crashes>>

\* kv_cache_rewrite_trailer, in place: cut, append, update the header.
CutTrailer ==
  /\ pc = "trailer" /\ trailer > 0
  /\ LET base == Base(job.key, files[job.key].toks) IN
       files' = [files EXCEPT ![job.key].size = base,
                              ![job.key].durable = Min({@, base})]
  /\ pc' = "append"
  /\ UNCHANGED <<litter, engine, session, trailer, job, hit, stuck, crashes>>

AppendTrailer ==
  /\ \/ /\ pc = "append"
        /\ files' = [files EXCEPT ![job.key].size = @ + trailer]
     \/ pc = "trailer" /\ trailer = 0 /\ UNCHANGED files
  /\ Idle
  /\ UNCHANGED <<litter, engine, session, trailer, hit, stuck, crashes>>

StoreStep ==
  \/ CheckExisting \/ Stage \/ StoreSkipped
  \/ (\E k \in Text : Evict(k)) \/ EvictEnds
  \/ WriteTmp \/ StoreFails \/ Rename \/ CutTrailer \/ AppendTrailer

------------------------------------------------------------------------------
(* ds4_kvstore_try_load_text.                                                 *)

\* ds4_kvstore_find_text_prefix
Candidates(p) == {k \in Listed : Usable(k) /\ IsPrefix(k, p)}

\* The longest text; two files of one length have the same text and name.
Longest(S) == {k \in S : \A l \in S : Len(l) <= Len(k)}

LoadHit(p) ==
  /\ pc = "idle"
  /\ \E k \in Longest(Candidates(p)) :
       /\ session' = files[k].toks
       /\ hit' = [model |-> files[k].model, key |-> k, toks |-> files[k].toks, prompt |-> p]
  /\ UNCHANGED <<files, litter, engine, trailer, pc, job, stuck, crashes>>

\* No candidate, or its header cannot be read: the session stays.
LoadMiss(p) ==
  /\ pc = "idle"
  /\ hit' = None
  /\ UNCHANGED <<files, litter, engine, session, trailer, pc, job, stuck, crashes>>

\* The payload cannot be read: the session is lost, the file stays.
LoadFails(p) ==
  /\ pc = "idle" /\ Candidates(p) # {}
  /\ session' = None /\ hit' = None
  /\ UNCHANGED <<files, litter, engine, trailer, pc, job, stuck, crashes>>

\* kv_cache_discard_failed_disk_entry: the prefill after a hit has failed.
Discard ==
  /\ pc = "idle" /\ hit # None
  /\ files' = Without(hit.key)
  /\ session' = None /\ hit' = None
  /\ UNCHANGED <<litter, engine, trailer, pc, job, stuck, crashes>>

------------------------------------------------------------------------------
(* A kill, or a power loss, and the next start (ds4_kvstore_open).            *)

Restart(e) ==
  /\ engine' = e
  /\ session' = None /\ hit' = None /\ trailer' = 0
  /\ litter' = litter + job.tmp
  /\ crashes < MaxCrashes /\ crashes' = crashes + 1
  /\ pc' = "open"
  /\ UNCHANGED stuck

Kill(e) ==
  /\ Restart(e)
  /\ job' = [NoJob EXCEPT !.left = Listed]
  /\ UNCHANGED files

\* All that is known to be on disk, or the last unit of the payload is missing.
CutFile(k) ==
  LET size == Max({files[k].durable, Base(k, files[k].toks) - 1})
  IN [files[k] EXCEPT !.size = Min({@, size}), !.durable = Min({files[k].size, size})]

PowerLoss(e) ==
  /\ Restart(e)
  /\ \E lost \in SUBSET {k \in DOMAIN files : files[k].durable = 0},
        cut \in SUBSET DOMAIN files :
       /\ files' = [k \in DOMAIN files \ lost |->
                      IF k \in cut THEN CutFile(k)
                      ELSE [files[k] EXCEPT !.durable = files[k].size]]
  /\ job' = [NoJob EXCEPT !.left = Listed']

------------------------------------------------------------------------------
Next ==
  \/ Evolve \/ TrailerChanges \/ Discard
  \/ \E k \in DOMAIN files : WriteBack(k)
  \/ \E h \in History : Store(h, h) \/ Store(h, Visible(h))
  \/ StoreStep
  \/ \E p \in Prompt : LoadHit(p) \/ LoadMiss(p) \/ LoadFails(p)
  \/ \E e \in Engine : Kill(e) \/ PowerLoss(e)

Spec == Init /\ [][Next]_vars

------------------------------------------------------------------------------
\* A hit continues the prompt that asked: the file's text is a prefix of it, its
\* tokens say that text, and they fit this engine (the checks of try_load_text).
HitAnswersPrompt ==
  hit # None =>
    /\ IsPrefix(hit.key, hit.prompt)
    /\ hit.key \in {hit.toks, Visible(hit.toks)}
    /\ hit.model = engine.model /\ Len(hit.toks) <= engine.ctx

\* A store never harms the file it finds: rewriting a tool map in place leaves the
\* payload readable at every step, also for a kill (kv_cache_rewrite_trailer).
RewriteKeepsPayload ==
  [][ \A k \in Listed :
        pc \in {"trailer", "append"} /\ pc' # "open" => k \in Listed' ]_vars

\* The help text: "Disk budget." (ds4_help.c:371).
DiskWithinBudget == pc = "idle" /\ ~stuck => TotalOf(DOMAIN files) + litter <= Budget

------------------------------------------------------------------------------
\* The files of whole payload are the table of PrefixCache; the model is part of
\* its key, for a file of another model is never hit.
Table == [m \in {<<files[k].model, k>> : k \in Listed} |-> files[m[2]].toks]

Cache == INSTANCE PrefixCache WITH
  Pair <- {p \in Text \X History : p[1] \in {p[2], Visible(p[2])}},
  table <- Table,
  hit <- IF hit = None THEN None
         ELSE [model |-> hit.model, text |-> hit.key, history |-> hit.toks]

ImplementsPrefixCache == Cache!Spec

------------------------------------------------------------------------------
(* What the proofs in KvStoreProofs need: an inductive invariant.             *)

\* The tokens t are stored under a text that says them, for a context that holds them.
Says(key, t, ctx) == key \in {t, Visible(t)} /\ Len(t) <= ctx

KvInv ==
  /\ TypeOK
  /\ HitAnswersPrompt
  /\ \A k \in DOMAIN files : Says(k, files[k].toks, files[k].ctx)
  /\ session # None => Len(session) <= engine.ctx
  /\ pc \notin {"open", "idle"} =>
       job.toks # <<>> /\ Says(job.key, job.toks, engine.ctx)
  /\ pc = "rename" => job.tmp >= Base(job.key, job.toks)
  /\ pc \in {"trailer", "append"} => job.key \in Listed

==============================================================================
