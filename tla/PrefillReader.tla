---------------------------- MODULE PrefillReader ----------------------------
(***************************************************************************)
(* The continuous prefill reader of Argodrive (ds4_metal.m, ar_rd and      *)
(* ar_stage2): lanes read the experts of the next layer, best guesses      *)
(* first, while the GPU computes this one; when the router has chosen, its *)
(* experts go first, and the stage waits until all of them have landed.    *)
(* No lock is taken: lanes claim experts with a compare-and-swap, and a    *)
(* generation number tells them which job they read for.                   *)
(*                                                                         *)
(* A job is one layer; its number is its generation.  The bytes of expert  *)
(* i of job j are the number j in the slot of i.  Shared fields are read   *)
(* and written one at a time where the code orders them; loads and stores  *)
(* of different fields are not reordered by the machine.                   *)
(***************************************************************************)
EXTENDS Integers, Sequences, SequencesExt, FiniteSets

CONSTANTS
  Lanes,     \* reader threads
  Experts,   \* expert numbers
  Ranked,    \* the guesses, most likely first: a sequence over Experts
  Chosen,    \* <<job, experts>>: what the router may choose for the layer of a job
  Waves,     \* DS4_ARGODRIVE_PREFILL_WAVES: 0 off, else the parts of a top-up
  MaxJobs,   \* bound on the jobs ever installed
  ReadsFail, \* jobs whose reads may fail
  GpuFails   \* jobs during which waiting for the GPU, or encoding a wave, may fail

ASSUME ReaderAssumption ==
  /\ Experts \subseteq Nat /\ Experts # {} /\ IsFiniteSet(Experts) /\ Ranked \in Seq(Experts)
  /\ Waves \in 0..3 /\ MaxJobs \in Nat
  /\ ReadsFail \subseteq Nat /\ GpuFails \subseteq Nat

VARIABLES
  mpc,     \* where the main thread is
  pub,     \* ar_prefill_published_set
  used,    \* <<expert, job>> the kernels submitted since the last wait may read, in set pub
  wanted,  \* the experts the router has chosen so far
  need,    \* ar_stage2_topup
  parts,   \* the waves the top-up is read in
  at,      \* experts of need found landed
  staged,  \* ar_stage2.active
  gen, set, off,            \* ar_rd: job number, destination set, source of the bytes
  cursor, topup, tcursor,   \* ar_rd: next guess, list of priority experts, next of them
  active, hint,             \* ar_rd.topup_active, topup_hint
  state,   \* ar_rd.state: one array per parity of the generation
  stop,    \* ar_rd.stop
  lane,    \* what each lane has loaded
  slot,    \* ar_prefill_pool: slot[s][i], the job whose bytes of expert i are in set s
  begun,   \* history: the experts of the current job whose bytes a lane began to read
  strays   \* history: <<expert, job>> a late lane has laid hands on while the job was
           \* the newest

shared == <<gen, set, off, cursor, topup, tcursor, active, hint>>
main == <<mpc, pub, used, wanted, need, parts, at, staged>>
history == <<begun, strays>>
vars == <<main, shared, state, stop, lane, slot, history>>

Sets == 0..1
Installing == {"set", "fields", "publish"}
Gone == [pc |-> "gone", g |-> 0, k |-> 0, id |-> 0, s |-> 0, o |-> 0]
Idle == [Gone EXCEPT !.pc = "idle"]

Init ==
  /\ mpc = "idle" /\ pub = 1 /\ used = {} /\ wanted = {}
  /\ need = <<>> /\ parts = 1 /\ at = 0 /\ staged = FALSE
  /\ gen = 0 /\ set = 0 /\ off = 0 /\ cursor = 0 /\ topup = <<>> /\ tcursor = 0
  /\ active = FALSE /\ hint = FALSE /\ stop = FALSE
  /\ state = [p \in Sets |-> [i \in Experts |-> "untouched"]]
  /\ lane = [l \in Lanes |-> Gone]
  /\ slot = [s \in Sets |-> [i \in Experts |-> 0]]
  /\ begun = {} /\ strays = {}

Array == state[gen % 2]   \* the array of the current job

-----------------------------------------------------------------------------
(* The lanes. *)

(* A lane between loading the generation and checking it again. *)
InWindow(l) == lane[l].pc \in {"look", "topup", "pick", "ranked", "copy", "check"}

(* The newest job, from the moment ar_rd_install_job begins with it. *)
Newborn == IF mpc \in Installing THEN gen + 1 ELSE gen

(* A lane is late when a job is installed between its load of the          *)
(* generation and its check, or a second one before its read has ended.    *)
(* Nothing in the code prevents either.                                    *)
Late(l) == IF InWindow(l) THEN lane[l].g < Newborn ELSE lane[l].g + 1 < Newborn

(* History: what a late lane takes, lets pass, writes or publishes. *)
Notes(l, i) == strays' = IF Late(l) THEN strays \cup {<<i, Newborn>>} ELSE strays

Load(l) ==
  /\ lane[l].pc = "idle"
  /\ lane' = [lane EXCEPT ![l] = IF stop THEN Gone
                                 ELSE [Idle EXCEPT !.pc = "look", !.g = gen]]
  /\ UNCHANGED <<main, shared, state, stop, slot, history>>

Look(l) ==
  /\ lane[l].pc = "look"
  /\ lane' = [lane EXCEPT ![l].pc = IF active THEN "topup" ELSE "ranked"]
  /\ UNCHANGED <<main, shared, state, stop, slot, history>>

(* The next index of the priority list.  The cursor is not counted past    *)
(* the end of the list.                                                    *)
TopUp(l) ==
  /\ lane[l].pc = "topup"
  /\ IF tcursor < Len(topup)
     THEN /\ tcursor' = tcursor + 1 /\ Notes(l, topup[tcursor + 1])
          /\ lane' = [lane EXCEPT ![l].pc = "pick", ![l].k = tcursor]
     ELSE /\ tcursor' = tcursor /\ UNCHANGED strays
          /\ lane' = [lane EXCEPT ![l] = IF hint THEN [@ EXCEPT !.pc = "ranked"] ELSE Idle]
  /\ UNCHANGED <<main, gen, set, off, cursor, topup, active, hint, state, stop, slot, begun>>

(* The compare-and-swap that claims an expert in the lane's own array. *)
Claim(l, c, else) ==
  IF state[lane[l].g % 2][c] = "untouched"
  THEN /\ state' = [state EXCEPT ![lane[l].g % 2][c] = "claimed"]
       /\ lane' = [lane EXCEPT ![l].pc = "copy", ![l].id = c, ![l].k = 0]
  ELSE /\ state' = state
       /\ lane' = [lane EXCEPT ![l].pc = else, ![l].k = 0]

(* The list may have been replaced since the index was taken: past its end *)
(* is whatever the memory holds.                                           *)
Pick(l) ==
  /\ lane[l].pc = "pick"
  /\ \E c \in IF lane[l].k < Len(topup) THEN {topup[lane[l].k + 1]} ELSE Experts :
       Claim(l, c, "topup")
  /\ UNCHANGED <<main, shared, stop, slot, history>>

Guess(l) ==
  /\ lane[l].pc = "ranked"
  /\ IF cursor < Len(Ranked)
     THEN cursor' = cursor + 1 /\ Claim(l, Ranked[cursor + 1], "ranked")
     ELSE cursor' = cursor /\ lane' = [lane EXCEPT ![l] = Idle] /\ UNCHANGED state
  /\ UNCHANGED <<main, gen, set, off, topup, tcursor, active, hint, stop, slot, history>>

(* ar_rd_read_expert: the set is copied, then the offsets; they count if   *)
(* the generation is still the lane's.                                     *)
Copy(l) ==
  /\ lane[l].pc = "copy"
  /\ lane' = [lane EXCEPT ![l].pc = "check", ![l].s = set]
  /\ UNCHANGED <<main, shared, state, stop, slot, history>>

Check(l) ==
  /\ lane[l].pc = "check"
  /\ IF gen = lane[l].g
     THEN /\ lane' = [lane EXCEPT ![l].pc = "read", ![l].o = off]
          /\ begun' = begun \cup {lane[l].id} /\ Notes(l, lane[l].id)
     ELSE lane' = [lane EXCEPT ![l].pc = "missed"] /\ UNCHANGED history
  /\ UNCHANGED <<main, shared, state, stop, slot>>

ReadBytes(l) ==
  /\ lane[l].pc = "read"
  /\ slot' = [slot EXCEPT ![lane[l].s][lane[l].id] = lane[l].o]
  /\ lane' = [lane EXCEPT ![l].pc = "done"]
  /\ Notes(l, lane[l].id)
  /\ UNCHANGED <<main, shared, state, stop, begun>>

ReadError(l) ==
  /\ lane[l].pc = "read" /\ lane[l].g \in ReadsFail
  /\ lane' = [lane EXCEPT ![l].pc = "missed"]
  /\ UNCHANGED <<main, shared, state, stop, slot, history>>

(* Mutant: a failed read is not published. *)
StoreLanded(l) ==
  /\ lane[l].pc \in {"done", "missed"}
  /\ state' = IF lane[l].pc = "done"
              THEN [state EXCEPT ![lane[l].g % 2][lane[l].id] = "landed"] ELSE state
  /\ lane' = [lane EXCEPT ![l] = Idle]
  /\ Notes(l, lane[l].id)
  /\ UNCHANGED <<main, shared, stop, slot, begun>>

Store(l) ==
  /\ lane[l].pc \in {"done", "missed"}
  /\ state' = [state EXCEPT ![lane[l].g % 2][lane[l].id] =
                 IF lane[l].pc = "done" THEN "landed" ELSE "failed"]
  /\ lane' = [lane EXCEPT ![l] = Idle]
  /\ Notes(l, lane[l].id)
  /\ UNCHANGED <<main, shared, stop, slot, begun>>

Lane(l) == \/ Load(l) \/ Look(l) \/ TopUp(l) \/ Pick(l) \/ Guess(l)
           \/ Copy(l) \/ Check(l) \/ ReadBytes(l) \/ ReadError(l) \/ Store(l)

-----------------------------------------------------------------------------
(* The main thread: one sweep stages its layers in order. *)

(* Mutant: the array of the current job is cleared, not the next one's.   *)
InstallCurrent ==
  /\ mpc \in {"idle", "next"} /\ gen < MaxJobs
  /\ state' = [state EXCEPT ![gen % 2] = [i \in Experts |-> "untouched"]]
  /\ active' = FALSE /\ hint' = FALSE /\ mpc' = "set"
  /\ UNCHANGED <<pub, used, wanted, need, parts, at, staged, gen, set, off,
                 cursor, topup, tcursor, stop, lane, slot, history>>

(* ar_prefill_prestage_start, ar_rd_install_job up to its first stores. *)
Install ==
  /\ mpc \in {"idle", "next"} /\ gen < MaxJobs
  /\ state' = [state EXCEPT ![(gen + 1) % 2] = [i \in Experts |-> "untouched"]]
  /\ active' = FALSE /\ hint' = FALSE /\ mpc' = "set"
  /\ UNCHANGED <<pub, used, wanted, need, parts, at, staged, gen, set, off,
                 cursor, topup, tcursor, stop, lane, slot, history>>

InstallSet ==
  /\ mpc = "set"
  /\ set' = 1 - pub /\ mpc' = "fields"
  /\ UNCHANGED <<pub, used, wanted, need, parts, at, staged, gen, off, cursor,
                 topup, tcursor, active, hint, state, stop, lane, slot, history>>

InstallFields ==
  /\ mpc = "fields"
  /\ off' = gen + 1 /\ cursor' = 0 /\ topup' = <<>> /\ tcursor' = 0
  /\ mpc' = "publish"
  /\ UNCHANGED <<pub, used, wanted, need, parts, at, staged, gen, set, active,
                 hint, state, stop, lane, slot, history>>

(* The generation is published and, at the start of a sweep, the lanes are *)
(* started.                                                                *)
InstallGen ==
  /\ mpc = "publish"
  /\ gen' = gen + 1 /\ mpc' = "router" /\ wanted' = {}
  /\ stop' = FALSE /\ begun' = {}
  /\ lane' = [l \in Lanes |-> IF lane[l].pc = "gone" THEN Idle ELSE lane[l]]
  /\ UNCHANGED <<pub, used, need, parts, at, staged, set, off, cursor, topup,
                 tcursor, active, hint, state, slot, strays>>

(* ar_prefill_stage_ids_hint: what half of the prompt has chosen.  Lists   *)
(* keep the order of the caller's; in the model it is some order.          *)
Hint ==
  /\ mpc = "router" /\ wanted = {} /\ ~staged
  /\ \E ids \in SUBSET Experts \ {{}} :
       LET ask == {i \in ids : Array[i] = "untouched"} IN
       /\ \E all \in SUBSET Experts : ids \subseteq all /\ <<gen, all>> \in Chosen
       /\ wanted' = ids
       /\ IF ask = {} THEN UNCHANGED <<topup, tcursor, hint, active>>
          ELSE /\ topup' = SetToSeq(ask) /\ tcursor' = 0
               /\ hint' = TRUE /\ active' = TRUE
  /\ UNCHANGED <<mpc, pub, used, need, parts, at, staged, gen, set, off, cursor,
                 state, stop, lane, slot, history>>

(* Mutant: an expert somebody is reading counts as landed. *)
HitsClaimed(ids) == {i \in ids : Array[i] \in {"claimed", "landed"}}

(* What has landed already; the rest has to be waited for. *)
Hits(ids) == {i \in ids : Array[i] = "landed"}

EndSweep == mpc' = "stop" /\ stop' = TRUE

(* ar_prefill_stage_ids_begin, after the router of the whole layer: waits  *)
(* for the GPU, publishes the set and, with waves, lets the kernels have   *)
(* what has landed.                                                        *)
Begin ==
  /\ mpc = "router" /\ ~staged
  /\ \E ids \in SUBSET Experts \ {{}} :
       LET hits == Hits(ids)
           rest == SetToSeq(ids \ hits)
           split == Waves > 0 /\ hits # {} /\ rest # <<>>
       IN
       /\ wanted \subseteq ids /\ <<gen, ids>> \in Chosen
       /\ wanted' = ids /\ need' = rest /\ topup' = rest /\ tcursor' = 0
       /\ parts' = IF ~split THEN 1 ELSE IF Waves < Len(rest) THEN Waves ELSE Len(rest)
       /\ used' = IF split THEN {<<i, gen>> : i \in hits} ELSE {}
  /\ hint' = FALSE /\ active' = TRUE
  /\ pub' = 1 - pub /\ staged' = TRUE /\ at' = 0 /\ mpc' = "finish"
  /\ UNCHANGED <<gen, set, off, cursor, state, stop, lane, slot, history>>

(* The views could not be cleared: the lanes keep the list of a stage that *)
(* was not begun.                                                          *)
BeginFails ==
  /\ mpc = "router" /\ ~staged /\ gen \in GpuFails
  /\ \E ids \in SUBSET Experts \ {{}} :
       /\ wanted \subseteq ids /\ <<gen, ids>> \in Chosen
       /\ need' = SetToSeq(ids \ Hits(ids)) /\ topup' = need' /\ at' = 0
  /\ tcursor' = 0 /\ hint' = FALSE /\ active' = TRUE /\ EndSweep
  /\ UNCHANGED <<pub, used, wanted, parts, staged, gen, set, off, cursor, state, lane, slot, history>>

(* ar_prefill_stage_ids_finish_part: the next expert of the list has       *)
(* landed; at the end of a part its wave is submitted.                     *)
Await ==
  /\ mpc = "finish" /\ at < Len(need)
  /\ Array[need[at + 1]] = "landed"
  /\ at' = at + 1
  /\ used' = IF \E q \in 1..(parts - 1) : at' = (q * Len(need)) \div parts
             THEN used \cup {<<need[j], gen>> : j \in 1..at'} ELSE used
  /\ UNCHANGED <<mpc, pub, wanted, need, parts, staged, shared, state, stop, lane, slot, history>>

(* The last part is in: the stage is closed, the layer's kernels follow. *)
Finish ==
  /\ mpc = "finish" /\ at = Len(need)
  /\ active' = FALSE /\ staged' = FALSE /\ mpc' = "next"
  /\ used' = {<<i, gen>> : i \in wanted}
  /\ UNCHANGED <<pub, wanted, need, parts, at, gen, set, off, cursor, topup,
                 tcursor, hint, state, stop, lane, slot, history>>

(* An expert that could not be read fails the stage, and the sweep. *)
AwaitFails ==
  /\ mpc = "finish" /\ at < Len(need)
  /\ Array[need[at + 1]] = "failed"
  /\ active' = FALSE /\ staged' = FALSE /\ EndSweep
  /\ UNCHANGED <<pub, used, wanted, need, parts, at, gen, set, off, cursor, topup,
                 tcursor, hint, state, lane, slot, history>>

(* A wave that cannot be encoded or submitted fails the sweep between two  *)
(* parts; nobody closes the stage.                                         *)
WaveError ==
  /\ mpc = "finish" /\ used # {} /\ gen \in GpuFails /\ EndSweep
  /\ UNCHANGED <<pub, used, wanted, need, parts, at, staged, shared, state, lane, slot, history>>

(* A stage that is still open refuses the next one. *)
BeginRefused ==
  /\ mpc = "router" /\ staged /\ EndSweep
  /\ UNCHANGED <<pub, used, wanted, need, parts, at, staged, shared, state, lane, slot, history>>

(* The last layer is done, the request was cancelled or the GPU failed. *)
Leave ==
  /\ mpc \in {"next", "router"} /\ EndSweep
  /\ UNCHANGED <<pub, used, wanted, need, parts, at, staged, shared, state, lane, slot, history>>

(* ar_prefill_release: the lanes are joined, the GPU waited for, the       *)
(* buffers given back.                                                     *)
Release ==
  /\ mpc = "stop" /\ \A l \in Lanes : lane[l].pc = "gone"
  /\ active' = FALSE /\ used' = {} /\ mpc' = "idle"
  /\ slot' = [s \in Sets |-> [i \in Experts |-> 0]]
  /\ UNCHANGED <<pub, wanted, need, parts, at, staged, gen, set, off, cursor, topup,
                 tcursor, hint, state, stop, lane, history>>

Stage == \/ Install \/ InstallSet \/ InstallFields \/ InstallGen \/ Begin
         \/ Await \/ Finish \/ AwaitFails \/ BeginRefused \/ Release
         \/ (gen = MaxJobs /\ Leave)

Next == Stage \/ Hint \/ BeginFails \/ WaveError \/ Leave \/ \E l \in Lanes : Lane(l)

Spec == Init /\ [][Next]_vars

(* Every thread is scheduled, every read returns, the GPU finishes. *)
LiveSpec == Spec /\ WF_vars(Stage) /\ \A l \in Lanes : WF_vars(Lane(l))

-----------------------------------------------------------------------------

(* The ranked flow and the top-up never read the same expert twice         *)
(* (ds4_metal.m:13467: "Each expert is claimed once"): no lane begins to   *)
(* read an expert for the current job that a lane has begun to read for it *)
(* before, late lanes included, though two jobs share a state array, lists *)
(* are replaced under the lanes that use them, and guesses, hints and      *)
(* top-ups name the same experts.                                          *)
ReadOnce ==
  [][\A l \in Lanes : (lane[l].pc = "check" /\ lane'[l].pc = "read") =>
       lane[l].id \notin begun]_vars

(* A late lane has laid hands on expert i while job j or the one after it  *)
(* was the newest.                                                         *)
Strayed(i, j) == <<i, j>> \in strays \/ <<i, j + 1>> \in strays

(* The slots the submitted kernels read hold the bytes of their own layer, *)
(* whole, for as long as they may be read (ar_prefill_stage_ids_begin:     *)
(* "kernels ... must only touch experts reported as landed").  A late lane *)
(* can spoil this, but only for the very experts it writes or publishes,   *)
(* and only for the job that is the newest then and the one before.        *)
KernelsReadTheirLayer == \A u \in used : slot[pub][u[1]] = u[2] \/ Strayed(u[1], u[2])

(* A lane that finishes a job after the switch updates the old job's array *)
(* (the comment at ds4_metal.m:13470).                                     *)
StaleStaysOld ==
  \A l \in Lanes : (lane[l].pc \in {"done", "missed"} /\ lane[l].g < gen) =>
    lane[l].g % 2 # gen % 2

(* A lane that finishes a job after the switch writes a slot nobody uses:  *)
(* not one of the running kernels, nor one of the new job (the comment at  *)
(* ds4_metal.m:13490).                                                     *)
StaleSlotUnused ==
  \A l \in Lanes : (lane[l].pc = "read" /\ lane[l].g < gen) =>
    /\ lane[l].s # set
    /\ lane[l].s = pub => \A u \in used : u[1] # lane[l].id

(* No stage is left open by a sweep that is over: the next sweep can stage *)
(* its layers.                                                             *)
SweepClosesItsStage == mpc = "idle" => ~staged

(* A begun stage ends, its experts landed or one of them failed, unless it *)
(* waits for ever for an expert whose index a late lane has spent.         *)
(* Neither a replaced hint, nor a guess under way, nor a failed read, nor  *)
(* a late lane's hand on another expert can make it wait for ever.         *)
StageEnds ==
  \/ []<>(mpc # "finish")
  \/ <>[](mpc = "finish" /\ at < Len(need) /\ <<need[at + 1], gen>> \in strays)

(* A begun stage ends, whatever the lanes do (the comment at               *)
(* ds4_metal.m:13464: lanes read "top-up experts until all selected        *)
(* experts are present").                                                  *)
EveryStageEnds == mpc = "finish" ~> mpc # "finish"
-----------------------------------------------------------------------------
(* The inductive invariant from which KernelsReadTheirLayer follows. *)

States == {"untouched", "claimed", "landed", "failed"}
LanePc == {"gone", "idle", "look", "topup", "pick", "ranked", "copy", "check",
           "read", "done", "missed"}

TypeOK ==
  /\ mpc \in {"idle", "set", "fields", "publish", "router", "finish", "next", "stop"}
  /\ pub \in Sets /\ used \subseteq Experts \X Nat /\ wanted \subseteq Experts
  /\ need \in Seq(Experts) /\ parts \in Nat /\ at \in Nat /\ staged \in BOOLEAN
  /\ gen \in Nat /\ set \in Sets /\ off \in Nat /\ cursor \in Nat
  /\ topup \in Seq(Experts) /\ tcursor \in Nat /\ active \in BOOLEAN /\ hint \in BOOLEAN
  /\ state \in [Sets -> [Experts -> States]] /\ stop \in BOOLEAN
  /\ lane \in [Lanes -> [pc : LanePc, g : Nat, k : Nat, id : Experts \cup {0},
                         s : Sets, o : Nat]]
  /\ slot \in [Sets -> [Experts -> Nat]]
  /\ begun \subseteq Experts /\ strays \subseteq Experts \X Nat

(* The job whose experts are read into a set: the newest one's, or the one *)
(* before's.                                                               *)
Newest == IF mpc \in {"fields", "publish"} THEN gen + 1 ELSE gen
JobOf(s) == IF s = set THEN Newest ELSE Newest - 1
AllGone == \A l \in Lanes : lane[l].pc = "gone"

(* The main thread: which set is published, what the job's fields say, and *)
(* that nothing of the next job has been touched but by late lanes.        *)
Published ==
  /\ mpc = "idle" => AllGone /\ used = {}
  /\ mpc = "set" => set = pub \/ (AllGone /\ used = {})
  /\ mpc \in {"finish", "next"} => set = pub
  /\ mpc \in {"fields", "publish", "router"} => set # pub
  /\ off = IF mpc = "publish" THEN gen + 1 ELSE gen
  /\ \A u \in used : u[2] = JobOf(pub)
  /\ mpc \in Installing => \A i \in Experts :
       state[(gen + 1) % 2][i] = "landed" => <<i, gen + 1>> \in strays
  /\ \A x \in strays : x[2] <= Newborn

(* A lane that is not late reads for the current job or the one before,    *)
(* and the bytes and the set of its own job, unless it was late before.    *)
LaneFits(l) ==
  LET me == lane[l] IN
  /\ me.pc \notin {"idle", "gone"} => me.g <= gen
  /\ me.pc \in {"copy", "check", "read", "done", "missed"} => me.id \in Experts
  /\ me.pc = "check" /\ ~Late(l) => me.s = set
  /\ me.pc \in {"read", "done"} /\ ~Late(l) =>
       <<me.id, me.g + 1>> \in strays \/ (me.o = me.g /\ me.g = JobOf(me.s))
  /\ me.pc = "done" /\ ~Late(l) => Strayed(me.id, me.g) \/ slot[me.s][me.id] = me.g

(* What counts as landed has, and a stage that is waited for has what it   *)
(* does not wait for.                                                      *)
Arrived(i) == slot[set][i] = gen \/ Strayed(i, gen)

Landed ==
  /\ mpc \in {"router", "finish"} => \A i \in Experts : Array[i] = "landed" => Arrived(i)
  /\ mpc = "finish" =>
       /\ \A j \in DOMAIN need : j <= at => Arrived(need[j])
       /\ \A i \in wanted : Arrived(i) \/ \E j \in DOMAIN need : at < j /\ need[j] = i

ReaderInv == TypeOK /\ Published /\ (\A l \in Lanes : LaneFits(l)) /\ Landed
               /\ KernelsReadTheirLayer

(* The inductive invariant from which ReadOnce follows: an expert that has *)
(* been taken for the current job is not untouched, and of the lanes on    *)
(* their way to read for the current job each has an expert of its own,    *)
(* which nobody has begun to read.                                         *)
ReadsFor(l) == lane[l].pc \in {"copy", "check"} /\ lane[l].g = gen

ClaimInv ==
  /\ \A i \in begun : Array[i] # "untouched"
  /\ \A l \in Lanes : ReadsFor(l) => Array[lane[l].id] # "untouched" /\ lane[l].id \notin begun
  /\ \A l, m \in Lanes : ReadsFor(l) /\ ReadsFor(m) /\ l # m => lane[l].id # lane[m].id
=============================================================================
