-------------------------- MODULE MCTensorParallel --------------------------
(* Small pairs: healthy, with faults, and with a leader that fails alone.  *)
EXTENDS TensorParallel

CONSTANTS s1, s2

Lockstep ==
  [use |-> {s1, s2}, ops |-> {"SYNC", "EVAL", "BATCH", "VERIFY", "INVALIDATE"},
   prompts |-> {<<"a">>, <<"a", "b">>}, tokens |-> {"b", "c"}, most |-> 3, room |-> 4,
   faults |-> {}, crashes |-> FALSE, slow |-> FALSE]

Faulty ==
  [Lockstep EXCEPT !.ops = {"SYNC", "EVAL", "BATCH"}, !.tokens = {"b"},
                   !.faults = {"SYNC"}, !.crashes = TRUE, !.slow = TRUE]

(* Nothing fails but the worker as a whole.                                *)
Mortal ==
  [Lockstep EXCEPT !.ops = {"SYNC", "EVAL", "BATCH", "INVALIDATE"}, !.tokens = {"b"},
                   !.crashes = TRUE]

(* One session only: the next command notices what the leader left unread. *)
Single ==
  [Lockstep EXCEPT !.use = {s1}, !.ops = {"SYNC", "EVAL", "VERIFY"}, !.most = 4,
                   !.faults = {"EVAL", "VERIFY"}]

LeaderFails ==
  [Lockstep EXCEPT !.ops = {"SYNC", "EVAL"}, !.prompts = {<<"a">>}, !.tokens = {"b"},
                   !.most = 4, !.faults = {"EVAL"}]

WorkerDies ==
  [Lockstep EXCEPT !.ops = {"SYNC", "VERIFY"}, !.prompts = {<<"a">>}, !.tokens = {"b"},
                   !.most = 2, !.crashes = TRUE]

Pairs == {Lockstep, Faulty, Mortal, Single}
EvalPairs == {LeaderFails}
VerifyPairs == {WorkerDies}
=============================================================================
