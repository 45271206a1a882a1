--------------------------- MODULE MCAgentWorker ---------------------------
(* The two headless front ends; and the terminal, once with prompts that    *)
(* queue up behind a turn, once with work deferred to the worker, and twice *)
(* with the commands the front end runs itself.                             *)
EXTENDS AgentWorker

Setting(mode, commands, prompts) ==
  [mode |-> mode, commands |-> commands, prompts |-> prompts, fails |-> TRUE]

FrontEnds ==
  {Setting("stdin", {}, 3), Setting("oneshot", {}, 1),
   Setting("terminal", {"edit", "exit"}, 3),
   Setting("terminal", {"power", "think", "compact", "exit"}, 1),
   Setting("terminal", {"save", "quit", "exit"}, 2),
   Setting("terminal", {"new", "switch", "steer", "compact", "exit"}, 1)}
=============================================================================
