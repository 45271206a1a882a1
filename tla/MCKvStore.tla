------------------------------ MODULE MCKvStore ------------------------------
(* A small instance of KvStore: histories that extend one another, one of     *)
(* them with a hidden thought.                                                *)
EXTENDS KvStore

CONSTANTS a, b

OneEngine == {[model |-> "flash", ctx |-> 4]}
Engines == OneEngine \cup {[model |-> "flash", ctx |-> 2], [model |-> "pro", ctx |-> 4]}
TwoHistories == {<<a>>, <<a, Thought, b>>}
OnePrompt == {<<a, b, a>>}
Histories == {<<a>>, <<a, Thought, b>>, <<b, a>>}
Prompts == {<<a, b, a>>, <<b, a, a>>}

==============================================================================
