--------------------------- MODULE MCDistSession ---------------------------
(* Small instances of a distributed session: chunk by chunk two prompts that  *)
(* fork, pipelined one of two chunks.                                         *)
EXTENDS DistSession

Fork == {<<"a", "b">>, <<"b", "b">>}
Chunked == [pipeline |-> FALSE, cache |-> TRUE, prompts |-> Fork, left |-> 1]
Piped == [pipeline |-> TRUE, cache |-> FALSE, prompts |-> {<<"a", "b">>}, left |-> 1]
Both == {Chunked, Piped}

(* Settings under which a property fails.                                     *)
LongPipe == {[Piped EXCEPT !.prompts = {<<"a">>, <<"a", "b", "a">>}]}
Uncached == {[Chunked EXCEPT !.cache = FALSE]}
CachedPipe == {[Piped EXCEPT !.cache = TRUE, !.prompts = {<<"a">>, <<"a", "b", "a">>}]}
=============================================================================
