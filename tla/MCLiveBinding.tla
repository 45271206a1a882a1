---------------------------- MODULE MCLiveBinding ----------------------------
(* Small instances of LiveBinding: conversations that open alike or not.      *)
EXTENDS LiveBinding

CONSTANTS a, b

\* Tool calls are rewritten in canonical form; the backend rewinds.
Rewritten == [apis |-> Api, opening |-> {<<a>>, <<b>>, <<a, b>>}, say |-> {a, b},
              exact |-> FALSE, rewind |-> TRUE, tokens |-> 6, max |-> 2]

\* Tool calls are replayed exactly.
Replayed == [apis |-> {"responses", "chat"}, opening |-> {<<a>>, <<b>>}, say |-> {a},
             exact |-> TRUE, rewind |-> FALSE, tokens |-> 4, max |-> 3]

\* A conversation whose prefix is as long as another one.
Crossing == [apis |-> {"responses"}, opening |-> {<<a>>, <<b, a, b>>}, say |-> {a, b},
             exact |-> TRUE, rewind |-> FALSE, tokens |-> 5, max |-> 3]

Both == {Rewritten, Replayed}
CrossingOnly == {Crossing}

==============================================================================
