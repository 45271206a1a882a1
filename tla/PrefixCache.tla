----------------------------- MODULE PrefixCache -----------------------------
(* What the disk cache promises its user: a lossy table from texts to token   *)
(* histories, per model.  It may forget anything at any time, a power loss    *)
(* included; it never returns what was not stored under that very text.       *)
EXTENDS Naturals, Sequences

CONSTANTS
  Pair,      \* <<text, history>>: the token histories that a text stands for
  Model,     \* models that share the directory
  None

VARIABLES
  table,   \* <<model, text>> -> history
  hit      \* the last answer: [model, text, history], or None

pcVars == <<table, hit>>

Init == DOMAIN table = {} /\ hit = None

\* Entries may be forgotten, one may be stored.
Keeps(t) == \A k \in DOMAIN t : k \in DOMAIN table /\ t[k] = table[k]

Forget == Keeps(table') /\ UNCHANGED hit

Store ==
  \E m \in Model, p \in Pair :
    LET k == <<m, p[1]>> IN
    /\ k \in DOMAIN table' /\ table'[k] = p[2]
    /\ \A l \in DOMAIN table' \ {k} : l \in DOMAIN table /\ table'[l] = table[l]
    /\ UNCHANGED hit

Hit ==
  \E k \in DOMAIN table :
    hit' = [model |-> k[1], text |-> k[2], history |-> table[k]] /\ UNCHANGED table

Miss == hit' = None /\ Keeps(table')

Next == Forget \/ Store \/ Hit \/ Miss

Spec == Init /\ [][Next]_pcVars
==============================================================================
