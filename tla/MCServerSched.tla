--------------------------- MODULE MCServerSched ----------------------------
(* Small instances of ServerSched for TLC. *)
EXTENDS ServerSched

CONSTANTS j1, j2, j3

\* j3 continues the tool calls of j1; j1 and j2 are fresh requests.
MCContinues == [j \in Job |-> IF j = j3 THEN j1 ELSE NoJob]

SlotSymmetry == Permutations(Slot)
=============================================================================
