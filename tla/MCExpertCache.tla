---------------------------- MODULE MCExpertCache ----------------------------
(* Small settings of the expert cache, two layers of three experts.  A token  *)
(* needs four; a budget of three makes every layer replace.                   *)
EXTENDS ExpertCache

Service == [budget |-> 4, flow |-> "service", early |-> TRUE, gather |-> FALSE,
            ahead |-> FALSE, batch |-> FALSE, fails |-> TRUE]
Mailbox == [budget |-> 3, flow |-> "mailbox", early |-> FALSE, gather |-> FALSE,
            ahead |-> FALSE, batch |-> TRUE, fails |-> TRUE]
Tight == [Service EXCEPT !.budget = 3, !.fails = FALSE]
Guessing == [Mailbox EXCEPT !.ahead = TRUE]
Holding == [Mailbox EXCEPT !.gather = TRUE, !.batch = FALSE, !.fails = FALSE]

Schedules == {Service, Guessing, Holding, Tight}

\* Settings under which a property fails.
OneScan == {[Service EXCEPT !.budget = 2, !.batch = TRUE, !.fails = FALSE]}
BelowOneToken == {Tight}
HoldingFails == {[Holding EXCEPT !.fails = TRUE]}
MailboxFails == {Mailbox}
=============================================================================
