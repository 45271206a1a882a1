---------------------------- MODULE DistRegistry ----------------------------
(***************************************************************************)
(* The coordinator's registry of workers (ds4_distributed.c): one detached *)
(* thread per accepted connection registers the worker, watches the        *)
(* connection and removes the entry; the session plans routes from the     *)
(* registry and, when a route failed, forgets its workers.                 *)
(*                                                                         *)
(* Descriptors are numbers the system hands out again after close, the     *)
(* lowest free one first, which is what the ownership properties are about.*)
(***************************************************************************)
EXTENDS Integers, Sequences, SequencesExt, FiniteSets

CONSTANTS
  Workers,    \* worker processes
  Offer,      \* Offer[w]: what its HELLO says, [host, from, to, output, hidden]
  LocalEnd,   \* last layer the coordinator evaluates itself
  LastLayer,  \* last layer of the model
  LocalHead,  \* the coordinator can evaluate the output head
  Fds,        \* descriptor numbers, an interval from 1
  MaxConns,   \* bound on the connections ever accepted
  MaxForgets  \* bound on the routes that fail and are forgotten

ASSUME RegistryAssumption ==
  /\ LocalEnd \in Nat /\ LastLayer \in Nat /\ LocalEnd < LastLayer /\ LocalHead \in BOOLEAN
  /\ MaxConns \in Nat /\ MaxForgets \in Nat
  /\ IsFiniteSet(Fds) /\ Fds = 1..Cardinality(Fds)
  /\ \A w \in Workers :
       /\ Offer[w].from \in Nat /\ Offer[w].to \in Nat
       /\ Offer[w].output \in BOOLEAN /\ Offer[w].hidden \in BOOLEAN
       /\ Offer[w].from <= Offer[w].to /\ Offer[w].to <= LastLayer
       /\ Offer[w].output => Offer[w].to = LastLayer

Conns == 1..MaxConns

VARIABLES
  fds,       \* fds[f]: the connection descriptor f names, 0 when it is free
  who,       \* who[c]: the worker at the other end of connection c
  current,   \* current[w]: the connection worker w is on, or 0
  thread,    \* thread[c]: descriptor and place of the thread of connection c
  entries,   \* state->workers
  generation,\* state->generation
  plan,      \* d->plan with d->plan_generation and d->plan_ready
  forgotten  \* routes forgotten so far

vars == <<fds, who, current, thread, entries, generation, plan, forgotten>>

NoPlan == [ready |-> FALSE, gen |-> 0, path |-> <<>>, fd |-> 0]
Away == [fd |-> 0, pc |-> "none"]

Init ==
  /\ fds = [f \in Fds |-> 0] /\ who = <<>>
  /\ current = [w \in Workers |-> 0]
  /\ thread = [c \in Conns |-> Away]
  /\ entries = {} /\ generation = 0 /\ plan = NoPlan /\ forgotten = 0

-----------------------------------------------------------------------------
(* Routes. *)

(* dist_worker_route_candidate_ok *)
CandidateOk(w) ==
  LET o == Offer[w] IN
  /\ o.to < LastLayer \/ ~o.output => o.hidden
  /\ o.to >= LastLayer /\ ~o.output => LocalHead

Candidates(ws, n) == {w \in ws : Offer[w].from = n /\ CandidateOk(w)}

(* dist_worker_route_cmp among workers that start at the same layer. *)
Before(v, w) == \/ Offer[v].output /\ ~Offer[w].output
                \/ Offer[v].output = Offer[w].output /\ Offer[v].to > Offer[w].to

Ends(w) == Offer[w].to >= LastLayer

(* Mutant: the first candidate is taken, without going back on it. *)
PathsGreedy(ws) ==
  LET from[n \in 0..LastLayer] ==
        LET good == Candidates(ws, n)
            best == {w \in good : \A v \in good : ~Before(v, w)}
        IN UNION {IF Ends(w) THEN {<<w>>}
                  ELSE {<<w>> \o p : p \in from[Offer[w].to + 1]} : w \in best}
  IN from[LocalEnd + 1]

(* dist_route_search_workers: the first candidate, in that order, from     *)
(* which the search goes on to the last layer, given what it finds from    *)
(* later layers on; qsort may order equals any way, so there is a set of   *)
(* answers, empty when there is no route.                                  *)
Search(ws, from, n) ==
  LET good == {w \in Candidates(ws, n) : Ends(w) \/ from[Offer[w].to + 1] # {}}
      best == {w \in good : \A v \in good : ~Before(v, w)}
  IN UNION {IF Ends(w) THEN {<<w>>}
            ELSE {<<w>> \o p : p \in from[Offer[w].to + 1]} : w \in best}

Paths(ws) ==
  LET from[n \in 0..LastLayer] == Search(ws, from, n)
  IN from[LocalEnd + 1]

Registered == {e.who : e \in entries}

-----------------------------------------------------------------------------
(* Connections and their threads. *)

Lowest(table) == {f \in Fds : table[f] = 0 /\ \A g \in Fds : table[g] = 0 => f <= g}

(* dist_coordinator_accept_main *)
Connect(w) ==
  /\ current[w] = 0 /\ Len(who) < MaxConns
  /\ LET c == Len(who) + 1 IN
     \E f \in Lowest(fds) :
       /\ fds' = [fds EXCEPT ![f] = c]
       /\ thread' = [thread EXCEPT ![c] = [fd |-> f, pc |-> "hello"]]
       /\ current' = [current EXCEPT ![w] = c]
  /\ who' = Append(who, w)
  /\ UNCHANGED <<entries, generation, plan, forgotten>>

(* A worker goes away, or sees its connection closed by the coordinator.   *)
Leave(w) ==
  /\ current[w] # 0 /\ current' = [current EXCEPT ![w] = 0]
  /\ UNCHANGED <<fds, who, thread, entries, generation, plan, forgotten>>

Same(v, w) == /\ Offer[v].host = Offer[w].host /\ Offer[v].from = Offer[w].from
              /\ Offer[v].to = Offer[w].to /\ Offer[v].output = Offer[w].output

Goes(c, pc) == thread' = [thread EXCEPT ![c].pc = pc]

(* dist_coordinator_add_worker: an entry of the same host and layers is    *)
(* replaced, its connection left to its own thread.                        *)
AddWorker(c) ==
  /\ thread[c].pc = "hello" /\ fds[thread[c].fd] = c
  /\ entries' = {e \in entries : ~Same(e.who, who[c])}
                  \union {[fd |-> thread[c].fd, who |-> who[c]]}
  /\ generation' = generation + 1 /\ Goes(c, "monitor")
  /\ UNCHANGED <<fds, who, current, plan, forgotten>>

Gone(c) == current[who[c]] # c

(* No HELLO comes, or the descriptor is not this connection any more.      *)
HelloFails(c) ==
  /\ thread[c].pc = "hello" /\ (fds[thread[c].fd] # c \/ Gone(c))
  /\ Goes(c, "close")
  /\ UNCHANGED <<fds, who, current, entries, generation, plan, forgotten>>

(* Mutant: the connection is closed with its entry still there. *)
NoticeCloses(c) ==
  /\ thread[c].pc = "monitor"
  /\ LET at == fds[thread[c].fd] IN at = 0 \/ (at # 0 /\ Gone(at))
  /\ Goes(c, "close")
  /\ UNCHANGED <<fds, who, current, entries, generation, plan, forgotten>>

(* dist_coordinator_monitor_worker_fd: poll answers POLLNVAL for a closed  *)
(* descriptor and POLLHUP when the peer of whatever it names has left.     *)
Notice(c) ==
  /\ thread[c].pc = "monitor"
  /\ LET at == fds[thread[c].fd] IN at = 0 \/ (at # 0 /\ Gone(at))
  /\ Goes(c, "remove")
  /\ UNCHANGED <<fds, who, current, entries, generation, plan, forgotten>>

(* dist_coordinator_remove_worker looks for the descriptor number.         *)
Owned(c) == {e \in entries : e.fd = thread[c].fd}

Counted(removed) == generation' = generation + (IF removed = {} THEN 0 ELSE 1)

RemoveWorker(c) ==
  /\ thread[c].pc = "remove"
  /\ entries' = entries \ Owned(c) /\ Counted(Owned(c))
  /\ Goes(c, "close")
  /\ UNCHANGED <<fds, who, current, plan, forgotten>>

Close(c) ==
  /\ thread[c].pc = "close"
  /\ fds' = [fds EXCEPT ![thread[c].fd] = 0]
  /\ Goes(c, "gone")
  /\ UNCHANGED <<who, current, entries, generation, plan, forgotten>>

-----------------------------------------------------------------------------
(* The session. *)

Freed(table) == IF plan.fd = 0 THEN table ELSE [table EXCEPT ![plan.fd] = 0]

(* dist_session_ensure_route and dist_coordinator_build_route_plan: the     *)
(* first hop's descriptor is duplicated for the plan, which fails when the  *)
(* number is not open; without a route or a descriptor there is no plan.    *)
Hops(table) == {h \in Paths(Registered) \X entries :
                  h[2].who = h[1][1] /\ table[h[2].fd] # 0}

Ensure ==
  /\ ~(plan.ready /\ plan.gen = generation)
  /\ LET table == Freed(fds)
     IN \/ \E h \in Hops(table) : \E f \in Lowest(table) :
             /\ fds' = [table EXCEPT ![f] = table[h[2].fd]]
             /\ plan' = [ready |-> TRUE, gen |-> generation, path |-> h[1], fd |-> f]
        \/ /\ Hops(table) = {} \/ Lowest(table) = {}
           /\ fds' = table /\ plan' = NoPlan
  /\ UNCHANGED <<who, current, thread, entries, generation, forgotten>>

(* dist_coordinator_forget_route_workers closes the descriptors of the     *)
(* entries it drops; their threads still have the numbers.                 *)
Forget ==
  /\ plan.ready /\ forgotten < MaxForgets /\ forgotten' = forgotten + 1
  /\ LET dropped == {e \in entries : \E i \in DOMAIN plan.path : Same(e.who, plan.path[i])}
         closed == [f \in Fds |-> IF \E e \in dropped : e.fd = f THEN 0 ELSE fds[f]]
     IN entries' = entries \ dropped /\ Counted(dropped) /\ fds' = Freed(closed)
  /\ plan' = NoPlan
  /\ UNCHANGED <<who, current, thread>>

Next ==
  \/ \E w \in Workers : Connect(w) \/ Leave(w)
  \/ \E c \in 1..Len(who) : \/ AddWorker(c) \/ HelloFails(c) \/ Notice(c)
                            \/ RemoveWorker(c) \/ Close(c)
  \/ Ensure \/ Forget

Spec == Init /\ [][Next]_vars

-----------------------------------------------------------------------------
(* A plan of the current generation names registered workers only: every   *)
(* change of the registry is counted (state->generation, read by           *)
(* dist_session_ensure_route).                                             *)
PlanIsCurrent ==
  plan.ready /\ plan.gen = generation => Range(plan.path) \subseteq Registered

NamesItsWorker(e) == fds[e.fd] # 0 /\ who[fds[e.fd]] = e.who

(* Until a route is forgotten, an entry's descriptor is open and leads to  *)
(* the worker it was entered for, no worker is entered twice, and a plan's *)
(* descriptor leads to the worker the plan begins with, however often the  *)
(* numbers are handed out again: a thread removes its entry before it      *)
(* closes, and closes nothing else.                                        *)
EntryNamesItsWorker ==
  forgotten = 0 =>
    /\ \A e \in entries : NamesItsWorker(e)
    /\ \A d, e \in entries : Same(d.who, e.who) => d = e
    /\ plan.ready /\ fds[plan.fd] # 0 => who[fds[plan.fd]] = plan.path[1]

(* Both, as the run checks it: what a plan and the registry say of the     *)
(* workers that are connected is true.                                     *)
RegistryHolds == PlanIsCurrent /\ EntryNamesItsWorker

(* The same at any time ("remove their registry entries after the socket   *)
(* closes", 5496).                                                         *)
EntriesNameWorkers == \A e \in entries : NamesItsWorker(e)

(* What a route is: ranges that follow one another from the first remote   *)
(* layer to the last, each able to do its part.                            *)
IsRoute(p, ws) ==
  /\ p # <<>> /\ Range(p) \subseteq ws
  /\ Offer[p[1]].from = LocalEnd + 1 /\ Ends(p[Len(p)])
  /\ \A i \in DOMAIN p : CandidateOk(p[i])
  /\ \A i \in 1..Len(p) - 1 : Offer[p[i + 1]].from = Offer[p[i]].to + 1

(* The search finds a route exactly when there is one, whatever subset of  *)
(* overlapping ranges is registered.                                       *)
SearchFindsRoute ==
  /\ \A p \in Paths(Registered) : IsRoute(p, Registered)
  /\ (\E p \in BoundedSeq(Registered, LastLayer - LocalEnd) : IsRoute(p, Registered))
       => Paths(Registered) # {}
-----------------------------------------------------------------------------
(* The inductive invariant.                                                *)

TypeOK ==
  /\ fds \in [Fds -> 0..Len(who)] /\ who \in Seq(Workers) /\ Len(who) <= MaxConns
  /\ current \in [Workers -> 0..Len(who)]
  /\ thread \in [Conns -> [fd : Fds \cup {0},
                           pc : {"none", "hello", "monitor", "remove", "close", "gone"}]]
  /\ entries \subseteq [fd : Fds, who : Workers]
  /\ generation \in Nat /\ forgotten \in Nat
  /\ plan \in [ready : BOOLEAN, gen : Nat, path : Seq(Workers), fd : Fds \cup {0}]

(* A connection's thread has a descriptor until it closes it.              *)
Holds(c) == thread[c].pc \in {"hello", "monitor", "remove", "close"}
Started == \A c \in 1..Len(who) : thread[c].fd \in Fds /\ thread[c].pc # "none"

(* A plan is ready and has a descriptor, or is not and has none; it was    *)
(* made of the registry of its generation.                                 *)
PlanMade ==
  /\ plan.ready <=> plan.fd \in Fds
  /\ plan.gen <= generation
  /\ PlanIsCurrent

(* Until a route is forgotten: the descriptor of a thread names its        *)
(* connection and is not the plan's, an entry is that of a thread that     *)
(* will remove it, and the plan's descriptor leads to its first worker.    *)
Owners ==
  forgotten = 0 =>
    /\ \A c \in 1..Len(who) : Holds(c) => fds[thread[c].fd] = c /\ thread[c].fd # plan.fd
    /\ \A e \in entries : \E c \in 1..Len(who) :
         thread[c].pc \in {"monitor", "remove"} /\ thread[c].fd = e.fd /\ who[c] = e.who
    /\ \A d, e \in entries : Same(d.who, e.who) => d = e
    /\ plan.ready => fds[plan.fd] # 0 /\ who[fds[plan.fd]] = plan.path[1]

RegistryInv == TypeOK /\ Started /\ PlanMade /\ Owners
=============================================================================
