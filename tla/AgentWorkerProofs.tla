------------------------- MODULE AgentWorkerProofs -------------------------
(***************************************************************************)
(* The coding agent, for every front end, set of commands and number of    *)
(* prompts: worker and front end do not use the session together, and no   *)
(* prompt is lost, doubled or overtaken on its way to the transcript.      *)
(***************************************************************************)
EXTENDS AgentWorker, SequenceTheorems, WellFoundedInduction, TLAPS

(***************************************************************************)
(* The inductive invariant.  The front end goes by the status alone, so    *)
(* the status has to say "busy" from the submission of a prompt to the end *)
(* of its turn, also while the prompt waits to be taken; and what the      *)
(* front end found at rest has to stay so until it is done, because nobody *)
(* else submits.                                                           *)
(***************************************************************************)

Resting == {"booted", "wait", "jobs", "ending", "gone"}
Working == {"turn", "before", "append", "appending", "round", "prefill", "generate",
            "tool", "ask", "commit", "drain", "draining", "compacting", "acknowledge",
            "publish", "error"}
AtRest == wpc \in Resting /\ cmd = <<>>

\* The worker, as long as nothing has been deferred to it.
StatusTells ==
  /\ want = {}
  /\ wpc \in Resting \cup Working \cup {"boot"}
  /\ wpc = "compacting" => ret \in Working \ {"compacting"}
  /\ state = "stopped" => wpc = "gone"
  /\ initialized => wpc \notin {"boot", "booted"}
  /\ wpc = "boot" => state = "idle"
  /\ wpc \in Working => state = "busy"
  /\ cmd # <<>> => wpc \in Resting /\ initialized /\ state \in {"busy", "stopped"}

\* The front end between its look at the status and the end of its work.
FrontHolds ==
  /\ upc \in {"save", "new", "new_sync", "new_end", "steer", "reset"} => AtRest
  /\ upc \in {"unsaved", "may_save"} /\ then = "new" => AtRest
  /\ upc \in {"unsaved", "may_save", "save"} =>
       then \in {"save", "new", "switch", "quit", "exit"}

IInv == ~deferred => StatusTells /\ FrontHolds

(***************************************************************************)
(* Every step keeps it: first the worker's, then the front end's.          *)
(***************************************************************************)

\* A step of the worker.
LEMMA WorkerKeeps ==
  ASSUME IInv, WorkerStep
  PROVE  IInv'
<1>1. CASE Boot
  BY <1>1 DEF Boot, Publish, IInv, StatusTells, FrontHolds, AtRest, Resting, Working,
    flagVars, wantVars, turnVars, uiVars
<1>2. CASE Booted
  BY <1>2 DEF Booted, IInv, StatusTells, FrontHolds, AtRest, Resting, Working, flagVars,
    wantVars, turnVars, uiVars
<1>3. CASE Sleep
  BY <1>3 DEF Sleep, IInv, StatusTells, FrontHolds, AtRest, Resting, Working, flagVars,
    wantVars, turnVars, uiVars
<1>4. CASE Awake
  BY <1>4 DEF Awake, FirstJob, Awaited, IInv, StatusTells, FrontHolds, AtRest, Resting,
    Working, flagVars, wantVars, turnVars, uiVars
<1>5. CASE End
  BY <1>5 DEF End, Publish, IInv, StatusTells, FrontHolds, AtRest, Resting, Working,
    flagVars, wantVars, turnVars, uiVars
<1>6. CASE TakeThink
  BY <1>6 DEF TakeThink, IInv, StatusTells, FrontHolds, AtRest, Resting, Working,
    flagVars, wantVars, turnVars, uiVars
<1>7. CASE Think
  BY <1>7 DEF Think, Publish, IInv, StatusTells, FrontHolds, AtRest, Resting, Working,
    flagVars, wantVars, turnVars, uiVars
<1>8. CASE TakeJob
  BY <1>8 DEF TakeJob, IInv, StatusTells, FrontHolds, AtRest, Resting, Working,
    flagVars, wantVars, turnVars, uiVars
<1>9. CASE Power
  BY <1>9 DEF Power, Over, IInv, StatusTells, FrontHolds, AtRest, Resting, Working,
    flagVars, wantVars, turnVars, uiVars
<1>10. CASE SaveBegins
  BY <1>10 DEF SaveBegins, Publish, IInv, StatusTells, FrontHolds, AtRest, Resting,
    Working, flagVars, wantVars, turnVars, uiVars
<1>11. CASE SaveEnds
  BY <1>11 DEF SaveEnds, IInv, StatusTells, FrontHolds, AtRest, Resting, Working,
    flagVars, wantVars, turnVars, uiVars
<1>12. CASE CompactBegins
  BY <1>12 DEF CompactBegins, Over, Publish, IInv, StatusTells, FrontHolds, AtRest,
    Resting, Working, flagVars, wantVars, turnVars, uiVars
<1>13. CASE Turn
  BY <1>13 DEF Turn, IInv, StatusTells, FrontHolds, AtRest, Resting, Working, flagVars,
    wantVars, turnVars, uiVars
<1>14. CASE TurnCompacts
  BY <1>14 DEF TurnCompacts, Publish, Onward, IInv, StatusTells, FrontHolds, AtRest,
    Resting, Working, flagVars, wantVars, turnVars, uiVars
<1>15. CASE TurnHasRoom
  BY <1>15 DEF TurnHasRoom, Onward, IInv, StatusTells, FrontHolds, AtRest, Resting,
    Working, flagVars, wantVars, turnVars, uiVars
<1>16. CASE CompactEnds
  BY <1>16 DEF CompactEnds, IInv, StatusTells, FrontHolds, AtRest, Resting, Working,
    flagVars, wantVars, turnVars, uiVars
<1>17. CASE AppendUser
  BY <1>17 DEF AppendUser, IInv, StatusTells, FrontHolds, AtRest, Resting, Working,
    flagVars, wantVars, turnVars, uiVars
<1>18. CASE Prefill
  BY <1>18 DEF Prefill, Publish, IInv, StatusTells, FrontHolds, AtRest, Resting,
    Working, flagVars, wantVars, turnVars, uiVars
<1>19. CASE Generate
  BY <1>19 DEF Generate, Publish, IInv, StatusTells, FrontHolds, AtRest, Resting,
    Working, flagVars, wantVars, turnVars, uiVars
<1>20. CASE Tool
  BY <1>20 DEF Tool, IInv, StatusTells, FrontHolds, AtRest, Resting, Working, flagVars,
    wantVars, turnVars, uiVars
<1>21. CASE Approved
  BY <1>21 DEF Approved, IInv, StatusTells, FrontHolds, AtRest, Resting, Working,
    flagVars, wantVars, turnVars, uiVars
<1>22. CASE RequestDrain
  BY <1>22 DEF RequestDrain, IInv, StatusTells, FrontHolds, AtRest, Resting, Working,
    flagVars, wantVars, turnVars, uiVars
<1>23. CASE Drained
  BY <1>23 DEF Drained, IInv, StatusTells, FrontHolds, AtRest, Resting, Working,
    flagVars, wantVars, turnVars, uiVars
<1>24. CASE Acknowledge
  BY <1>24 DEF Acknowledge, IInv, StatusTells, FrontHolds, AtRest, Resting, Working,
    flagVars, wantVars, turnVars, uiVars
<1>25. CASE PublishIdle
  BY <1>25 DEF PublishIdle, Publish, Over, IInv, StatusTells, FrontHolds, AtRest,
    Resting, Working, flagVars, wantVars, turnVars, uiVars
<1>26. CASE Error
  BY <1>26 DEF Error, Publish, Over, IInv, StatusTells, FrontHolds, AtRest, Resting,
    Working, flagVars, wantVars, turnVars, uiVars
<1>27. QED
  BY <1>1, <1>2, <1>3, <1>4, <1>5, <1>6, <1>7, <1>8, <1>9, <1>10, <1>11, <1>12, <1>13,
    <1>14, <1>15, <1>16, <1>17, <1>18, <1>19, <1>20, <1>21, <1>22, <1>23, <1>24, <1>25,
    <1>26 DEF WorkerStep

\* A step of the front end.
LEMMA FrontKeeps ==
  ASSUME IInv, UiStep
  PROVE  IInv'
<1>1. CASE Consume
  BY <1>1 DEF Consume, IInv, StatusTells, FrontHolds, AtRest, Resting, Working,
    flagVars, wantVars, turnVars, uiVars, UiKeeps
<1>2. CASE ResetError
  BY <1>2 DEF ResetError, IInv, StatusTells, FrontHolds, AtRest, Resting, Working,
    flagVars, wantVars, turnVars, uiVars, UiKeeps
<1>3. CASE TakeDrain
  BY <1>3 DEF TakeDrain, AfterDrain, IInv, StatusTells, FrontHolds, AtRest, Resting,
    Working, flagVars, wantVars, turnVars, uiVars, UiKeeps
<1>4. CASE AnswerDrain
  BY <1>4 DEF AnswerDrain, AfterDrain, IInv, StatusTells, FrontHolds, AtRest, Resting,
    Working, flagVars, wantVars, turnVars, uiVars, UiKeeps
<1>5. CASE SubmitQueue
  BY <1>5 DEF SubmitQueue, Submit, CanSubmit, IInv, StatusTells, FrontHolds, AtRest,
    Resting, Working, flagVars, wantVars, turnVars, uiVars, UiKeeps
<1>6. CASE Offer
  BY <1>6 DEF Offer, Submit, CanSubmit, IInv, StatusTells, FrontHolds, AtRest, Resting,
    Working, flagVars, wantVars, turnVars, uiVars, UiKeeps
<1>7. CASE Top
  BY <1>7 DEF Top, IInv, StatusTells, FrontHolds, AtRest, Resting, Working, flagVars,
    wantVars, turnVars, uiVars, UiKeeps
<1>8. CASE Poll
  BY <1>8 DEF Poll, IInv, StatusTells, FrontHolds, AtRest, Resting, Working, flagVars,
    wantVars, turnVars, uiVars, UiKeeps
<1>9. CASE TakeInput
  BY <1>9 DEF TakeInput, IInv, StatusTells, FrontHolds, AtRest, Resting, Working,
    flagVars, wantVars, turnVars, uiVars, UiKeeps
<1>10. CASE LeaveInput
  BY <1>10 DEF LeaveInput, IInv, StatusTells, FrontHolds, AtRest, Resting, Working,
    flagVars, wantVars, turnVars, uiVars, UiKeeps
<1>11. CASE Check
  BY <1>11 DEF Check, IInv, StatusTells, FrontHolds, AtRest, Resting, Working, flagVars,
    wantVars, turnVars, uiVars, UiKeeps
<1>12. CASE Keys
  BY <1>12 DEF Keys, IInv, StatusTells, FrontHolds, AtRest, Resting, Working, flagVars,
    wantVars, turnVars, uiVars, UiKeeps
<1>13. CASE Interrupt
  BY <1>13 DEF Interrupt, IInv, StatusTells, FrontHolds, AtRest, Resting, Working,
    flagVars, wantVars, turnVars, uiVars, UiKeeps
<1>14. CASE TakeApproval
  BY <1>14 DEF TakeApproval, IInv, StatusTells, FrontHolds, AtRest, Resting, Working,
    flagVars, wantVars, turnVars, uiVars, UiKeeps
<1>15. CASE AnswerApproval
  BY <1>15 DEF AnswerApproval, IInv, StatusTells, FrontHolds, AtRest, Resting, Working,
    flagVars, wantVars, turnVars, uiVars, UiKeeps
<1>16. CASE Line
  BY <1>16 DEF Line, IInv, StatusTells, FrontHolds, AtRest, Resting, Working, flagVars,
    wantVars, turnVars, uiVars, UiKeeps
<1>17. CASE EditQueued
  BY <1>17 DEF EditQueued, IInv, StatusTells, FrontHolds, AtRest, Resting, Working,
    flagVars, wantVars, turnVars, uiVars, UiKeeps
<1>18. CASE Request
  BY <1>18 DEF Request, IInv, StatusTells, FrontHolds, AtRest, Resting, Working,
    flagVars, wantVars, turnVars, uiVars, UiKeeps
<1>19. CASE Command
  BY <1>19 DEF Command, Idle, IInv, StatusTells, FrontHolds, AtRest, Resting, Working,
    flagVars, wantVars, turnVars, uiVars, UiKeeps
<1>20. CASE Unsaved
  BY <1>20 DEF Unsaved, Proceed, IInv, StatusTells, FrontHolds, AtRest, Resting,
    Working, flagVars, wantVars, turnVars, uiVars, UiKeeps
<1>21. CASE AskIdle
  BY <1>21 DEF AskIdle, Idle, SaveFailed, Proceed, IInv, StatusTells, FrontHolds,
    AtRest, Resting, Working, flagVars, wantVars, turnVars, uiVars, UiKeeps
<1>22. CASE SaveSession
  BY <1>22 DEF SaveSession, Proceed, SaveFailed, IInv, StatusTells, FrontHolds, AtRest,
    Resting, Working, flagVars, wantVars, turnVars, uiVars, UiKeeps
<1>23. CASE NewSession
  BY <1>23 DEF NewSession, Publish, IInv, StatusTells, FrontHolds, AtRest, Resting,
    Working, flagVars, wantVars, turnVars, uiVars, UiKeeps
<1>24. CASE NewSync
  BY <1>24 DEF NewSync, IInv, StatusTells, FrontHolds, AtRest, Resting, Working,
    flagVars, wantVars, turnVars, uiVars, UiKeeps
<1>25. CASE NewEnds
  BY <1>25 DEF NewEnds, Publish, IInv, StatusTells, FrontHolds, AtRest, Resting,
    Working, flagVars, wantVars, turnVars, uiVars, UiKeeps
<1>26. CASE Steer
  BY <1>26 DEF Steer, IInv, StatusTells, FrontHolds, AtRest, Resting, Working, flagVars,
    wantVars, turnVars, uiVars, UiKeeps
<1>27. CASE Leave
  BY <1>27 DEF Leave, IInv, StatusTells, FrontHolds, AtRest, Resting, Working, flagVars,
    wantVars, turnVars, uiVars, UiKeeps
<1>28. CASE Join
  BY <1>28 DEF Join, IInv, StatusTells, FrontHolds, AtRest, Resting, Working, flagVars,
    wantVars, turnVars, uiVars, UiKeeps
<1>29. QED
  BY <1>1, <1>2, <1>3, <1>4, <1>5, <1>6, <1>7, <1>8, <1>9, <1>10, <1>11, <1>12, <1>13,
    <1>14, <1>15, <1>16, <1>17, <1>18, <1>19, <1>20, <1>21, <1>22, <1>23, <1>24, <1>25,
    <1>26, <1>27, <1>28 DEF UiStep

\* Together, with the user's step and stuttering.
LEMMA SessionStep == IInv /\ [Next]_vars => IInv'
<1>1. SUFFICES ASSUME IInv, [Next]_vars
               PROVE  IInv'
  OBVIOUS
<1>2. CASE WorkerStep
  BY <1>1, <1>2, WorkerKeeps
<1>3. CASE UiStep
  BY <1>1, <1>3, FrontKeeps
<1>4. CASE User
  BY <1>1, <1>4 DEF User, UiKeeps, IInv, StatusTells, FrontHolds, AtRest, flagVars,
    wantVars, turnVars, uiVars
<1>5. CASE UNCHANGED vars
  BY <1>1, <1>5 DEF vars, IInv, StatusTells, FrontHolds, AtRest, flagVars, wantVars,
    turnVars, uiVars
<1>6. QED
  BY <1>1, <1>2, <1>3, <1>4, <1>5 DEF Next

\* Worker and front end never use the session at the same time, as long as no
\* command has deferred work to the worker (worker_submit, worker_is_idle,
\* worker_run_turn, run_agent).
THEOREM OneUserOfTheSessionCorrect == Spec => []OneUserOfTheSession
<1>1. Init => IInv
  BY DEF Init, IInv, StatusTells, FrontHolds, AtRest, Resting, Working
<1>2. IInv => OneUserOfTheSession
  BY DEF IInv, StatusTells, FrontHolds, AtRest, Resting, Working, OneUserOfTheSession,
         WorkerUses, FrontUses, InTurn
<1>3. QED
  BY <1>1, <1>2, SessionStep, PTL DEF Spec

-----------------------------------------------------------------------------
(* Sequences of prompts: what FlattenSeq, a recursive function, makes of a *)
(* queue, by induction over its length.                                    *)

\* A set of natural numbers that is not empty has a least element.
LEMMA LeastNatural ==
  ASSUME NEW T \in SUBSET Nat, T # {}
  PROVE  \E n \in T : \A m \in T : n <= m
<1> DEFINE R == OpToRel(<, Nat)
<1>1. IsWellFoundedOn(R, Nat)
  BY NatLessThanWellFounded
<1>2. ASSUME NEW m \in Nat, NEW n \in Nat, m < n PROVE <<m, n>> \in R
  BY <1>2 DEF OpToRel
<1> HIDE DEF R
<1>3. PICK n \in T : \A m \in T : ~(<<m, n>> \in R)
  BY <1>1, WFMin
<1>4. ASSUME NEW m \in T PROVE n <= m
  <2>1. m \in Nat /\ n \in Nat /\ <<m, n>> \notin R
    BY <1>3
  <2>2. ~(m < n)
    BY <1>2, <2>1
  <2>3. QED
    BY <2>1, <2>2
<1>5. QED
  BY <1>4

\* Induction over the places of a sequence.
LEMMA Upward ==
  ASSUME NEW n \in Nat, NEW H \in SUBSET (1..n),
         \A i \in 1..n : i = 1 \/ i - 1 \in H => i \in H
  PROVE  H = 1..n
<1> DEFINE T == (1..n) \ H
<1>1. T = {}
  <2>1. SUFFICES ASSUME T # {} PROVE FALSE
    OBVIOUS
  <2>2. T \in SUBSET Nat
    OBVIOUS
  <2>3. PICK k \in T : \A j \in T : k <= j
    BY <2>1, <2>2, LeastNatural
  <2>4. CASE k = 1
    BY <2>3, <2>4
  <2>5. CASE k # 1
    <3>1. k - 1 \in 1..n /\ ~(k <= k - 1)
      BY <2>3, <2>5
    <3>2. k - 1 \in H
      BY <2>3, <3>1
    <3>3. QED
      BY <2>3, <3>2
  <2>6. QED
    BY <2>4, <2>5
<1>2. QED
  BY <1>1

FlatStep(q, f, i) == IF i = 1 THEN q[i] ELSE f[i - 1] \o q[i]

\* FlattenSeq joins the sequences one by one.
LEMMA Flattened ==
  ASSUME NEW S, NEW q \in Seq(Seq(S)), q # <<>>
  PROVE  \E f : /\ FlattenSeq(q) = f[Len(q)]
                /\ \A i \in 1..Len(q) : f[i] = FlatStep(q, f, i)
<1> DEFINE n == Len(q)
           Good(k, f) == \A i \in 1..k : f[i] = FlatStep(q, f, i)
           H == {k \in 1..n : \E f : Good(k, f)}
<1>1. n \in Nat /\ n > 0
  <2>1. Len(q) = 0 => q = <<>>
    OBVIOUS
  <2>2. QED
    BY <2>1
<1>2. ASSUME NEW k \in 1..n, k = 1 \/ k - 1 \in H PROVE \E f : Good(k, f)
  <2>1. \E f : Good(k - 1, f)
    <3>1. CASE k = 1
      <4>1. 1..(k - 1) = {}
        BY <3>1
      <4>2. QED
        BY <4>1
    <3>2. CASE k # 1
      BY <1>2, <3>2
    <3>3. QED
      BY <3>1, <3>2
  <2>2. PICK f : \A i \in 1..(k - 1) : f[i] = FlatStep(q, f, i)
    BY <2>1
  <2> DEFINE h == [i \in 1..n |-> IF i = k THEN FlatStep(q, f, k) ELSE f[i]]
  <2>3. h[k] = FlatStep(q, f, k) /\ \A i \in 1..(k - 1) : h[i] = f[i]
    BY <1>1
  <2> HIDE DEF h
  <2>4. ASSUME NEW i \in 1..k PROVE h[i] = FlatStep(q, h, i)
    <3>1. i # 1 => i - 1 \in 1..(k - 1)
      BY <1>1
    <3>2. FlatStep(q, h, i) = FlatStep(q, f, i)
      BY <2>3, <3>1 DEF FlatStep
    <3>3. i = k \/ i \in 1..(k - 1)
      BY <1>1
    <3>4. QED
      BY <2>2, <2>3, <3>2, <3>3
  <2>5. QED
    BY <2>4
<1>3. n \in H
  <2>1. \A i \in 1..n : i = 1 \/ i - 1 \in H => i \in H
    BY <1>2
  <2> HIDE DEF H
  <2>2. H \in SUBSET (1..n)
    BY DEF H
  <2>3. H = 1..n
    BY <1>1, <2>1, <2>2, Upward
  <2>4. QED
    BY <1>1, <2>3
<1>4. PICK g : \A i \in 1..n : g[i] = FlatStep(q, g, i)
  BY <1>3
<1> DEFINE f == [i \in 1..n |-> g[i]]
<1>5. ASSUME NEW i \in 1..n PROVE f[i] = FlatStep(q, f, i)
  <2>1. i # 1 => i - 1 \in 1..n
    BY <1>1
  <2>2. FlatStep(q, f, i) = FlatStep(q, g, i)
    BY <2>1 DEF FlatStep
  <2>3. QED
    BY <1>4, <2>2
<1>6. f = [i \in 1..n |-> FlatStep(q, f, i)]
  BY <1>5
<1> HIDE DEF f
<1>7. \E flatten : flatten = [i \in 1..n |-> FlatStep(q, flatten, i)]
  BY <1>6
<1> DEFINE c == CHOOSE flatten : flatten = [i \in 1..n |-> FlatStep(q, flatten, i)]
<1>8. c = [i \in 1..n |-> FlatStep(q, c, i)]
  BY <1>7
<1>9. FlattenSeq(q) = c[n]
  BY <1>1 DEF FlattenSeq, FlatStep
<1> HIDE DEF c
<1>10. \A i \in 1..n : c[i] = FlatStep(q, c, i)
  BY <1>8
<1>11. QED
  BY <1>9, <1>10

\* An empty queue holds no text.
LEMMA FlattenNone == FlattenSeq(<<>>) = <<>>
<1>1. Len(<<>>) = 0
  OBVIOUS
<1>2. QED
  BY <1>1 DEF FlattenSeq

\* A queue flattens to a text,
LEMMA FlattenType ==
  ASSUME NEW S, NEW q \in Seq(Seq(S))
  PROVE  FlattenSeq(q) \in Seq(S)
<1>1. CASE q = <<>>
  <2>1. <<>> \in Seq(S)
    OBVIOUS
  <2>2. QED
    BY <1>1, <2>1, FlattenNone
<1>2. CASE q # <<>>
  <2> DEFINE n == Len(q)
  <2>1. PICK f : /\ FlattenSeq(q) = f[n]
                 /\ \A i \in 1..n : f[i] = FlatStep(q, f, i)
    BY <1>2, Flattened
  <2>2. n \in Nat /\ n # 0 /\ \A i \in 1..n : q[i] \in Seq(S)
    BY <1>2
  <2> DEFINE H == {i \in 1..n : f[i] \in Seq(S)}
  <2>3. ASSUME NEW i \in 1..n, i = 1 \/ i - 1 \in H PROVE i \in H
    <3>1. q[i] \in Seq(S) /\ (i # 1 => f[i - 1] \in Seq(S))
      BY <2>2, <2>3
    <3>2. f[i] = IF i = 1 THEN q[i] ELSE f[i - 1] \o q[i]
      BY <2>1 DEF FlatStep
    <3>3. i # 1 => f[i - 1] \o q[i] \in Seq(S)
      BY <3>1
    <3>4. f[i] \in Seq(S)
      BY <3>1, <3>2, <3>3
    <3>5. QED
      BY <3>4
  <2>4. n \in H
    <3> HIDE DEF H
    <3>1. H \in SUBSET (1..n)
      BY DEF H
    <3>2. H = 1..n
      BY <2>2, <2>3, <3>1, Upward
    <3>3. QED
      BY <2>2, <3>2
  <2>5. QED
    BY <2>1, <2>4
<1>3. QED
  BY <1>1, <1>2

\* a queue of one text to that text,
LEMMA FlattenOne ==
  ASSUME NEW S, NEW s \in Seq(S)
  PROVE  FlattenSeq(<<s>>) = s
<1> DEFINE q == <<s>>
<1>1. q \in Seq(Seq(S)) /\ q # <<>> /\ Len(q) = 1 /\ q[1] = s
  OBVIOUS
<1> HIDE DEF q
<1>2. PICK f : /\ FlattenSeq(q) = f[1]
               /\ \A i \in 1..1 : f[i] = FlatStep(q, f, i)
  BY <1>1, Flattened
<1>3. FlattenSeq(q) = s
  BY <1>1, <1>2 DEF FlatStep
<1>4. QED
  BY <1>3 DEF q

\* a queue that grows to a text that grows,
LEMMA FlattenAppend ==
  ASSUME NEW S, NEW q \in Seq(Seq(S)), NEW s \in Seq(S)
  PROVE  FlattenSeq(Append(q, s)) = FlattenSeq(q) \o s
<1>1. CASE q = <<>>
  <2>1. Append(q, s) = <<s>>
    BY <1>1
  <2>2. FlattenSeq(q) \o s = s
    <3>1. <<>> \o s = s
      OBVIOUS
    <3>2. QED
      BY <1>1, <3>1, FlattenNone
  <2>3. QED
    BY <2>1, <2>2, FlattenOne
<1>2. CASE q # <<>>
  <2> DEFINE n == Len(q)
             r == Append(q, s)
  <2>1. /\ r \in Seq(Seq(S)) /\ r # <<>> /\ Len(r) = n + 1 /\ n \in Nat /\ n # 0
        /\ r[n + 1] = s /\ \A i \in 1..n : r[i] = q[i]
    <3>1. n \in Nat /\ n # 0
      BY <1>2
    <3>2. QED
      BY <3>1, AppendProperties
  <2> HIDE DEF r
  <2>2. PICK f : /\ FlattenSeq(q) = f[n]
                 /\ \A i \in 1..n : f[i] = FlatStep(q, f, i)
    BY <1>2, Flattened
  <2>3. PICK g : /\ FlattenSeq(r) = g[n + 1]
                 /\ \A i \in 1..(n + 1) : g[i] = FlatStep(r, g, i)
    BY <2>1, Flattened
  <2> DEFINE H == {i \in 1..n : g[i] = f[i]}
  <2>4. ASSUME NEW i \in 1..n, i = 1 \/ i - 1 \in H PROVE i \in H
    <3>1. i \in 1..(n + 1) /\ r[i] = q[i]
      BY <2>1
    <3>2. g[i] = FlatStep(r, g, i) /\ f[i] = FlatStep(q, f, i)
      BY <2>2, <2>3, <3>1
    <3>3. i # 1 => g[i - 1] = f[i - 1]
      BY <2>4
    <3>4. g[i] = f[i]
      BY <3>1, <3>2, <3>3 DEF FlatStep
    <3>5. QED
      BY <3>4
  <2>5. n \in H
    <3> HIDE DEF H
    <3>1. H \in SUBSET (1..n)
      BY DEF H
    <3>2. H = 1..n
      BY <2>1, <2>4, <3>1, Upward
    <3>3. QED
      BY <2>1, <3>2
  <2>6. g[n + 1] = g[n] \o s
    <3>1. n + 1 \in 1..(n + 1) /\ n + 1 # 1 /\ (n + 1) - 1 = n
      BY <2>1
    <3>2. g[n + 1] = FlatStep(r, g, n + 1)
      BY <2>3, <3>1
    <3>3. QED
      BY <2>1, <3>1, <3>2 DEF FlatStep
  <2>7. QED
    BY <2>2, <2>3, <2>5, <2>6 DEF r
<1>3. QED
  BY <1>1, <1>2

\* (texts can be joined in any order of steps)
Then(x, y) == x \o y
LEMMA Associative ==
  ASSUME NEW S, NEW x \in Seq(S), NEW y \in Seq(S), NEW z \in Seq(S)
  PROVE  Then(Then(x, y), z) = Then(x, Then(y, z))
  BY ConcatAssociative DEF Then

\* and every queue to its first text and the rest.
LEMMA FlattenHead ==
  ASSUME NEW S, NEW q \in Seq(Seq(S)), q # <<>>
  PROVE  FlattenSeq(q) = Head(q) \o FlattenSeq(Tail(q))
<1> DEFINE n == Len(q)
           t == Tail(q)
           h == Head(q)
<1>1. /\ n \in Nat /\ n # 0 /\ h = q[1] /\ h \in Seq(S) /\ t \in Seq(Seq(S)) /\ Len(t) = n - 1
      /\ \A i \in 1..n : q[i] \in Seq(S)
      /\ \A i \in 1..(n - 1) : t[i] = q[i + 1]
  OBVIOUS
<1>2. PICK f : /\ FlattenSeq(q) = f[n]
               /\ \A i \in 1..n : f[i] = FlatStep(q, f, i)
  BY Flattened
<1>3. f[1] = h
  BY <1>1, <1>2 DEF FlatStep
<1> HIDE DEF t, h
<1>4. CASE t = <<>>
  <2>1. n = 1
    BY <1>1, <1>4
  <2>2. h \o <<>> = h
    BY <1>1
  <2>3. QED
    BY <1>2, <1>3, <1>4, <2>1, <2>2, FlattenNone DEF t, h
<1>5. CASE t # <<>>
  <2>1. PICK g : /\ FlattenSeq(t) = g[n - 1]
                 /\ \A i \in 1..(n - 1) : g[i] = FlatStep(t, g, i)
    BY <1>1, <1>5, Flattened
  <2>2. n - 1 \in Nat /\ n - 1 # 0
    BY <1>1, <1>5
  <2> DEFINE H == {i \in 1..(n - 1) : g[i] \in Seq(S) /\ f[i + 1] = h \o g[i]}
  <2>3. ASSUME NEW i \in 1..(n - 1), i = 1 \/ i - 1 \in H PROVE i \in H
    <3>1. i + 1 \in 1..n /\ i + 1 # 1 /\ (i + 1) - 1 = i
      BY <1>1
    <3>2. f[i + 1] = f[i] \o q[i + 1] /\ q[i + 1] \in Seq(S) /\ t[i] = q[i + 1]
      BY <1>1, <1>2, <3>1 DEF FlatStep
    <3>3. g[i] = FlatStep(t, g, i)
      BY <2>1
    <3>4. CASE i = 1
      BY <1>3, <3>2, <3>3, <3>4 DEF FlatStep
    <3>5. CASE i # 1
      <4>1. g[i - 1] \in Seq(S) /\ f[i] = h \o g[i - 1]
        <5>1. i - 1 \in H /\ (i - 1) + 1 = i
          BY <2>3, <3>5
        <5>2. QED
          BY <5>1
      <4>2. g[i] = g[i - 1] \o q[i + 1]
        BY <3>2, <3>3, <3>5 DEF FlatStep
      <4>3. f[i + 1] = h \o g[i]
        <5> DEFINE a == g[i - 1]
                   b == q[i + 1]
        <5>1. a \in Seq(S) /\ b \in Seq(S) /\ h \in Seq(S)
          BY <1>1, <3>2, <4>1
        <5>2. f[i + 1] = Then(Then(h, a), b) /\ g[i] = Then(a, b)
          BY <3>2, <4>1, <4>2 DEF Then
        <5> HIDE DEF a, b
        <5>3. Then(Then(h, a), b) = Then(h, Then(a, b))
          BY <5>1, Associative
        <5>4. QED
          BY <5>2, <5>3 DEF Then
      <4>4. g[i] \in Seq(S)
        BY <3>2, <4>1, <4>2
      <4>5. QED
        BY <4>3, <4>4
    <3>6. QED
      BY <3>4, <3>5
  <2>4. n - 1 \in H
    <3> HIDE DEF H
    <3>1. H \in SUBSET (1..(n - 1))
      BY DEF H
    <3>2. H = 1..(n - 1)
      BY <2>2, <2>3, <3>1, Upward
    <3>3. n - 1 \in 1..(n - 1)
      <4> DEFINE k == n - 1
      <4>1. k \in Nat /\ k # 0
        BY <2>2
      <4> HIDE DEF k
      <4>2. k \in 1..k
        BY <4>1
      <4>3. QED
        BY <4>2 DEF k
    <3>4. QED
      BY <3>2, <3>3
  <2>5. f[n] = h \o g[n - 1]
    <3>1. (n - 1) + 1 = n
      BY <1>1
    <3>2. QED
      BY <2>4, <3>1
  <2>6. QED
    BY <1>2, <2>1, <2>5 DEF t, h
<1>6. QED
  BY <1>4, <1>5

-----------------------------------------------------------------------------
(* Sequences of prompts without repetition, in order if o.                 *)

Tidy(o, s) == IsInjective(s) /\ (o => \A i, j \in DOMAIN s : i < j => s[i] < s[j])
Apart(o, a, b) == \A x \in ToSet(a), y \in ToSet(b) : x # y /\ (o => x < y)

\* The prompts of a text joined from two.
LEMMA SetConcat ==
  \A a, b \in Seq(Nat) : a \o b \in Seq(Nat) /\ ToSet(a \o b) = ToSet(a) \cup ToSet(b)
<1> SUFFICES ASSUME NEW a \in Seq(Nat), NEW b \in Seq(Nat)
             PROVE  a \o b \in Seq(Nat) /\ ToSet(a \o b) = ToSet(a) \cup ToSet(b)
  OBVIOUS
<1> DEFINE c == a \o b
<1>1. /\ c \in Seq(Nat) /\ Len(c) = Len(a) + Len(b) /\ Len(a) \in Nat /\ Len(b) \in Nat
      /\ \A i \in 1..Len(a) : c[i] = a[i]
      /\ \A i \in 1..Len(b) : c[Len(a) + i] = b[i]
  OBVIOUS
<1>2. DOMAIN a = 1..Len(a) /\ DOMAIN b = 1..Len(b) /\ DOMAIN c = 1..Len(c)
  BY <1>1
<1> HIDE DEF c
<1>3. ASSUME NEW x \in ToSet(c) PROVE x \in ToSet(a) \cup ToSet(b)
  <2>1. PICK i \in 1..Len(c) : x = c[i]
    BY <1>2 DEF ToSet
  <2>2. CASE i <= Len(a)
    <3>1. i \in 1..Len(a)
      BY <1>1, <2>2
    <3>2. QED
      BY <1>1, <1>2, <2>1, <3>1 DEF ToSet
  <2>3. CASE ~(i <= Len(a))
    <3>1. i - Len(a) \in 1..Len(b) /\ Len(a) + (i - Len(a)) = i
      BY <1>1, <2>3
    <3>2. x = b[i - Len(a)]
      BY <1>1, <2>1, <3>1
    <3>3. QED
      BY <1>2, <3>1, <3>2 DEF ToSet
  <2>4. QED
    BY <2>2, <2>3
<1>4. ASSUME NEW x \in ToSet(a) PROVE x \in ToSet(c)
  <2>1. PICK i \in 1..Len(a) : x = a[i]
    BY <1>2 DEF ToSet
  <2>2. i \in 1..Len(c) /\ c[i] = x
    BY <1>1, <2>1
  <2>3. QED
    BY <1>2, <2>2 DEF ToSet
<1>5. ASSUME NEW x \in ToSet(b) PROVE x \in ToSet(c)
  <2>1. PICK i \in 1..Len(b) : x = b[i]
    BY <1>2 DEF ToSet
  <2>2. Len(a) + i \in 1..Len(c) /\ c[Len(a) + i] = x
    BY <1>1, <2>1
  <2>3. QED
    BY <1>2, <2>2 DEF ToSet
<1>6. QED
  BY <1>1, <1>3, <1>4, <1>5 DEF c

\* The empty text has no prompts,
LEMMA SetNone == ToSet(<<>>) = {}
  BY DEF ToSet

\* and a text of one prompt has that one.
LEMMA SetOne ==
  \A n \in Nat : <<n>> \in Seq(Nat) /\ ToSet(<<n>>) = {n}
<1> SUFFICES ASSUME NEW n \in Nat PROVE <<n>> \in Seq(Nat) /\ ToSet(<<n>>) = {n}
  OBVIOUS
<1>1. <<n>> \in Seq(Nat) /\ DOMAIN <<n>> = {1} /\ <<n>>[1] = n
  OBVIOUS
<1>2. QED
  BY <1>1 DEF ToSet

\* Joined texts are tidy if both are, and apart from each other.
LEMMA TidyConcat ==
  \A o \in BOOLEAN : \A a, b \in Seq(Nat) :
    Tidy(o, a) /\ Tidy(o, b) /\ Apart(o, a, b) <=> Tidy(o, a \o b)
<1> SUFFICES ASSUME NEW o \in BOOLEAN, NEW a \in Seq(Nat), NEW b \in Seq(Nat)
             PROVE  Tidy(o, a) /\ Tidy(o, b) /\ Apart(o, a, b) <=> Tidy(o, a \o b)
  OBVIOUS
<1> DEFINE c == a \o b
           n == Len(a)
           m == Len(b)
<1>1. /\ c \in Seq(Nat) /\ Len(c) = n + m /\ n \in Nat /\ m \in Nat
      /\ \A i \in 1..n : c[i] = a[i]
      /\ \A i \in 1..m : c[n + i] = b[i]
  OBVIOUS
<1>2. DOMAIN a = 1..n /\ DOMAIN b = 1..m /\ DOMAIN c = 1..(n + m)
  BY <1>1
<1>3. (\A i \in 1..n : a[i] \in Nat) /\ (\A i \in 1..m : b[i] \in Nat)
  BY <1>2
<1> HIDE DEF c, n, m
<1>4. ASSUME Tidy(o, a), Tidy(o, b), Apart(o, a, b) PROVE Tidy(o, c)
  <2>1. \A i \in 1..n, j \in 1..m : a[i] # b[j] /\ (o => a[i] < b[j])
    BY <1>2, <1>4 DEF Apart, ToSet
  <2>2. ASSUME NEW i \in 1..(n + m), NEW j \in 1..(n + m), i < j
        PROVE  c[i] # c[j] /\ (o => c[i] < c[j])
    <3>1. CASE i \in 1..n /\ j \in 1..n
      <4>1. c[i] = a[i] /\ c[j] = a[j] /\ i # j
        BY <1>1, <2>2, <3>1
      <4>2. QED
        BY <1>2, <1>4, <2>2, <3>1, <4>1 DEF Tidy, IsInjective
    <3>2. CASE i \in 1..n /\ j \notin 1..n
      <4>1. j - n \in 1..m /\ n + (j - n) = j
        BY <1>1, <3>2
      <4>2. c[i] = a[i] /\ c[j] = b[j - n]
        BY <1>1, <3>2, <4>1
      <4>3. QED
        BY <2>1, <3>2, <4>1, <4>2
    <3>3. CASE i \notin 1..n
      <4>1. /\ i - n \in 1..m /\ n + (i - n) = i /\ j - n \in 1..m /\ n + (j - n) = j
            /\ i - n < j - n /\ i - n # j - n
        BY <1>1, <2>2, <3>3
      <4>2. c[i] = b[i - n] /\ c[j] = b[j - n]
        BY <1>1, <4>1
      <4>3. QED
        BY <1>2, <1>4, <4>1, <4>2 DEF Tidy, IsInjective
    <3>4. QED
      BY <3>1, <3>2, <3>3
  <2>3. IsInjective(c)
    <3>1. SUFFICES ASSUME NEW i \in 1..(n + m), NEW j \in 1..(n + m), c[i] = c[j]
                   PROVE  i = j
      BY <1>2 DEF IsInjective
    <3>2. ~(i < j) /\ ~(j < i)
      BY <2>2, <3>1
    <3>3. QED
      BY <1>1, <3>2
  <2>4. QED
    BY <1>2, <2>2, <2>3 DEF Tidy
<1>5. ASSUME Tidy(o, c) PROVE Tidy(o, a) /\ Tidy(o, b) /\ Apart(o, a, b)
  <2>1. \A i, j \in 1..(n + m) : (c[i] = c[j] => i = j) /\ (o /\ i < j => c[i] < c[j])
    BY <1>2, <1>5 DEF Tidy, IsInjective
  <2>2. \A i \in 1..n : i \in 1..(n + m)
    BY <1>1
  <2>3. \A i \in 1..m : n + i \in 1..(n + m)
    BY <1>1
  <2>4. Tidy(o, a)
    BY <1>1, <1>2, <2>1, <2>2 DEF Tidy, IsInjective
  <2>5. \A i, j \in 1..m : (b[i] = b[j] => i = j) /\ (o /\ i < j => b[i] < b[j])
    <3> SUFFICES ASSUME NEW i \in 1..m, NEW j \in 1..m
                 PROVE  (b[i] = b[j] => i = j) /\ (o /\ i < j => b[i] < b[j])
      OBVIOUS
    <3>1. c[n + i] = b[i] /\ c[n + j] = b[j]
      BY <1>1
    <3>2. (c[n + i] = c[n + j] => n + i = n + j) /\ (o /\ n + i < n + j => c[n + i] < c[n + j])
      BY <2>1, <2>3
    <3>3. QED
      BY <1>1, <3>1, <3>2
  <2>6. Tidy(o, b)
    BY <1>2, <2>5 DEF Tidy, IsInjective
  <2>7. ASSUME NEW i \in 1..n, NEW j \in 1..m PROVE a[i] # b[j] /\ (o => a[i] < b[j])
    <3>1. c[i] = a[i] /\ c[n + j] = b[j] /\ i < n + j /\ i # n + j
      BY <1>1
    <3>2. QED
      BY <2>1, <2>2, <2>3, <3>1
  <2>8. Apart(o, a, b)
    BY <1>2, <2>7 DEF Apart, ToSet
  <2>9. QED
    BY <2>4, <2>6, <2>8
<1>6. QED
  BY <1>4, <1>5 DEF c

\* Being apart from a joined text is being apart from its parts.
LEMMA ApartConcat ==
  \A o \in BOOLEAN : \A a, b, c \in Seq(Nat) :
    /\ Apart(o, a, c) /\ Apart(o, b, c) <=> Apart(o, a \o b, c)
    /\ Apart(o, c, a) /\ Apart(o, c, b) <=> Apart(o, c, a \o b)
  BY SetConcat DEF Apart

\* The empty text disturbs nothing.
LEMMA Nothing ==
  \A o : Tidy(o, <<>>) /\ \A s : Apart(o, <<>>, s) /\ Apart(o, s, <<>>)
  BY SetNone DEF Tidy, Apart, IsInjective

\* Without the order, apart is symmetric.
LEMMA ApartSwap ==
  ASSUME NEW a, NEW b, NEW o, ~o
  PROVE  Apart(o, a, b) <=> Apart(o, b, a)
  BY DEF Apart

-----------------------------------------------------------------------------
(* Every prompt is in one place.  Where each place may be filled, where the*)
(* front end may be, and what it has seen when it leaves.                  *)

Flat == FlattenSeq(queue)

Texts ==
  /\ told \in Seq(Nat) /\ hand \in Seq(Nat) /\ drainText \in Seq(Nat) /\ cmd \in Seq(Nat)
  /\ queue \in Seq(Seq(Nat)) /\ input \in Seq(Nat) /\ stdin \in Seq(Nat) /\ typed \in Nat

\* Seven texts one after the other, apart from one another.
InOrder(o, a, b, c, d, e, f, g) ==
  /\ Tidy(o, a) /\ Tidy(o, b) /\ Tidy(o, c) /\ Tidy(o, d) /\ Tidy(o, e) /\ Tidy(o, f)
  /\ Tidy(o, g)
  /\ Apart(o, a, b) /\ Apart(o, a, c) /\ Apart(o, a, d) /\ Apart(o, a, e)
  /\ Apart(o, a, f) /\ Apart(o, a, g)
  /\ Apart(o, b, c) /\ Apart(o, b, d) /\ Apart(o, b, e) /\ Apart(o, b, f) /\ Apart(o, b, g)
  /\ Apart(o, c, d) /\ Apart(o, c, e) /\ Apart(o, c, f) /\ Apart(o, c, g)
  /\ Apart(o, d, e) /\ Apart(o, d, f) /\ Apart(o, d, g)
  /\ Apart(o, e, f) /\ Apart(o, e, g)
  /\ Apart(o, f, g)

\* The places a prompt can be in, from the transcript back to the user, and the
\* prompts that are in none of them.
Prompts(a, b, c, d, e, f, g) == ToSet(a) \cup ToSet(b) \cup ToSet(c) \cup ToSet(d)
                                \cup ToSet(e) \cup ToSet(f) \cup ToSet(g)
Placed(o, a, b, c, d, e, f, g, x, n) ==
  /\ InOrder(o, a, b, c, d, e, f, g)
  /\ Prompts(a, b, c, d, e, f, g) \cup x = 1..n
  /\ Prompts(a, b, c, d, e, f, g) \cap x = {}

Places ==
  /\ Texts
  /\ Placed(Headless, told, hand, drainText, cmd, Flat, input, stdin, aside, typed)

HeadlessAt == {"top", "poll", "poll_wake", "consume", "drain", "answer", "input", "offer",
               "check", "submit", "leave", "join", "gone"}

\* What the worker holds for itself, and what it has been handed.
WorkerHas ==
  /\ hand # <<>> => \/ wpc \in {"turn", "before", "append", "appending"}
                    \/ wpc = "compacting" /\ ret \in {"append", "appending"}
  /\ drainText # <<>> => wpc = "draining" /\ drainAnswered
  /\ drainPending => wpc = "draining" /\ ~drainAnswered
  /\ upc = "answer" => wpc = "draining" /\ ~drainAnswered /\ ~drainPending
  /\ stop => upc \in {"join", "gone"}

\* The two front ends, and what they have read.
FrontHas ==
  /\ Headless => upc \in HeadlessAt /\ ~deferred
  /\ ~Headless => /\ upc \notin {"top", "poll", "poll_wake", "input", "check"}
                  /\ input # <<>> => upc = "offer"
                  /\ stdin = <<>> /\ ~eof
  /\ Headless /\ upc = "offer" => queue = <<>>
  /\ eof => closed /\ stdin = <<>>
  /\ upc \in {"unsaved", "may_save", "save"} =>
       then \in {"save", "new", "switch", "quit", "exit"}

\* Whoever leaves without an error leaves nothing to do.
NothingLeft ==
  Headless /\ upc \in {"leave", "join", "gone"} /\ ~failed =>
    eof /\ input = <<>> /\ queue = <<>> /\ AtRest

PromptInv == IInv /\ Places /\ WorkerHas /\ FrontHas /\ NothingLeft

\* A step of the worker keeps what it has and what the front end goes by.
LEMMA WorkerStays ==
  ASSUME PromptInv, WorkerStep
  PROVE  WorkerHas' /\ FrontHas' /\ NothingLeft'
<1>1. CASE Boot
  BY <1>1 DEF Boot, Publish, PromptInv, IInv, StatusTells, WorkerHas, FrontHas, HeadlessAt,
    NothingLeft, AtRest, Resting, Working, Headless, flagVars, turnVars, wantVars, askVars,
    uiVars, userVars, histVars
<1>2. CASE Booted
  BY <1>2 DEF Booted, PromptInv, IInv, StatusTells, WorkerHas, FrontHas, HeadlessAt,
    NothingLeft, AtRest, Resting, Working, Headless, flagVars, turnVars, wantVars, askVars,
    uiVars, userVars, histVars
<1>3. CASE Sleep
  BY <1>3 DEF Sleep, Awaited, PromptInv, IInv, StatusTells, WorkerHas, FrontHas, HeadlessAt,
    NothingLeft, AtRest, Resting, Working, Headless, flagVars, turnVars, wantVars, askVars,
    uiVars, userVars, histVars
<1>4. CASE Awake
  BY <1>4 DEF Awake, FirstJob, Awaited, PromptInv, IInv, StatusTells, WorkerHas, FrontHas,
    HeadlessAt, NothingLeft, AtRest, Resting, Working, Headless, flagVars, turnVars,
    wantVars, askVars, uiVars, userVars, histVars
<1>5. CASE End
  BY <1>5 DEF End, Publish, PromptInv, IInv, StatusTells, WorkerHas, FrontHas, HeadlessAt,
    NothingLeft, AtRest, Resting, Working, Headless, flagVars, turnVars, wantVars, askVars,
    uiVars, userVars, histVars
<1>6. CASE TakeThink
  BY <1>6 DEF TakeThink, PromptInv, IInv, StatusTells, WorkerHas, FrontHas, HeadlessAt,
    NothingLeft, AtRest, Resting, Working, Headless, flagVars, turnVars, wantVars, askVars,
    uiVars, userVars, histVars
<1>7. CASE Think
  BY <1>7 DEF Think, Publish, PromptInv, IInv, StatusTells, WorkerHas, FrontHas, HeadlessAt,
    NothingLeft, AtRest, Resting, Working, Headless, flagVars, turnVars, wantVars, askVars,
    uiVars, userVars, histVars
<1>8. CASE TakeJob
  BY <1>8 DEF TakeJob, PromptInv, IInv, StatusTells, WorkerHas, FrontHas, HeadlessAt,
    NothingLeft, AtRest, Resting, Working, Headless, flagVars, turnVars, wantVars, askVars,
    uiVars, userVars, histVars
<1>9. CASE Power
  BY <1>9 DEF Power, Over, PromptInv, IInv, StatusTells, WorkerHas, FrontHas, HeadlessAt,
    NothingLeft, AtRest, Resting, Working, Headless, flagVars, turnVars, wantVars, askVars,
    uiVars, userVars, histVars
<1>10. CASE SaveBegins
  BY <1>10 DEF SaveBegins, Publish, PromptInv, IInv, StatusTells, WorkerHas, FrontHas,
    HeadlessAt, NothingLeft, AtRest, Resting, Working, Headless, flagVars, turnVars,
    wantVars, askVars, uiVars, userVars, histVars
<1>11. CASE SaveEnds
  BY <1>11 DEF SaveEnds, PromptInv, IInv, StatusTells, WorkerHas, FrontHas, HeadlessAt,
    NothingLeft, AtRest, Resting, Working, Headless, flagVars, turnVars, wantVars, askVars,
    uiVars, userVars, histVars
<1>12. CASE CompactBegins
  BY <1>12 DEF CompactBegins, Publish, Over, PromptInv, IInv, StatusTells, WorkerHas,
    FrontHas, HeadlessAt, NothingLeft, AtRest, Resting, Working, Headless, flagVars,
    turnVars, wantVars, askVars, uiVars, userVars, histVars
<1>13. CASE Turn
  BY <1>13 DEF Turn, PromptInv, IInv, StatusTells, WorkerHas, FrontHas, HeadlessAt,
    NothingLeft, AtRest, Resting, Working, Headless, flagVars, turnVars, wantVars, askVars,
    uiVars, userVars, histVars
<1>14. CASE TurnCompacts
  BY <1>14 DEF TurnCompacts, Publish, Onward, PromptInv, IInv, StatusTells, WorkerHas,
    FrontHas, HeadlessAt, NothingLeft, AtRest, Resting, Working, Headless, flagVars,
    turnVars, wantVars, askVars, uiVars, userVars, histVars
<1>15. CASE TurnHasRoom
  BY <1>15 DEF TurnHasRoom, Onward, PromptInv, IInv, StatusTells, WorkerHas, FrontHas,
    HeadlessAt, NothingLeft, AtRest, Resting, Working, Headless, flagVars, turnVars,
    wantVars, askVars, uiVars, userVars, histVars
<1>16. CASE CompactEnds
  <2>1. WorkerHas' /\ NothingLeft'
    BY <1>16 DEF CompactEnds, PromptInv, IInv, StatusTells, WorkerHas, NothingLeft, AtRest,
      Resting, Working, Headless, flagVars, turnVars, wantVars, askVars, uiVars, userVars,
      histVars
  <2>2. FrontHas'
    BY <1>16 DEF CompactEnds, PromptInv, FrontHas, HeadlessAt, Headless, flagVars, turnVars,
      wantVars, askVars, uiVars, userVars, histVars
  <2>3. QED
    BY <2>1, <2>2
<1>17. CASE AppendUser
  BY <1>17 DEF AppendUser, PromptInv, IInv, StatusTells, WorkerHas, FrontHas, HeadlessAt,
    NothingLeft, AtRest, Resting, Working, Headless, flagVars, turnVars, wantVars, askVars,
    uiVars, userVars, histVars
<1>18. CASE Prefill
  BY <1>18 DEF Prefill, Publish, PromptInv, IInv, StatusTells, WorkerHas, FrontHas,
    HeadlessAt, NothingLeft, AtRest, Resting, Working, Headless, flagVars, turnVars,
    wantVars, askVars, uiVars, userVars, histVars
<1>19. CASE Generate
  BY <1>19 DEF Generate, Publish, PromptInv, IInv, StatusTells, WorkerHas, FrontHas,
    HeadlessAt, NothingLeft, AtRest, Resting, Working, Headless, flagVars, turnVars,
    wantVars, askVars, uiVars, userVars, histVars
<1>20. CASE Tool
  BY <1>20 DEF Tool, PromptInv, IInv, StatusTells, WorkerHas, FrontHas, HeadlessAt,
    NothingLeft, AtRest, Resting, Working, Headless, flagVars, turnVars, wantVars, askVars,
    uiVars, userVars, histVars
<1>21. CASE Approved
  BY <1>21 DEF Approved, Awaited, PromptInv, IInv, StatusTells, WorkerHas, FrontHas,
    HeadlessAt, NothingLeft, AtRest, Resting, Working, Headless, flagVars, turnVars,
    wantVars, askVars, uiVars, userVars, histVars
<1>22. CASE RequestDrain
  BY <1>22 DEF RequestDrain, PromptInv, IInv, StatusTells, WorkerHas, FrontHas, HeadlessAt,
    NothingLeft, AtRest, Resting, Working, Headless, flagVars, turnVars, wantVars, askVars,
    uiVars, userVars, histVars
<1>23. CASE Drained
  BY <1>23 DEF Drained, Awaited, PromptInv, IInv, StatusTells, WorkerHas, FrontHas,
    HeadlessAt, NothingLeft, AtRest, Resting, Working, Headless, flagVars, turnVars,
    wantVars, askVars, uiVars, userVars, histVars
<1>24. CASE Acknowledge
  BY <1>24 DEF Acknowledge, PromptInv, IInv, StatusTells, WorkerHas, FrontHas, HeadlessAt,
    NothingLeft, AtRest, Resting, Working, Headless, flagVars, turnVars, wantVars, askVars,
    uiVars, userVars, histVars
<1>25. CASE PublishIdle
  BY <1>25 DEF PublishIdle, Publish, Over, PromptInv, IInv, StatusTells, WorkerHas,
    FrontHas, HeadlessAt, NothingLeft, AtRest, Resting, Working, Headless, flagVars,
    turnVars, wantVars, askVars, uiVars, userVars, histVars
<1>26. CASE Error
  BY <1>26 DEF Error, Publish, Over, PromptInv, IInv, StatusTells, WorkerHas, FrontHas,
    HeadlessAt, NothingLeft, AtRest, Resting, Working, Headless, flagVars, turnVars,
    wantVars, askVars, uiVars, userVars, histVars
<1>27. QED
  BY <1>1, <1>2, <1>3, <1>4, <1>5, <1>6, <1>7, <1>8, <1>9, <1>10, <1>11, <1>12, <1>13,
    <1>14, <1>15, <1>16, <1>17, <1>18, <1>19, <1>20, <1>21, <1>22, <1>23, <1>24, <1>25,
    <1>26 DEF WorkerStep

\* So does a step of the front end.
LEMMA FrontStays ==
  ASSUME PromptInv, UiStep
  PROVE  WorkerHas' /\ FrontHas' /\ NothingLeft'
<1>1. CASE Consume
  BY <1>1 DEF Consume, PromptInv, IInv, StatusTells, WorkerHas, FrontHas, HeadlessAt,
    NothingLeft, AtRest, Resting, Working, Headless, flagVars, turnVars, wantVars, askVars,
    uiVars, userVars, histVars, UiKeeps
<1>2. CASE ResetError
  BY <1>2 DEF ResetError, PromptInv, IInv, StatusTells, WorkerHas, FrontHas, HeadlessAt,
    NothingLeft, AtRest, Resting, Working, Headless, flagVars, turnVars, wantVars, askVars,
    uiVars, userVars, histVars, UiKeeps
<1>3. CASE TakeDrain
  BY <1>3 DEF TakeDrain, AfterDrain, PromptInv, IInv, StatusTells, WorkerHas, FrontHas,
    HeadlessAt, NothingLeft, AtRest, Resting, Working, Headless, flagVars, turnVars,
    wantVars, askVars, uiVars, userVars, histVars, UiKeeps
<1>4. CASE AnswerDrain
  BY <1>4 DEF AnswerDrain, AfterDrain, PromptInv, IInv, StatusTells, WorkerHas, FrontHas,
    HeadlessAt, NothingLeft, AtRest, Resting, Working, Headless, flagVars, turnVars,
    wantVars, askVars, uiVars, userVars, histVars, UiKeeps
<1>5. CASE SubmitQueue
  BY <1>5 DEF SubmitQueue, Submit, CanSubmit, PromptInv, IInv, StatusTells, WorkerHas,
    FrontHas, HeadlessAt, NothingLeft, AtRest, Resting, Working, Headless, flagVars,
    turnVars, wantVars, askVars, uiVars, userVars, histVars, UiKeeps
<1>6. CASE Offer
  BY <1>6 DEF Offer, Submit, CanSubmit, PromptInv, IInv, StatusTells, WorkerHas, FrontHas,
    HeadlessAt, NothingLeft, AtRest, Resting, Working, Headless, flagVars, turnVars,
    wantVars, askVars, uiVars, userVars, histVars
<1>7. CASE Top
  BY <1>7 DEF Top, Idle, PromptInv, IInv, StatusTells, WorkerHas, FrontHas, HeadlessAt,
    NothingLeft, AtRest, Resting, Working, Headless, flagVars, turnVars, wantVars, askVars,
    uiVars, userVars, histVars, UiKeeps
<1>8. CASE Poll
  BY <1>8 DEF Poll, PromptInv, IInv, StatusTells, WorkerHas, FrontHas, HeadlessAt,
    NothingLeft, AtRest, Resting, Working, Headless, flagVars, turnVars, wantVars, askVars,
    uiVars, userVars, histVars, UiKeeps
<1>9. CASE TakeInput
  BY <1>9 DEF TakeInput, Idle, PromptInv, IInv, StatusTells, WorkerHas, FrontHas,
    HeadlessAt, NothingLeft, AtRest, Resting, Working, Headless, flagVars, turnVars,
    wantVars, askVars, uiVars, userVars, histVars, UiKeeps
<1>10. CASE LeaveInput
  BY <1>10 DEF LeaveInput, PromptInv, IInv, StatusTells, WorkerHas, FrontHas, HeadlessAt,
    NothingLeft, AtRest, Resting, Working, Headless, flagVars, turnVars, wantVars, askVars,
    uiVars, userVars, histVars, UiKeeps
<1>11. CASE Check
  BY <1>11 DEF Check, Idle, PromptInv, IInv, StatusTells, WorkerHas, FrontHas, HeadlessAt,
    NothingLeft, AtRest, Resting, Working, Headless, flagVars, turnVars, wantVars, askVars,
    uiVars, userVars, histVars, UiKeeps
<1>12. CASE Keys
  BY <1>12 DEF Keys, Idle, PromptInv, IInv, StatusTells, WorkerHas, FrontHas, HeadlessAt,
    NothingLeft, AtRest, Resting, Working, Headless, flagVars, turnVars, wantVars, askVars,
    uiVars, userVars, histVars, UiKeeps
<1>13. CASE Interrupt
  BY <1>13 DEF Interrupt, PromptInv, IInv, StatusTells, WorkerHas, FrontHas, HeadlessAt,
    NothingLeft, AtRest, Resting, Working, Headless, flagVars, turnVars, wantVars, askVars,
    uiVars, userVars, histVars, UiKeeps
<1>14. CASE TakeApproval
  BY <1>14 DEF TakeApproval, Idle, PromptInv, IInv, StatusTells, WorkerHas, FrontHas,
    HeadlessAt, NothingLeft, AtRest, Resting, Working, Headless, flagVars, turnVars,
    wantVars, askVars, uiVars, userVars, histVars, UiKeeps
<1>15. CASE AnswerApproval
  BY <1>15 DEF AnswerApproval, PromptInv, IInv, StatusTells, WorkerHas, FrontHas,
    HeadlessAt, NothingLeft, AtRest, Resting, Working, Headless, flagVars, turnVars,
    wantVars, askVars, uiVars, userVars, histVars, UiKeeps
<1>16. CASE Line
  BY <1>16 DEF Line, Idle, PromptInv, IInv, StatusTells, WorkerHas, FrontHas, HeadlessAt,
    NothingLeft, AtRest, Resting, Working, Headless, flagVars, turnVars, wantVars, askVars,
    uiVars, userVars, histVars, UiKeeps
<1>17. CASE EditQueued
  BY <1>17 DEF EditQueued, PromptInv, IInv, StatusTells, WorkerHas, FrontHas, HeadlessAt,
    NothingLeft, AtRest, Resting, Working, Headless, flagVars, turnVars, wantVars, askVars,
    uiVars, userVars, histVars
<1>18. CASE Request
  BY <1>18 DEF Request, PromptInv, IInv, StatusTells, WorkerHas, FrontHas, HeadlessAt,
    NothingLeft, AtRest, Resting, Working, Headless, flagVars, turnVars, wantVars, askVars,
    uiVars, userVars, histVars, UiKeeps
<1>19. CASE Command
  BY <1>19 DEF Command, Idle, PromptInv, IInv, StatusTells, WorkerHas, FrontHas, HeadlessAt,
    NothingLeft, AtRest, Resting, Working, Headless, flagVars, turnVars, wantVars, askVars,
    uiVars, userVars, histVars, UiKeeps
<1>20. CASE Unsaved
  <2>1. ~Headless /\ upc # "leave"
    BY <1>20 DEF Unsaved, PromptInv, FrontHas, HeadlessAt
  <2>2. ~Headless'
    BY <1>20, <2>1 DEF Unsaved, UiKeeps, Headless
  <2>3. upc' \in {"keys", "new", "may_switch", "may_save", "save", "leave", "killed"}
    BY <1>20 DEF Unsaved, Proceed, PromptInv, FrontHas
  <2>4. upc' \in {"may_save", "save"} => upc \in {"unsaved", "may_save"}
    BY <1>20 DEF Unsaved, Proceed, PromptInv, FrontHas
  <2>5. WorkerHas'
    BY <1>20, <2>1, <2>3 DEF Unsaved, PromptInv, WorkerHas, askVars, turnVars, UiKeeps
  <2>6. FrontHas'
    BY <1>20, <2>1, <2>2, <2>3, <2>4 DEF Unsaved, PromptInv, FrontHas, wantVars, uiVars,
      userVars, UiKeeps
  <2>7. QED
    BY <2>2, <2>5, <2>6 DEF NothingLeft
<1>21. CASE AskIdle
  <2>1. ~Headless /\ upc # "leave"
    BY <1>21 DEF AskIdle, PromptInv, FrontHas, HeadlessAt
  <2>2. ~Headless'
    BY <1>21, <2>1 DEF AskIdle, UiKeeps, Headless
  <2>3. upc' \in {"keys", "new", "may_switch", "may_save", "save", "leave", "killed"}
    BY <1>21 DEF AskIdle, SaveFailed, Proceed, PromptInv, FrontHas
  <2>4. upc' \in {"may_save", "save"} => upc \in {"unsaved", "may_save"}
    BY <1>21 DEF AskIdle, SaveFailed, Proceed, PromptInv, FrontHas
  <2>5. WorkerHas'
    BY <1>21, <2>1, <2>3 DEF AskIdle, PromptInv, WorkerHas, askVars, turnVars, UiKeeps
  <2>6. FrontHas'
    BY <1>21, <2>1, <2>2, <2>3, <2>4 DEF AskIdle, PromptInv, FrontHas, wantVars, uiVars,
      userVars, UiKeeps
  <2>7. QED
    BY <2>2, <2>5, <2>6 DEF NothingLeft
<1>22. CASE SaveSession
  <2>1. ~Headless /\ upc # "leave"
    BY <1>22 DEF SaveSession, PromptInv, FrontHas, HeadlessAt
  <2>2. ~Headless'
    BY <1>22, <2>1 DEF SaveSession, UiKeeps, Headless
  <2>3. upc' \in {"keys", "new", "may_switch", "may_save", "save", "leave", "killed"}
    BY <1>22 DEF SaveSession, SaveFailed, Proceed, PromptInv, FrontHas
  <2>4. upc' \in {"may_save", "save"} => upc \in {"unsaved", "may_save"}
    BY <1>22 DEF SaveSession, SaveFailed, Proceed, PromptInv, FrontHas
  <2>5. WorkerHas'
    BY <1>22, <2>1, <2>3 DEF SaveSession, PromptInv, WorkerHas, askVars, turnVars,
      flagVars
  <2>6. FrontHas'
    BY <1>22, <2>1, <2>2, <2>3, <2>4 DEF SaveSession, PromptInv, FrontHas, wantVars,
      uiVars,
      userVars, UiKeeps
  <2>7. QED
    BY <2>2, <2>5, <2>6 DEF NothingLeft
<1>23. CASE NewSession
  BY <1>23 DEF NewSession, Publish, PromptInv, IInv, StatusTells, WorkerHas, FrontHas,
    HeadlessAt, NothingLeft, AtRest, Resting, Working, Headless, flagVars, turnVars,
    wantVars, askVars, uiVars, userVars, histVars, UiKeeps
<1>24. CASE NewSync
  BY <1>24 DEF NewSync, PromptInv, IInv, StatusTells, WorkerHas, FrontHas, HeadlessAt,
    NothingLeft, AtRest, Resting, Working, Headless, flagVars, turnVars, wantVars, askVars,
    uiVars, userVars, histVars, UiKeeps
<1>25. CASE NewEnds
  BY <1>25 DEF NewEnds, Publish, PromptInv, IInv, StatusTells, WorkerHas, FrontHas,
    HeadlessAt, NothingLeft, AtRest, Resting, Working, Headless, flagVars, turnVars,
    wantVars, askVars, uiVars, userVars, histVars
<1>26. CASE Steer
  BY <1>26 DEF Steer, PromptInv, IInv, StatusTells, WorkerHas, FrontHas, HeadlessAt,
    NothingLeft, AtRest, Resting, Working, Headless, flagVars, turnVars, wantVars, askVars,
    uiVars, userVars, histVars, UiKeeps
<1>27. CASE Leave
  BY <1>27 DEF Leave, PromptInv, IInv, StatusTells, WorkerHas, FrontHas, HeadlessAt,
    NothingLeft, AtRest, Resting, Working, Headless, flagVars, turnVars, wantVars, askVars,
    uiVars, userVars, histVars, UiKeeps
<1>28. CASE Join
  BY <1>28 DEF Join, PromptInv, IInv, StatusTells, WorkerHas, FrontHas, HeadlessAt,
    NothingLeft, AtRest, Resting, Working, Headless, flagVars, turnVars, wantVars, askVars,
    uiVars, userVars, histVars, UiKeeps
<1>29. QED
  BY <1>1, <1>2, <1>3, <1>4, <1>5, <1>6, <1>7, <1>8, <1>9, <1>10, <1>11, <1>12, <1>13,
    <1>14, <1>15, <1>16, <1>17, <1>18, <1>19, <1>20, <1>21, <1>22, <1>23, <1>24, <1>25,
    <1>26, <1>27, <1>28 DEF UiStep
-----------------------------------------------------------------------------
(* How a text moves from one place to the next. *)

\* The worker takes what was submitted.
LEMMA Taken ==
  ASSUME NEW o \in BOOLEAN, NEW a \in Seq(Nat), NEW b \in Seq(Nat), NEW c \in Seq(Nat),
         NEW d \in Seq(Nat), NEW e \in Seq(Nat), NEW f \in Seq(Nat), NEW g \in Seq(Nat),
         NEW x, NEW n \in Nat, Placed(o, a, b, c, d, e, f, g, x, n),
         b = <<>>, c = <<>>
  PROVE  Placed(o, a, d, <<>>, <<>>, e, f, g, x, n)
<1>1. InOrder(o, a, d, <<>>, <<>>, e, f, g)
  BY Nothing DEF Placed, InOrder
<1>2. /\ Prompts(a, d, <<>>, <<>>, e, f, g) \cup x = 1..n
      /\ Prompts(a, d, <<>>, <<>>, e, f, g) \cap x = {}
  BY SetNone DEF Placed, Prompts
<1>3. QED
  BY <1>1, <1>2 DEF Placed

\* The transcript is extended.
LEMMA Told ==
  ASSUME NEW o \in BOOLEAN, NEW a \in Seq(Nat), NEW b \in Seq(Nat), NEW c \in Seq(Nat),
         NEW d \in Seq(Nat), NEW e \in Seq(Nat), NEW f \in Seq(Nat), NEW g \in Seq(Nat),
         NEW x, NEW n \in Nat, Placed(o, a, b, c, d, e, f, g, x, n)
  PROVE  Placed(o, a \o b, <<>>, c, d, e, f, g, x, n)
<1>1. InOrder(o, a \o b, <<>>, c, d, e, f, g)
  BY Nothing, TidyConcat, ApartConcat DEF Placed, InOrder
<1>2. /\ Prompts(a \o b, <<>>, c, d, e, f, g) \cup x = 1..n
      /\ Prompts(a \o b, <<>>, c, d, e, f, g) \cap x = {}
  BY SetNone, SetConcat DEF Placed, Prompts
<1>3. QED
  BY <1>1, <1>2 DEF Placed

\* The turn fails before the text is in the transcript.
LEMMA Dropped ==
  ASSUME NEW o \in BOOLEAN, NEW a \in Seq(Nat), NEW b \in Seq(Nat), NEW c \in Seq(Nat),
         NEW d \in Seq(Nat), NEW e \in Seq(Nat), NEW f \in Seq(Nat), NEW g \in Seq(Nat),
         NEW x, NEW n \in Nat, Placed(o, a, b, c, d, e, f, g, x, n)
  PROVE  Placed(o, a, <<>>, c, d, e, f, g, x \cup ToSet(b), n)
<1>1. InOrder(o, a, <<>>, c, d, e, f, g)
  BY Nothing DEF Placed, InOrder
<1>2. /\ ToSet(b) \cap ToSet(a) = {}
      /\ ToSet(b) \cap ToSet(c) = {}
      /\ ToSet(b) \cap ToSet(d) = {}
      /\ ToSet(b) \cap ToSet(e) = {}
      /\ ToSet(b) \cap ToSet(f) = {}
      /\ ToSet(b) \cap ToSet(g) = {}
  BY DEF Placed, InOrder, Apart
<1>3. /\ Prompts(a, <<>>, c, d, e, f, g) \cup (x \cup ToSet(b)) = 1..n
      /\ Prompts(a, <<>>, c, d, e, f, g) \cap (x \cup ToSet(b)) = {}
  BY <1>2, SetNone DEF Placed, Prompts
<1>4. QED
  BY <1>1, <1>3 DEF Placed

\* The worker takes what was queued during the turn.
LEMMA HandedOver ==
  ASSUME NEW o \in BOOLEAN, NEW a \in Seq(Nat), NEW b \in Seq(Nat), NEW c \in Seq(Nat),
         NEW d \in Seq(Nat), NEW e \in Seq(Nat), NEW f \in Seq(Nat), NEW g \in Seq(Nat),
         NEW x, NEW n \in Nat, Placed(o, a, b, c, d, e, f, g, x, n),
         b = <<>>
  PROVE  Placed(o, a, c, <<>>, d, e, f, g, x, n)
<1>1. InOrder(o, a, c, <<>>, d, e, f, g)
  BY Nothing DEF Placed, InOrder
<1>2. /\ Prompts(a, c, <<>>, d, e, f, g) \cup x = 1..n
      /\ Prompts(a, c, <<>>, d, e, f, g) \cap x = {}
  BY SetNone DEF Placed, Prompts
<1>3. QED
  BY <1>1, <1>2 DEF Placed

\* The front end gives the worker its queue.
LEMMA Answered ==
  ASSUME NEW o \in BOOLEAN, NEW a \in Seq(Nat), NEW b \in Seq(Nat), NEW c \in Seq(Nat),
         NEW d \in Seq(Nat), NEW e \in Seq(Nat), NEW f \in Seq(Nat), NEW g \in Seq(Nat),
         NEW x, NEW n \in Nat, Placed(o, a, b, c, d, e, f, g, x, n),
         c = <<>>, o => d = <<>>
  PROVE  Placed(o, a, b, e, d, <<>>, f, g, x, n)
<1>1. InOrder(o, a, b, e, d, <<>>, f, g)
  BY Nothing, ApartSwap DEF Placed, InOrder
<1>2. /\ Prompts(a, b, e, d, <<>>, f, g) \cup x = 1..n
      /\ Prompts(a, b, e, d, <<>>, f, g) \cap x = {}
  BY SetNone DEF Placed, Prompts
<1>3. QED
  BY <1>1, <1>2 DEF Placed

\* The front end submits its queue.
LEMMA Submitted ==
  ASSUME NEW o \in BOOLEAN, NEW a \in Seq(Nat), NEW b \in Seq(Nat), NEW c \in Seq(Nat),
         NEW d \in Seq(Nat), NEW e \in Seq(Nat), NEW f \in Seq(Nat), NEW g \in Seq(Nat),
         NEW x, NEW n \in Nat, Placed(o, a, b, c, d, e, f, g, x, n),
         d = <<>>
  PROVE  Placed(o, a, b, c, e, <<>>, f, g, x, n)
<1>1. InOrder(o, a, b, c, e, <<>>, f, g)
  BY Nothing DEF Placed, InOrder
<1>2. /\ Prompts(a, b, c, e, <<>>, f, g) \cup x = 1..n
      /\ Prompts(a, b, c, e, <<>>, f, g) \cap x = {}
  BY SetNone DEF Placed, Prompts
<1>3. QED
  BY <1>1, <1>2 DEF Placed

\* The front end submits what it has read.
LEMMA Offered ==
  ASSUME NEW o \in BOOLEAN, NEW a \in Seq(Nat), NEW b \in Seq(Nat), NEW c \in Seq(Nat),
         NEW d \in Seq(Nat), NEW e \in Seq(Nat), NEW f \in Seq(Nat), NEW g \in Seq(Nat),
         NEW x, NEW n \in Nat, Placed(o, a, b, c, d, e, f, g, x, n),
         d = <<>>, o => e = <<>>
  PROVE  Placed(o, a, b, c, f, e, <<>>, g, x, n)
<1>1. InOrder(o, a, b, c, f, e, <<>>, g)
  BY Nothing, ApartSwap DEF Placed, InOrder
<1>2. /\ Prompts(a, b, c, f, e, <<>>, g) \cup x = 1..n
      /\ Prompts(a, b, c, f, e, <<>>, g) \cap x = {}
  BY SetNone DEF Placed, Prompts
<1>3. QED
  BY <1>1, <1>2 DEF Placed

\* What was read is queued.
LEMMA Queued ==
  ASSUME NEW o \in BOOLEAN, NEW a \in Seq(Nat), NEW b \in Seq(Nat), NEW c \in Seq(Nat),
         NEW d \in Seq(Nat), NEW e \in Seq(Nat), NEW f \in Seq(Nat), NEW g \in Seq(Nat),
         NEW x, NEW n \in Nat, Placed(o, a, b, c, d, e, f, g, x, n)
  PROVE  Placed(o, a, b, c, d, e \o f, <<>>, g, x, n)
<1>1. InOrder(o, a, b, c, d, e \o f, <<>>, g)
  BY Nothing, TidyConcat, ApartConcat DEF Placed, InOrder
<1>2. /\ Prompts(a, b, c, d, e \o f, <<>>, g) \cup x = 1..n
      /\ Prompts(a, b, c, d, e \o f, <<>>, g) \cap x = {}
  BY SetNone, SetConcat DEF Placed, Prompts
<1>3. QED
  BY <1>1, <1>2 DEF Placed

\* What was read goes back to the editor.
LEMMA Returned ==
  ASSUME NEW o \in BOOLEAN, NEW a \in Seq(Nat), NEW b \in Seq(Nat), NEW c \in Seq(Nat),
         NEW d \in Seq(Nat), NEW e \in Seq(Nat), NEW f \in Seq(Nat), NEW g \in Seq(Nat),
         NEW x, NEW n \in Nat, Placed(o, a, b, c, d, e, f, g, x, n)
  PROVE  Placed(o, a, b, c, d, e, <<>>, g, x \cup ToSet(f), n)
<1>1. InOrder(o, a, b, c, d, e, <<>>, g)
  BY Nothing DEF Placed, InOrder
<1>2. /\ ToSet(f) \cap ToSet(a) = {}
      /\ ToSet(f) \cap ToSet(b) = {}
      /\ ToSet(f) \cap ToSet(c) = {}
      /\ ToSet(f) \cap ToSet(d) = {}
      /\ ToSet(f) \cap ToSet(e) = {}
      /\ ToSet(f) \cap ToSet(g) = {}
  BY DEF Placed, InOrder, Apart
<1>3. /\ Prompts(a, b, c, d, e, <<>>, g) \cup (x \cup ToSet(f)) = 1..n
      /\ Prompts(a, b, c, d, e, <<>>, g) \cap (x \cup ToSet(f)) = {}
  BY <1>2, SetNone DEF Placed, Prompts
<1>4. QED
  BY <1>1, <1>3 DEF Placed

\* The front end reads its input.
LEMMA WasRead ==
  ASSUME NEW o \in BOOLEAN, NEW a \in Seq(Nat), NEW b \in Seq(Nat), NEW c \in Seq(Nat),
         NEW d \in Seq(Nat), NEW e \in Seq(Nat), NEW f \in Seq(Nat), NEW g \in Seq(Nat),
         NEW x, NEW n \in Nat, Placed(o, a, b, c, d, e, f, g, x, n)
  PROVE  Placed(o, a, b, c, d, e, f \o g, <<>>, x, n)
<1>1. InOrder(o, a, b, c, d, e, f \o g, <<>>)
  BY Nothing, TidyConcat, ApartConcat DEF Placed, InOrder
<1>2. /\ Prompts(a, b, c, d, e, f \o g, <<>>) \cup x = 1..n
      /\ Prompts(a, b, c, d, e, f \o g, <<>>) \cap x = {}
  BY SetNone, SetConcat DEF Placed, Prompts
<1>3. QED
  BY <1>1, <1>2 DEF Placed

\* The user takes the first queued text back into the editor.
LEMMA Edited ==
  ASSUME NEW o \in BOOLEAN, NEW a \in Seq(Nat), NEW b \in Seq(Nat), NEW c \in Seq(Nat),
         NEW d \in Seq(Nat), NEW e \in Seq(Nat), NEW f \in Seq(Nat), NEW g \in Seq(Nat),
         NEW x, NEW n \in Nat, Placed(o, a, b, c, d, e, f, g, x, n),
         NEW h \in Seq(Nat), NEW t \in Seq(Nat), e = h \o t
  PROVE  Placed(o, a, b, c, d, t, f, g, x \cup ToSet(h), n)
<1>1. InOrder(o, a, b, c, d, t, f, g)
  BY TidyConcat, ApartConcat DEF Placed, InOrder
<1>2. ToSet(e) = ToSet(h) \cup ToSet(t)
  BY SetConcat
<1>3. /\ ToSet(h) \cap ToSet(a) = {} /\ ToSet(h) \cap ToSet(b) = {}
      /\ ToSet(h) \cap ToSet(c) = {} /\ ToSet(h) \cap ToSet(d) = {}
      /\ ToSet(h) \cap ToSet(f) = {} /\ ToSet(h) \cap ToSet(g) = {}
  BY <1>2 DEF Placed, InOrder, Apart
<1>4. Tidy(o, h \o t)
  BY DEF Placed, InOrder
<1>5. Apart(o, h, t)
  BY <1>4, TidyConcat
<1>6. ToSet(h) \cap ToSet(t) = {}
  BY <1>5 DEF Apart
<1>7. /\ Prompts(a, b, c, d, t, f, g) \cup (x \cup ToSet(h)) = 1..n
      /\ Prompts(a, b, c, d, t, f, g) \cap (x \cup ToSet(h)) = {}
  BY <1>2, <1>3, <1>6 DEF Placed, Prompts
<1>8. QED
  BY <1>1, <1>7 DEF Placed

\* The user types the next prompt.
LEMMA Typed ==
  ASSUME NEW o \in BOOLEAN, NEW a \in Seq(Nat), NEW b \in Seq(Nat), NEW c \in Seq(Nat),
         NEW d \in Seq(Nat), NEW e \in Seq(Nat), NEW f \in Seq(Nat), NEW g \in Seq(Nat),
         NEW x, NEW n \in Nat, Placed(o, a, b, c, d, e, f, g, x, n)
  PROVE  /\ Placed(o, a, b, c, d, e, f, g \o <<n + 1>>, x, n + 1)
         /\ g = <<>> => Placed(o, a, b, c, d, e, f \o <<n + 1>>, <<>>, x, n + 1)
<1> DEFINE p == <<n + 1>>
<1>1. p \in Seq(Nat) /\ ToSet(p) = {n + 1}
  BY SetOne
<1>2. Tidy(o, p)
  <2>1. DOMAIN p = {1}
    OBVIOUS
  <2>2. QED
    BY <2>1 DEF Tidy, IsInjective
<1> HIDE DEF p
<1>3. Prompts(a, b, c, d, e, f, g) \subseteq 1..n
  BY DEF Placed
<1>4. ASSUME NEW s, ToSet(s) \subseteq 1..n
      PROVE  Apart(o, s, p)
  BY <1>1, <1>4 DEF Apart
<1>5. /\ Apart(o, a, p) /\ Apart(o, b, p) /\ Apart(o, c, p) /\ Apart(o, d, p)
      /\ Apart(o, e, p) /\ Apart(o, f, p) /\ Apart(o, g, p)
  BY <1>3, <1>4 DEF Prompts
<1>6. 1..(n + 1) = 1..n \cup {n + 1} /\ n + 1 \notin 1..n /\ n + 1 \notin x
  <2>1. x \subseteq 1..n
    BY DEF Placed
  <2>2. QED
    BY <2>1
<1>7. Placed(o, a, b, c, d, e, f, g \o p, x, n + 1)
  <2>1. InOrder(o, a, b, c, d, e, f, g \o p)
    BY <1>1, <1>2, <1>5, TidyConcat, ApartConcat DEF Placed, InOrder
  <2>2. ToSet(g \o p) = ToSet(g) \cup {n + 1}
    BY <1>1, SetConcat
  <2>3. QED
    BY <1>6, <2>1, <2>2 DEF Placed, Prompts
<1>8. ASSUME g = <<>> PROVE Placed(o, a, b, c, d, e, f \o p, <<>>, x, n + 1)
  <2>1. InOrder(o, a, b, c, d, e, f \o p, <<>>)
    BY <1>1, <1>2, <1>5, Nothing, TidyConcat, ApartConcat DEF Placed, InOrder
  <2>2. ToSet(f \o p) = ToSet(f) \cup {n + 1} /\ ToSet(<<>>) = {}
    BY <1>1, SetConcat, SetNone
  <2>3. QED
    BY <1>6, <1>8, <2>1, <2>2 DEF Placed, Prompts
<1>9. QED
  BY <1>7, <1>8 DEF p

-----------------------------------------------------------------------------
(* The prompts stay in their places: the steps of the worker. *)

textVars == <<env, told, hand, drainText, cmd, queue, input, stdin, aside, typed>>

\* What the places are made of.
LEMMA PlacesType ==
  Texts => Flat \in Seq(Nat) /\ Headless \in BOOLEAN
  BY FlattenType DEF Texts, Flat, Headless

\* A step that touches no text moves no prompt.
LEMMA PlacesFrame ==
  ASSUME Places, UNCHANGED textVars
  PROVE  Places'
  BY DEF Places, Texts, Flat, Headless, textVars

\* The worker takes a submitted prompt.
LEMMA AwakePlaces ==
  ASSUME PromptInv, Awake
  PROVE  Places'
<1>1. CASE UNCHANGED <<cmd, hand>>
  BY <1>1, PlacesFrame DEF Awake, PromptInv, textVars, uiVars, userVars, histVars, askVars
<1>2. CASE hand' = cmd /\ cmd' = <<>>
  <2>1. hand = <<>> /\ drainText = <<>>
    BY DEF Awake, PromptInv, WorkerHas
  <2>2. /\ UNCHANGED <<env, told, drainText, queue, input, stdin, aside, typed>>
        /\ Flat' = Flat /\ Headless' = Headless
    BY DEF Awake, uiVars, userVars, histVars, askVars, Flat, Headless
  <2>3. Texts'
    BY <1>2, <2>2 DEF PromptInv, Places, Texts
  <2>4. Placed(Headless, told, cmd, <<>>, <<>>, Flat, input, stdin, aside, typed)
    BY <2>1, PlacesType, Taken DEF PromptInv, Places, Texts
  <2>5. QED
    BY <1>2, <2>1, <2>2, <2>3, <2>4 DEF Places
<1>3. QED
  BY <1>1, <1>2 DEF Awake

\* A compaction that fails drops the text it was to make room for.
LEMMA CompactEndsPlaces ==
  ASSUME PromptInv, CompactEnds
  PROVE  Places'
<1>1. CASE UNCHANGED <<hand, aside>>
  BY <1>1, PlacesFrame DEF CompactEnds, PromptInv, textVars, uiVars, userVars, askVars
<1>2. CASE hand' = <<>> /\ aside' = aside \cup ToSet(hand)
  <2>1. /\ UNCHANGED <<env, told, drainText, cmd, queue, input, stdin, typed>>
        /\ Flat' = Flat /\ Headless' = Headless
    BY DEF CompactEnds, uiVars, userVars, askVars, Flat, Headless
  <2>2. Texts'
    BY <1>2, <2>1 DEF PromptInv, Places, Texts
  <2>3. Placed(Headless, told, <<>>, drainText, cmd, Flat, input, stdin,
               aside \cup ToSet(hand), typed)
    BY PlacesType, Dropped DEF PromptInv, Places, Texts
  <2>4. QED
    BY <1>2, <2>1, <2>2, <2>3 DEF Places
<1>3. QED
  BY <1>1, <1>2 DEF CompactEnds

\* The text reaches the transcript, or is too large for it.
LEMMA AppendUserPlaces ==
  ASSUME PromptInv, AppendUser
  PROVE  Places'
<1>1. /\ UNCHANGED <<env, drainText, cmd, queue, input, stdin, typed>> /\ hand' = <<>>
      /\ Flat' = Flat /\ Headless' = Headless
  BY DEF AppendUser, uiVars, userVars, askVars, Flat, Headless
<1>2. CASE told' = told \o hand /\ UNCHANGED aside
  <2>1. Texts'
    BY <1>1, <1>2 DEF PromptInv, Places, Texts
  <2>2. Placed(Headless, told \o hand, <<>>, drainText, cmd, Flat, input, stdin, aside, typed)
    BY PlacesType, Told DEF PromptInv, Places, Texts
  <2>3. QED
    BY <1>1, <1>2, <2>1, <2>2 DEF Places
<1>3. CASE aside' = aside \cup ToSet(hand) /\ UNCHANGED told
  <2>1. Texts'
    BY <1>1, <1>3 DEF PromptInv, Places, Texts
  <2>2. Placed(Headless, told, <<>>, drainText, cmd, Flat, input, stdin,
               aside \cup ToSet(hand), typed)
    BY PlacesType, Dropped DEF PromptInv, Places, Texts
  <2>3. QED
    BY <1>1, <1>3, <2>1, <2>2 DEF Places
<1>4. QED
  BY <1>2, <1>3 DEF AppendUser

\* The worker asks for what was queued; it has nothing handed over yet.
LEMMA RequestDrainPlaces ==
  ASSUME PromptInv, RequestDrain
  PROVE  Places'
<1>1. drainText = <<>>
  BY DEF RequestDrain, PromptInv, WorkerHas
<1>2. QED
  BY <1>1, PlacesFrame DEF RequestDrain, PromptInv, textVars, turnVars, uiVars, userVars, histVars

\* It takes what it was given.
LEMMA DrainedPlaces ==
  ASSUME PromptInv, Drained
  PROVE  Places'
<1>1. hand = <<>>
  BY DEF Drained, PromptInv, WorkerHas
<1>2. /\ UNCHANGED <<env, told, cmd, queue, input, stdin, aside, typed>>
      /\ hand' = drainText /\ drainText' = <<>> /\ Flat' = Flat /\ Headless' = Headless
  BY DEF Drained, uiVars, userVars, histVars, Flat, Headless
<1>3. Texts'
  BY <1>2 DEF PromptInv, Places, Texts
<1>4. Placed(Headless, told, drainText, <<>>, cmd, Flat, input, stdin, aside, typed)
  BY <1>1, PlacesType, HandedOver DEF PromptInv, Places, Texts
<1>5. QED
  BY <1>2, <1>3, <1>4 DEF Places

-----------------------------------------------------------------------------
(* The prompts stay in their places: the steps of the front end. *)

\* The front end hands over its queue; nothing is submitted meanwhile.
LEMMA AnswerDrainPlaces ==
  ASSUME PromptInv, AnswerDrain
  PROVE  Places'
<1>1. wpc = "draining" /\ drainText = <<>>
  BY DEF AnswerDrain, PromptInv, WorkerHas
<1>2. Headless => cmd = <<>>
  BY <1>1 DEF PromptInv, FrontHas, IInv, StatusTells, Resting
<1>3. /\ UNCHANGED <<env, told, hand, cmd, input, stdin, aside, typed>>
      /\ drainText' = Flat /\ queue' = <<>> /\ Headless' = Headless
  BY DEF AnswerDrain, UiKeeps, turnVars, histVars, userVars, Flat, Headless
<1>4. Flat' = <<>>
  BY <1>3, FlattenNone DEF Flat
<1>5. Texts'
  BY <1>3, PlacesType DEF PromptInv, Places, Texts
<1>6. Placed(Headless, told, hand, Flat, cmd, <<>>, input, stdin, aside, typed)
  BY <1>1, <1>2, PlacesType, Answered DEF PromptInv, Places, Texts
<1>7. QED
  BY <1>3, <1>4, <1>5, <1>6 DEF Places

\* The queue is submitted as one text, or put back as one.
LEMMA SubmitQueuePlaces ==
  ASSUME PromptInv, SubmitQueue
  PROVE  Places'
<1>1. /\ UNCHANGED <<env, told, hand, drainText, input, stdin, aside, typed>>
      /\ Headless' = Headless
  BY DEF SubmitQueue, UiKeeps, turnVars, histVars, userVars, askVars, Headless
<1>2. CASE Submit(Flat) /\ queue' = <<>>
  <2>1. cmd = <<>> /\ cmd' = Flat
    BY <1>2 DEF Submit, CanSubmit
  <2>2. Flat' = <<>>
    BY <1>2, FlattenNone DEF Flat
  <2>3. Texts'
    BY <1>1, <1>2, <2>1, PlacesType DEF PromptInv, Places, Texts
  <2>4. Placed(Headless, told, hand, drainText, Flat, <<>>, input, stdin, aside, typed)
    BY <2>1, PlacesType, Submitted DEF PromptInv, Places, Texts
  <2>5. QED
    BY <1>1, <2>1, <2>2, <2>3, <2>4 DEF Places
<1>3. CASE queue' = <<Flat>> /\ UNCHANGED cmd
  <2>1. Flat \in Seq(Nat)
    BY PlacesType DEF PromptInv, Places
  <2>2. Flat' = Flat
    BY <1>3, <2>1, FlattenOne DEF Flat
  <2>3. queue' \in Seq(Seq(Nat))
    BY <1>3, <2>1
  <2>4. QED
    BY <1>1, <1>3, <2>2, <2>3 DEF PromptInv, Places, Texts
<1>4. QED
  BY <1>2, <1>3 DEF SubmitQueue, Flat

\* What was read, at the end of the queue.
LEMMA QueueGrows ==
  ASSUME Texts, NEW t \in Seq(Nat), queue' = Append(queue, t)
  PROVE  Flat' = Flat \o t /\ queue' \in Seq(Seq(Nat))
<1>1. queue \in Seq(Seq(Nat))
  BY DEF Texts
<1>2. Append(queue, t) \in Seq(Seq(Nat))
  BY <1>1
<1>3. FlattenSeq(Append(queue, t)) = FlattenSeq(queue) \o t
  BY <1>1, FlattenAppend, Zenon
<1>4. QED
  BY <1>2, <1>3 DEF Flat

\* What was read is submitted, queued, or given back to the editor.
LEMMA OfferPlaces ==
  ASSUME PromptInv, Offer
  PROVE  Places'
<1>1. /\ UNCHANGED <<env, told, hand, drainText, stdin, typed>>
      /\ input' = <<>> /\ Headless' = Headless
  BY DEF Offer, turnVars, userVars, askVars, Headless
<1>2. CASE Submit(input) /\ UNCHANGED <<queue, aside>>
  <2>1. cmd = <<>> /\ cmd' = input /\ Flat' = Flat
    BY <1>2 DEF Submit, CanSubmit, Flat
  <2>2. Headless => Flat = <<>>
    BY FlattenNone DEF PromptInv, FrontHas, Offer, Flat
  <2>3. Texts'
    BY <1>1, <1>2, <2>1 DEF PromptInv, Places, Texts
  <2>4. Placed(Headless, told, hand, drainText, input, Flat, <<>>, stdin, aside, typed)
    BY <2>1, <2>2, PlacesType, Offered DEF PromptInv, Places, Texts
  <2>5. QED
    BY <1>1, <1>2, <2>1, <2>3, <2>4 DEF Places
<1>3. CASE aside' = aside \cup ToSet(input) /\ UNCHANGED <<cmd, queue>>
  <2>1. Flat' = Flat
    BY <1>3 DEF Flat
  <2>2. Texts'
    BY <1>1, <1>3 DEF PromptInv, Places, Texts
  <2>3. Placed(Headless, told, hand, drainText, cmd, Flat, <<>>, stdin,
               aside \cup ToSet(input), typed)
    BY PlacesType, Returned DEF PromptInv, Places, Texts
  <2>4. QED
    BY <1>1, <1>3, <2>1, <2>2, <2>3 DEF Places
<1>4. CASE queue' = Append(queue, input) /\ UNCHANGED <<cmd, aside>>
  <2>1. Flat' = Flat \o input /\ queue' \in Seq(Seq(Nat))
    BY <1>4, QueueGrows DEF PromptInv, Places, Texts
  <2>2. Texts'
    BY <1>1, <1>4, <2>1 DEF PromptInv, Places, Texts
  <2>3. Placed(Headless, told, hand, drainText, cmd, Flat \o input, <<>>, stdin, aside, typed)
    BY PlacesType, Queued DEF PromptInv, Places, Texts
  <2>4. QED
    BY <1>1, <1>4, <2>1, <2>2, <2>3 DEF Places
<1>5. QED
  BY <1>2, <1>3, <1>4 DEF Offer

\* stdin is read.
LEMMA PollPlaces ==
  ASSUME PromptInv, Poll
  PROVE  Places'
<1>1. /\ UNCHANGED <<env, told, hand, drainText, cmd, queue, aside, typed>>
      /\ Flat' = Flat /\ Headless' = Headless
  BY DEF Poll, UiKeeps, turnVars, histVars, askVars, Flat, Headless
<1>2. CASE UNCHANGED <<input, stdin>>
  BY <1>1, <1>2 DEF PromptInv, Places, Texts
<1>3. CASE input' = input \o stdin /\ stdin' = <<>>
  <2>1. Texts'
    BY <1>1, <1>3 DEF PromptInv, Places, Texts
  <2>2. Placed(Headless, told, hand, drainText, cmd, Flat, input \o stdin, <<>>, aside, typed)
    BY PlacesType, WasRead DEF PromptInv, Places, Texts
  <2>3. QED
    BY <1>1, <1>3, <2>1, <2>2 DEF Places
<1>4. QED
  BY <1>2, <1>3 DEF Poll

\* What was read is queued behind what waits already.
LEMMA TakeInputPlaces ==
  ASSUME PromptInv, TakeInput
  PROVE  Places'
<1>1. /\ UNCHANGED <<env, told, hand, drainText, cmd, stdin, aside, typed>>
      /\ Headless' = Headless
  BY DEF TakeInput, UiKeeps, turnVars, histVars, userVars, askVars, Headless
<1>2. CASE UNCHANGED <<queue, input>>
  BY <1>1, <1>2 DEF PromptInv, Places, Texts, Flat
<1>3. CASE queue' = Append(queue, input) /\ input' = <<>>
  <2>1. Flat' = Flat \o input /\ queue' \in Seq(Seq(Nat))
    BY <1>3, QueueGrows DEF PromptInv, Places, Texts
  <2>2. Texts'
    BY <1>1, <1>3, <2>1 DEF PromptInv, Places, Texts
  <2>3. Placed(Headless, told, hand, drainText, cmd, Flat \o input, <<>>, stdin, aside, typed)
    BY PlacesType, Queued DEF PromptInv, Places, Texts
  <2>4. QED
    BY <1>1, <1>3, <2>1, <2>2, <2>3 DEF Places
<1>4. QED
  BY <1>2, <1>3 DEF TakeInput

\* The user of the terminal enters a prompt.
LEMMA LinePlaces ==
  ASSUME PromptInv, Line
  PROVE  Places'
<1> DEFINE p == <<typed + 1>>
<1>1. /\ UNCHANGED <<env, told, hand, drainText, cmd, stdin, aside>>
      /\ Headless' = Headless
  BY DEF Line, UiKeeps, turnVars, histVars, askVars, Headless
<1>2. input = <<>> /\ stdin = <<>>
  BY DEF Line, PromptInv, FrontHas, HeadlessAt
<1>3. typed \in Nat /\ p \in Seq(Nat) /\ <<>> \o p = p
  BY DEF PromptInv, Places, Texts
<1>4. Placed(Headless, told, hand, drainText, cmd, Flat, <<>> \o p, <<>>, aside, typed + 1)
  BY <1>2, PlacesType, Typed DEF PromptInv, Places, Texts
<1> HIDE DEF p
<1>5. Placed(Headless, told, hand, drainText, cmd, Flat, p, <<>>, aside, typed + 1)
  BY <1>3, <1>4
<1>6. CASE UNCHANGED <<queue, input, typed>>
  BY <1>1, <1>6 DEF PromptInv, Places, Texts, Flat
<1>7. CASE typed' = typed + 1 /\ input' = p /\ UNCHANGED queue
  <2>1. Flat' = Flat
    BY <1>7 DEF Flat
  <2>2. Texts'
    BY <1>1, <1>3, <1>7 DEF PromptInv, Places, Texts
  <2>3. QED
    BY <1>1, <1>2, <1>5, <1>7, <2>1, <2>2 DEF Places
<1>8. CASE typed' = typed + 1 /\ queue' = Append(queue, p) /\ UNCHANGED input
  <2>1. Flat' = Flat \o p /\ queue' \in Seq(Seq(Nat))
    BY <1>3, <1>8, QueueGrows DEF PromptInv, Places
  <2>2. Texts'
    BY <1>1, <1>3, <1>8, <2>1 DEF PromptInv, Places, Texts
  <2>3. /\ told \in Seq(Nat) /\ hand \in Seq(Nat) /\ drainText \in Seq(Nat)
        /\ cmd \in Seq(Nat) /\ Flat \in Seq(Nat) /\ <<>> \in Seq(Nat) /\ typed + 1 \in Nat
        /\ Headless \in BOOLEAN
    BY PlacesType DEF PromptInv, Places, Texts
  <2>4. Placed(Headless, told, hand, drainText, cmd, Flat \o p, <<>>, <<>>, aside, typed + 1)
    BY <1>3, <1>5, <2>3, Queued
  <2>5. QED
    BY <1>1, <1>2, <1>8, <2>1, <2>2, <2>4 DEF Places
<1>9. QED
  BY <1>6, <1>7, <1>8 DEF Line, p

\* The first queued text goes back to the editor.
LEMMA EditQueuedPlaces ==
  ASSUME PromptInv, EditQueued
  PROVE  Places'
<1>1. /\ UNCHANGED <<env, told, hand, drainText, cmd, input, stdin, typed>>
      /\ Headless' = Headless /\ queue # <<>> /\ queue' = Tail(queue)
      /\ aside' = aside \cup ToSet(Head(queue))
  BY DEF EditQueued, turnVars, userVars, askVars, Headless
<1>2. /\ queue \in Seq(Seq(Nat)) /\ Head(queue) \in Seq(Nat) /\ Tail(queue) \in Seq(Seq(Nat))
  BY <1>1 DEF PromptInv, Places, Texts
<1>3. Flat = Head(queue) \o Flat' /\ Flat' \in Seq(Nat)
  BY <1>1, <1>2, FlattenHead, FlattenType DEF Flat
<1>4. Texts'
  BY <1>1, <1>2 DEF PromptInv, Places, Texts
<1>5. Placed(Headless, told, hand, drainText, cmd, Flat', input, stdin,
             aside \cup ToSet(Head(queue)), typed)
  BY <1>2, <1>3, PlacesType, Edited DEF PromptInv, Places, Texts
<1>6. QED
  BY <1>1, <1>4, <1>5 DEF Places

\* The user of the headless loop types, or closes stdin.
LEMMA UserKeeps ==
  ASSUME PromptInv, User
  PROVE  Places' /\ WorkerHas' /\ FrontHas' /\ NothingLeft'
<1>1. /\ UNCHANGED <<env, told, hand, drainText, cmd, queue, input, aside>>
      /\ Flat' = Flat /\ Headless' = Headless
  BY DEF User, UiKeeps, turnVars, histVars, askVars, uiVars, Flat, Headless
<1>2. Places'
  <2>1. CASE UNCHANGED <<typed, stdin>>
    BY <1>1, <2>1 DEF PromptInv, Places, Texts
  <2>2. CASE typed' = typed + 1 /\ stdin' = Append(stdin, typed + 1)
    <3>1. stdin \in Seq(Nat) /\ typed + 1 \in Nat
      BY DEF PromptInv, Places, Texts
    <3>2. stdin' = stdin \o <<typed + 1>>
      BY <2>2, <3>1, AppendIsConcat
    <3>3. Texts'
      BY <1>1, <2>2, <3>1 DEF PromptInv, Places, Texts
    <3>4. Placed(Headless, told, hand, drainText, cmd, Flat, input, stdin \o <<typed + 1>>,
                 aside, typed + 1)
      BY PlacesType, Typed DEF PromptInv, Places, Texts
    <3>5. QED
      BY <1>1, <2>2, <3>2, <3>3, <3>4 DEF Places
  <2>3. QED
    BY <2>1, <2>2 DEF User
<1>3. WorkerHas'
  BY DEF User, PromptInv, WorkerHas, UiKeeps, turnVars, askVars, uiVars
<1>4. FrontHas'
  BY <1>1 DEF User, PromptInv, FrontHas, Headless, UiKeeps, wantVars, uiVars
<1>5. NothingLeft'
  BY <1>1 DEF User, PromptInv, NothingLeft, AtRest, UiKeeps, uiVars
<1>6. QED
  BY <1>2, <1>3, <1>4, <1>5

-----------------------------------------------------------------------------
(* All steps together. *)

\* The other steps of the worker touch no prompt.
LEMMA WorkerPlaces ==
  ASSUME PromptInv, WorkerStep
  PROVE  Places'
<1>1. CASE Awake
  BY <1>1, AwakePlaces
<1>2. CASE CompactEnds
  BY <1>2, CompactEndsPlaces
<1>3. CASE AppendUser
  BY <1>3, AppendUserPlaces
<1>4. CASE RequestDrain
  BY <1>4, RequestDrainPlaces
<1>5. CASE Drained
  BY <1>5, DrainedPlaces
<1>6. CASE Boot \/ Booted \/ Sleep \/ End \/ TakeThink \/ Think \/ TakeJob
  <2>1. UNCHANGED textVars
    BY <1>6 DEF Boot, Booted, Sleep, End, TakeThink, Think, TakeJob, textVars, turnVars,
      askVars, wakeVars,
      uiVars, userVars, histVars
  <2>2. QED
    BY <2>1, PlacesFrame DEF PromptInv
<1>7. CASE Power \/ SaveBegins \/ SaveEnds \/ CompactBegins
           \/ Turn \/ TurnCompacts \/ TurnHasRoom
  <2>1. UNCHANGED textVars
    BY <1>7 DEF Power, SaveBegins, SaveEnds, CompactBegins, Turn, TurnCompacts,
      TurnHasRoom, textVars, turnVars, askVars, wakeVars,
      uiVars, userVars, histVars
  <2>2. QED
    BY <2>1, PlacesFrame DEF PromptInv
<1>8. CASE Prefill \/ Generate \/ Tool \/ Approved \/ Acknowledge \/ PublishIdle \/ Error
  <2>1. UNCHANGED textVars
    BY <1>8 DEF Prefill, Generate, Tool, Approved, Acknowledge, PublishIdle, Error,
      textVars, turnVars, askVars, wakeVars,
      uiVars, userVars, histVars
  <2>2. QED
    BY <2>1, PlacesFrame DEF PromptInv
<1>9. QED
  BY <1>1, <1>2, <1>3, <1>4, <1>5, <1>6, <1>7, <1>8 DEF WorkerStep

\* Nor do the other steps of the front end.
LEMMA FrontPlaces ==
  ASSUME PromptInv, UiStep
  PROVE  Places'
<1>1. CASE AnswerDrain
  BY <1>1, AnswerDrainPlaces
<1>2. CASE SubmitQueue
  BY <1>2, SubmitQueuePlaces
<1>3. CASE Offer
  BY <1>3, OfferPlaces
<1>4. CASE Poll
  BY <1>4, PollPlaces
<1>5. CASE TakeInput
  BY <1>5, TakeInputPlaces
<1>6. CASE Line
  BY <1>6, LinePlaces
<1>7. CASE EditQueued
  BY <1>7, EditQueuedPlaces
<1>8. CASE Consume \/ ResetError \/ TakeDrain \/ Top \/ LeaveInput \/ Check \/ Keys
  <2>1. UNCHANGED textVars
    BY <1>8 DEF Consume, ResetError, TakeDrain, Top, LeaveInput, Check, Keys, textVars,
      UiKeeps,
      turnVars, askVars, uiVars, userVars, histVars
  <2>2. QED
    BY <2>1, PlacesFrame DEF PromptInv
<1>9. CASE Interrupt \/ TakeApproval \/ AnswerApproval \/ Request
           \/ Command \/ Unsaved \/ AskIdle
  <2>1. UNCHANGED textVars
    BY <1>9 DEF Interrupt, TakeApproval, AnswerApproval, Request, Command, Unsaved,
      AskIdle, textVars, UiKeeps,
      turnVars, askVars, uiVars, userVars, histVars
  <2>2. QED
    BY <2>1, PlacesFrame DEF PromptInv
<1>10. CASE SaveSession \/ NewSession \/ NewSync \/ NewEnds \/ Steer \/ Leave \/ Join
  <2>1. UNCHANGED textVars
    BY <1>10 DEF SaveSession, NewSession, NewSync, NewEnds, Steer, Leave, Join,
      textVars, UiKeeps,
      turnVars, askVars, uiVars, userVars, histVars
  <2>2. QED
    BY <2>1, PlacesFrame DEF PromptInv
<1>11. QED
  BY <1>1, <1>2, <1>3, <1>4, <1>5, <1>6, <1>7, <1>8, <1>9, <1>10 DEF UiStep

\* The initial states: a one-shot run starts with its prompt queued.
LEMMA PromptInit == Init => PromptInv
<1> SUFFICES ASSUME Init PROVE PromptInv
  OBVIOUS
<1>1. IInv
  BY DEF Init, IInv, StatusTells, FrontHolds, AtRest, Resting, Working
<1>2. /\ told = <<>> /\ hand = <<>> /\ drainText = <<>> /\ cmd = <<>> /\ input = <<>>
      /\ stdin = <<>> /\ aside = {} /\ Headless \in BOOLEAN
  BY DEF Init, Headless
<1>3. Texts
  BY <1>2 DEF Init, Texts
<1>4. CASE env.mode # "oneshot"
  <2>1. Flat = <<>> /\ typed = 0
    BY <1>4, FlattenNone DEF Init, Flat
  <2>2. Places
    BY <1>2, <1>3, <2>1, Nothing, SetNone DEF Places, Placed, InOrder, Prompts
  <2>3. QED
    BY <1>1, <1>2, <1>4, <2>2, AgentAssumption DEF Init, PromptInv, WorkerHas, FrontHas,
      HeadlessAt,
      NothingLeft, Headless
<1>5. CASE env.mode = "oneshot"
  <2>1. <<1>> \in Seq(Nat)
    OBVIOUS
  <2>2. Flat = <<1>> /\ typed = 1
    BY <1>5, <2>1, FlattenOne DEF Init, Flat
  <2>3. ToSet(<<1>>) = {1}
    BY SetOne
  <2>4. Tidy(Headless, <<1>>)
    BY DEF Tidy, IsInjective
  <2>5. Places
    BY <1>2, <1>3, <2>2, <2>3, <2>4, Nothing, SetNone DEF Places, Placed, InOrder, Prompts
  <2>6. QED
    BY <1>1, <1>2, <1>5, <2>5 DEF Init, PromptInv, WorkerHas, FrontHas, HeadlessAt,
      NothingLeft, Headless
<1>6. QED
  BY <1>4, <1>5

\* Every step keeps the invariant.
LEMMA PromptStep == PromptInv /\ [Next]_vars => PromptInv'
<1> SUFFICES ASSUME PromptInv, [Next]_vars PROVE PromptInv'
  OBVIOUS
<1>1. IInv'
  BY SessionStep DEF PromptInv
<1>2. CASE WorkerStep
  BY <1>1, <1>2, WorkerStays, WorkerPlaces DEF PromptInv
<1>3. CASE UiStep
  BY <1>1, <1>3, FrontStays, FrontPlaces DEF PromptInv
<1>4. CASE User
  BY <1>1, <1>4, UserKeeps DEF PromptInv
<1>5. CASE UNCHANGED vars
  <2>1. UNCHANGED textVars
    BY <1>5 DEF vars, textVars, turnVars, askVars, uiVars, userVars, histVars
  <2>2. WorkerHas' /\ FrontHas' /\ NothingLeft'
    BY <1>5 DEF vars, turnVars, askVars, uiVars, userVars, histVars, flagVars, wantVars,
      PromptInv, WorkerHas, FrontHas, NothingLeft, AtRest, Headless
  <2>3. QED
    BY <1>1, <2>1, <2>2, PlacesFrame DEF PromptInv
<1>6. QED
  BY <1>2, <1>3, <1>4, <1>5 DEF Next

\* What the places say of the whole way of the prompts.
LEMMA WayIsTidy ==
  ASSUME PromptInv
  PROVE  LET way == told \o hand \o drainText \o cmd \o FlattenSeq(queue) \o input \o stdin
         IN  Tidy(Headless, way) /\ ToSet(way) \cup aside = 1..typed
<1> DEFINE a == told
           b == a \o hand
           c == b \o drainText
           d == c \o cmd
           e == d \o Flat
           f == e \o input
           g == f \o stdin
<1>1. /\ Texts /\ Flat \in Seq(Nat) /\ Headless \in BOOLEAN
      /\ InOrder(Headless, told, hand, drainText, cmd, Flat, input, stdin)
      /\ Prompts(told, hand, drainText, cmd, Flat, input, stdin) \cup aside = 1..typed
  BY PlacesType DEF PromptInv, Places, Placed
<1>2. b \in Seq(Nat) /\ c \in Seq(Nat) /\ d \in Seq(Nat) /\ e \in Seq(Nat) /\ f \in Seq(Nat)
  BY <1>1 DEF Texts
<1>3. /\ Tidy(Headless, b) /\ Apart(Headless, b, drainText) /\ Apart(Headless, b, cmd)
      /\ Apart(Headless, b, Flat) /\ Apart(Headless, b, input) /\ Apart(Headless, b, stdin)
      /\ ToSet(b) = ToSet(told) \cup ToSet(hand)
  BY <1>1, SetConcat, TidyConcat, ApartConcat DEF Texts, InOrder
<1> HIDE DEF b
<1>4. /\ Tidy(Headless, c) /\ Apart(Headless, c, cmd) /\ Apart(Headless, c, Flat)
      /\ Apart(Headless, c, input) /\ Apart(Headless, c, stdin)
      /\ ToSet(c) = ToSet(b) \cup ToSet(drainText)
  BY <1>1, <1>2, <1>3, SetConcat, TidyConcat, ApartConcat DEF Texts, InOrder
<1> HIDE DEF c
<1>5. /\ Tidy(Headless, d) /\ Apart(Headless, d, Flat) /\ Apart(Headless, d, input)
      /\ Apart(Headless, d, stdin) /\ ToSet(d) = ToSet(c) \cup ToSet(cmd)
  BY <1>1, <1>2, <1>4, SetConcat, TidyConcat, ApartConcat DEF Texts, InOrder
<1> HIDE DEF d
<1>6. /\ Tidy(Headless, e) /\ Apart(Headless, e, input) /\ Apart(Headless, e, stdin)
      /\ ToSet(e) = ToSet(d) \cup ToSet(Flat)
  BY <1>1, <1>2, <1>5, SetConcat, TidyConcat, ApartConcat DEF Texts, InOrder
<1> HIDE DEF e
<1>7. /\ Tidy(Headless, f) /\ Apart(Headless, f, stdin)
      /\ ToSet(f) = ToSet(e) \cup ToSet(input)
  BY <1>1, <1>2, <1>6, SetConcat, TidyConcat, ApartConcat DEF Texts, InOrder
<1> HIDE DEF f
<1>8. Tidy(Headless, g) /\ ToSet(g) = ToSet(f) \cup ToSet(stdin)
  BY <1>1, <1>2, <1>7, SetConcat, TidyConcat DEF Texts, InOrder
<1> HIDE DEF g
<1>9. ToSet(g) \cup aside = 1..typed
  BY <1>1, <1>3, <1>4, <1>5, <1>6, <1>7, <1>8 DEF Prompts
<1>10. QED
  BY <1>8, <1>9 DEF g, f, e, d, c, b, Flat

\* Each prompt typed is in one place: still to be read, queued, handed over
\* between two rounds, submitted, in the transcript, or set aside because the
\* turn that was to take it there failed or was interrupted. None is lost or
\* doubled on the way, and headless they keep their order. A headless front end
\* that leaves without having seen an error leaves none under way: each is in
\* the transcript or set aside (run_agent, run_agent_non_interactive,
\* agent_prompt_queue_take_all, worker_answer_queued_user_drain, worker_submit).
THEOREM PromptsKeptCorrect == Spec => []PromptsKept
<1>1. ASSUME PromptInv PROVE OnePlace
  <2>1. ToSet(told) \cap aside = {}
    BY <1>1 DEF PromptInv, Places, Placed, Prompts
  <2>2. QED
    BY <1>1, <2>1, WayIsTidy DEF OnePlace, Tidy
<1>2. ASSUME PromptInv PROVE LeavesNothingBehind
  <2> SUFFICES ASSUME Headless, upc \in {"leave", "join", "gone"}, ~failed
               PROVE  /\ ToSet(told) \cup aside = 1..typed
                      /\ cmd = <<>> /\ wpc # "turn" /\ ~InTurn
    BY DEF LeavesNothingBehind
  <2>1. wpc \in Resting /\ cmd = <<>> /\ input = <<>> /\ queue = <<>> /\ stdin = <<>>
    BY <1>2 DEF PromptInv, NothingLeft, AtRest, FrontHas
  <2>2. hand = <<>> /\ drainText = <<>>
    BY <1>2, <2>1 DEF PromptInv, WorkerHas, Resting
  <2>3. Flat = <<>>
    BY <2>1, FlattenNone DEF Flat
  <2>4. ToSet(told) \cup aside = 1..typed
    BY <1>2, <2>1, <2>2, <2>3, SetNone DEF PromptInv, Places, Placed, Prompts
  <2>5. QED
    BY <2>1, <2>4 DEF Resting, InTurn
<1>3. PromptInv => PromptsKept
  BY <1>1, <1>2 DEF PromptsKept
<1>4. QED
  BY <1>3, PromptInit, PromptStep, PTL DEF Spec

=============================================================================
