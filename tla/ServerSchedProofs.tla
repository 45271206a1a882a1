-------------------------- MODULE ServerSchedProofs --------------------------
(***************************************************************************)
(* Theorems about ServerSched, for every number of requests and slots.     *)
(***************************************************************************)
EXTENDS ServerSched, SequenceTheorems, TLAPS

(***************************************************************************)
(* Type correctness.                                                       *)
(***************************************************************************)

LEMMA RemoveAtType ==
  ASSUME NEW S, NEW q \in Seq(S), NEW i \in 1..Len(q)
  PROVE  /\ RemoveAt(q, i) \in Seq(S)
         /\ Len(RemoveAt(q, i)) = Len(q) - 1
         /\ \A k \in 1..(Len(q)-1) :
              RemoveAt(q, i)[k] = IF k < i THEN q[k] ELSE q[k+1]
<1> DEFINE a == SubSeq(q, 1, i-1)
           b == SubSeq(q, i+1, Len(q))
<1>1. /\ a \in Seq(S) /\ Len(a) = i - 1
      /\ \A k \in 1..(i-1) : a[k] = q[k]
  BY SubSeqProperties
<1>2. /\ b \in Seq(S) /\ Len(b) = Len(q) - i
      /\ \A k \in 1..(Len(q)-i) : b[k] = q[i + k]
  BY SubSeqProperties
<1> HIDE DEF a, b
<1>3. /\ a \o b \in Seq(S) /\ Len(a \o b) = Len(a) + Len(b)
      /\ \A k \in 1..(Len(a) + Len(b)) :
            (a \o b)[k] = IF k <= Len(a) THEN a[k] ELSE b[k - Len(a)]
  BY <1>1, <1>2, ConcatProperties
<1>4. RemoveAt(q, i) = a \o b
  BY DEF RemoveAt, a, b
<1>5. Len(a) + Len(b) = Len(q) - 1
  BY <1>1, <1>2
<1>6. ASSUME NEW k \in 1..(Len(q)-1)
      PROVE (a \o b)[k] = IF k < i THEN q[k] ELSE q[k+1]
  <2>1. CASE k < i
    BY <1>1, <1>3, <1>5, <2>1
  <2>2. CASE ~(k < i)
    <3>1. (a \o b)[k] = b[k - (i-1)]
      BY <1>1, <1>3, <1>5, <2>2
    <3>2. k - (i-1) \in 1..(Len(q)-i)
      BY <2>2
    <3>3. b[k - (i-1)] = q[i + (k - (i-1))]
      BY <1>2, <3>2
    <3>4. i + (k - (i-1)) = k + 1
      OBVIOUS
    <3>5. QED
      BY <3>1, <3>3, <3>4, <2>2
  <2>3. QED
    BY <2>1, <2>2
<1>7. QED
  BY <1>3, <1>4, <1>5, <1>6

LEMMA TypeInit == Init => TypeOK
<1> SUFFICES ASSUME Init PROVE TypeOK
  OBVIOUS
<1>1. /\ queue \in Seq(Job) /\ answered \in SUBSET (Job \cup {NoJob}) /\ asleep \in SUBSET Slot
      /\ clients \in Nat /\ mu \in Thread \cup {Nobody} /\ mainpc \in MainPC
  BY DEF Init, MainPC
<1>2. /\ assigned \in [Slot -> Job \cup {NoJob}] /\ busy \in [Slot -> BOOLEAN]
      /\ held \in [Slot -> Job \cup {NoJob}] /\ running \in [Slot -> Job \cup {NoJob}]
      /\ binding \in [Slot -> Job \cup {NoJob}]
      /\ wpc \in [Slot -> WorkerPC]
  BY DEF Init, WorkerPC
<1>3. /\ cancelled \in [Job -> BOOLEAN] /\ done \in [Job -> BOOLEAN]
      /\ detached \in [Job -> BOOLEAN] /\ cpc \in [Job -> ClientPC]
  BY DEF Init, ClientPC
<1>4. stopRequested \in BOOLEAN /\ stopping \in BOOLEAN /\ mainAsleep \in BOOLEAN
  BY DEF Init
<1>5. QED
  BY <1>1, <1>2, <1>3, <1>4 DEF TypeOK

LEMMA TypeStep == TypeOK /\ [Next]_vars => TypeOK'
<1> SUFFICES ASSUME TypeOK, [Next]_vars PROVE TypeOK'
  OBVIOUS
<1> USE ConstantsAssumption DEF TypeOK, ClientPC, WorkerPC, MainPC, Thread,
        slotVars, jobVars, liveVars, serverVars, syncVars, pcVars
<1>1. ASSUME NEW j \in Job, Accept(j) PROVE TypeOK'
  BY <1>1 DEF Accept
<1>2. ASSUME NEW j \in Job, ClientStep(j) PROVE TypeOK'
  <2>1. CASE ClientWithoutJob(j) BY <2>1 DEF ClientWithoutJob
  <2>2. CASE EnqueueRefused(j) BY <2>2 DEF EnqueueRefused
  <2>3. CASE Enqueue(j) BY <2>3 DEF Enqueue
  <2>4. CASE EnqueueEnd(j) BY <2>4 DEF EnqueueEnd, DispatchEnds
  <2>5. CASE SeeDone(j) BY <2>5 DEF SeeDone
  <2>6. CASE StillConnected(j) BY <2>6 DEF StillConnected
  <2>7. CASE CancelQueued(j) BY <2>7, RemoveAtType DEF CancelQueued
  <2>8. CASE CancelAssigned(j) BY <2>8 DEF CancelAssigned
  <2>9. CASE CancelAssignedEnd(j) BY <2>9 DEF CancelAssignedEnd, DispatchEnds
  <2>10. CASE CancelTaken(j) BY <2>10 DEF CancelTaken
  <2>11. CASE CancelModel(j) BY <2>11 DEF CancelModel
  <2>12. CASE CancelComplete(j) BY <2>12 DEF CancelComplete
  <2>13. CASE ClientDone(j)
    <3>1. clients' \in Nat
      BY <2>13 DEF ClientDone
    <3>2. cpc' \in [Job -> ClientPC]
      BY <2>13 DEF ClientDone
    <3>3. mainAsleep' \in BOOLEAN
      BY <2>13 DEF ClientDone
    <3>4. QED
      BY <2>13, <3>1, <3>2, <3>3 DEF ClientDone
  <2>14. QED
    BY <1>2, <2>1, <2>2, <2>3, <2>4, <2>5, <2>6, <2>7, <2>8, <2>9, <2>10,
       <2>11, <2>12, <2>13 DEF ClientStep, CancelStep
<1>3. ASSUME NEW j \in Job, PollTimeout(j) \/ MarkCancelled(j) PROVE TypeOK'
  <2>1. CASE PollTimeout(j) BY <2>1 DEF PollTimeout
  <2>2. CASE MarkCancelled(j) BY <2>2 DEF MarkCancelled
  <2>3. QED BY <1>3, <2>1, <2>2
<1>12. ASSUME NEW s \in Slot, SpawnWorker(s) PROVE TypeOK'
  BY <1>12 DEF SpawnWorker
<1>13. CASE StartupFails
  BY <1>13 DEF StartupFails
<1>4. ASSUME NEW s \in Slot, WorkerStep(s) PROVE TypeOK'
  <2>1. CASE WorkerSleep(s) BY <2>1 DEF WorkerSleep
  <2>2. CASE TakeAssigned(s) BY <2>2 DEF TakeAssigned
  <2>3. CASE Dequeue(s) BY <2>3 DEF Dequeue
  <2>4. CASE WorkerExit(s) BY <2>4 DEF WorkerExit
  <2>5. CASE StartJob(s) BY <2>5 DEF StartJob
  <2>6. CASE CheckCancelled(s) BY <2>6 DEF CheckCancelled
  <2>7. CASE FinishInner(s) BY <2>7 DEF FinishInner
  <2>8. CASE ClearRunning(s) BY <2>8 DEF ClearRunning
  <2>9. CASE WorkerComplete(s) BY <2>9 DEF WorkerComplete
  <2>10. CASE ReleaseSlot(s) BY <2>10 DEF ReleaseSlot
  <2>11. CASE ReleaseEnd(s) BY <2>11 DEF ReleaseEnd, DispatchEnds
  <2>12. QED
    BY <1>4, <2>1, <2>2, <2>3, <2>4, <2>5, <2>6, <2>7, <2>8, <2>9, <2>10,
       <2>11 DEF WorkerStep
<1>5. ASSUME NEW s \in Slot, GenerateStep(s) PROVE TypeOK'
  <2>1. CASE ForgetLive(s) BY <2>1 DEF ForgetLive
  <2>2. CASE RememberLive(s)
    <3>1. binding' \in [Slot -> Job \cup {NoJob}]
      BY <2>2 DEF RememberLive
    <3>2. answered' \in SUBSET (Job \cup {NoJob})
      BY <2>2 DEF RememberLive
    <3>3. wpc' \in [Slot -> WorkerPC]
      BY <2>2 DEF RememberLive
    <3>4. QED
      BY <2>2, <3>1, <3>2, <3>3 DEF RememberLive
  <2>3. CASE StreamWriteFails(s) BY <2>3 DEF StreamWriteFails
  <2>4. QED BY <1>5, <2>1, <2>2, <2>3 DEF GenerateStep
<1>6. CASE DispatchOne
  <2>1. PICK i \in 1..Len(queue), s \in Slot :
           /\ assigned' = [assigned EXCEPT ![s] = queue[i]]
           /\ busy' = [busy EXCEPT ![s] = TRUE]
           /\ queue' = RemoveAt(queue, i)
    BY <1>6 DEF DispatchOne, EligibleSlots
  <2>2. queue' \in Seq(Job)
    BY <2>1, RemoveAtType
  <2>3. assigned' \in [Slot -> Job \cup {NoJob}] /\ busy' \in [Slot -> BOOLEAN]
    BY <2>1
  <2>4. QED
    BY <1>6, <2>2, <2>3 DEF DispatchOne
<1>7. CASE MainStep
  <2>1. CASE Listen BY <2>1 DEF Listen
  <2>2. CASE RequestWorkerStop BY <2>2 DEF RequestWorkerStop
  <2>3. CASE RequestWorkerStopEnd BY <2>3 DEF RequestWorkerStopEnd, DispatchEnds
  <2>4. CASE JoinWorkers BY <2>4 DEF JoinWorkers
  <2>5. CASE DrainSleep BY <2>5 DEF DrainSleep
  <2>6. CASE CloseResources BY <2>6 DEF CloseResources
  <2>7. QED
    BY <1>7, <2>1, <2>2, <2>3, <2>4, <2>5, <2>6 DEF MainStep
<1>8. CASE StopSignal
  BY <1>8 DEF StopSignal
<1>9. CASE UNCHANGED vars
  BY <1>9 DEF vars
<1>10. CASE Exited
  BY <1>9, <1>10 DEF Exited
<1>11. QED
  BY <1>1, <1>2, <1>3, <1>4, <1>5, <1>6, <1>7, <1>8, <1>9, <1>10,
     <1>12, <1>13 DEF Next

\* Every variable of the scheduler keeps its type, whatever the number of
\* requests and slots.
THEOREM TypeCorrect == Spec => []TypeOK
  BY TypeInit, TypeStep, PTL DEF Spec

(***************************************************************************)
(* The inductive invariant.                                                *)
(***************************************************************************)

Distinct(q) == \A m, n \in 1..Len(q) : q[m] = q[n] => m = n
Has(q, j) == \E k \in 1..Len(q) : q[k] = j

\* What unlinking the i-th job does to a queue without duplicates.
LEMMA Unlink ==
  ASSUME NEW q \in Seq(Job), NEW i \in 1..Len(q), Distinct(q)
  PROVE  /\ Distinct(RemoveAt(q, i))
         /\ \A j \in Job : Has(RemoveAt(q, i), j) <=> j # q[i] /\ Has(q, j)
<1> DEFINE r == RemoveAt(q, i)
<1>1. /\ r \in Seq(Job) /\ Len(r) = Len(q) - 1
      /\ \A k \in 1..(Len(q)-1) : r[k] = IF k < i THEN q[k] ELSE q[k+1]
  BY RemoveAtType
<1> HIDE DEF r
<1>2. Len(q) \in Nat
  OBVIOUS
<1>3. \A m, n \in 1..Len(r) : r[m] = r[n] => m = n
  <2> SUFFICES ASSUME NEW m \in 1..Len(r), NEW n \in 1..Len(r), r[m] = r[n]
               PROVE  m = n
    OBVIOUS
  <2> DEFINE at(k) == IF k < i THEN k ELSE k + 1
  <2>1. at(m) \in 1..Len(q) /\ at(n) \in 1..Len(q)
    BY <1>1, <1>2
  <2>2. q[at(m)] = q[at(n)]
    BY <1>1
  <2>3. at(m) = at(n)
    BY <2>1, <2>2 DEF Distinct
  <2>4. QED
    BY <2>3
<1>4. ASSUME NEW k \in 1..Len(r)
      PROVE  r[k] # q[i] /\ \E n \in 1..Len(q) : q[n] = r[k]
  <2> DEFINE n == IF k < i THEN k ELSE k + 1
  <2>1. n \in 1..Len(q) /\ n # i
    BY <1>1, <1>2
  <2>2. r[k] = q[n]
    BY <1>1
  <2>3. QED
    BY <2>1, <2>2 DEF Distinct
<1>5. ASSUME NEW n \in 1..Len(q), q[n] # q[i]
      PROVE  \E k \in 1..Len(r) : r[k] = q[n]
  <2> DEFINE k == IF n < i THEN n ELSE n - 1
  <2>1. n # i
    BY <1>5
  <2>2. k \in 1..Len(r) /\ (k < i <=> n < i) /\ (~(n < i) => k + 1 = n)
    BY <1>1, <1>2, <2>1
  <2>3. r[k] = q[n]
    BY <1>1, <2>2
  <2>4. QED
    BY <2>2, <2>3
<1>6. Distinct(r)
  BY <1>3 DEF Distinct
<1>7. ASSUME NEW j \in Job PROVE Has(r, j) <=> j # q[i] /\ Has(q, j)
  <2>1. ASSUME Has(r, j) PROVE j # q[i] /\ Has(q, j)
    BY <1>4, <2>1 DEF Has
  <2>2. ASSUME j # q[i], Has(q, j) PROVE Has(r, j)
    BY <1>5, <2>2 DEF Has
  <2>3. QED
    BY <2>1, <2>2
<1>8. QED
  BY <1>6, <1>7 DEF r

\* What linking a new job at the tail does.
LEMMA Link ==
  ASSUME NEW q \in Seq(Job), NEW j \in Job, Distinct(q), ~Has(q, j)
  PROVE  /\ Distinct(Append(q, j))
         /\ \A i \in Job : Has(Append(q, j), i) <=> i = j \/ Has(q, i)
<1> DEFINE r == Append(q, j)
<1>1. /\ Len(r) = Len(q) + 1 /\ Len(q) \in Nat
      /\ \A k \in 1..Len(q) : r[k] = q[k]
      /\ r[Len(q) + 1] = j
  BY AppendProperties
<1> HIDE DEF r
<1>2. \A m, n \in 1..Len(r) : r[m] = r[n] => m = n
  <2> SUFFICES ASSUME NEW m \in 1..Len(r), NEW n \in 1..Len(r), r[m] = r[n]
               PROVE  m = n
    OBVIOUS
  <2>1. CASE m \in 1..Len(q) /\ n \in 1..Len(q)
    BY <1>1, <2>1 DEF Distinct
  <2>2. CASE m = Len(q) + 1 \/ n = Len(q) + 1
    BY <1>1, <2>2 DEF Has
  <2>3. QED
    BY <1>1, <2>1, <2>2
<1>3. ASSUME NEW k \in 1..Len(r)
      PROVE  r[k] = j \/ \E n \in 1..Len(q) : q[n] = r[k]
  <2>1. CASE k \in 1..Len(q)
    BY <1>1, <2>1
  <2>2. CASE k = Len(q) + 1
    BY <1>1, <2>2
  <2>3. QED
    BY <1>1, <2>1, <2>2
<1>4. ASSUME NEW n \in 1..Len(q)
      PROVE  \E k \in 1..Len(r) : r[k] = q[n]
  BY <1>1
<1>5. \E k \in 1..Len(r) : r[k] = j
  BY <1>1
<1>6. QED
  BY <1>2, <1>3, <1>4, <1>5 DEF r, Distinct, Has

LEMMA InvInit == Init => SchedInv
<1> SUFFICES ASSUME Init PROVE SchedInv
  OBVIOUS
<1>1. TypeOK
  BY TypeInit
<1>2. \A j : ~Queued(j)
  BY DEF Init, Queued
<1>3. OneOwner
  BY <1>2, ConstantsAssumption DEF Init, OneOwner, AssignedTo, HeldBy
<1>4. SlotShape /\ SlotBusy
  BY DEF Init, SlotShape, SlotBusy, Holding, Published
<1>5. ReferencedIsAwaited
  BY <1>2, ConstantsAssumption DEF Init, ReferencedIsAwaited, Referenced
<1>6. NotYetDone /\ EnqueueHoldsMu /\ ExitedIsFinal
  BY DEF Init, NotYetDone, Detached, EnqueueHoldsMu, ExitedIsFinal
<1>7. QED
  BY <1>1, <1>3, <1>4, <1>5, <1>6 DEF SchedInv

\* Steps that move no job pointer.
LEMMA PointerFrame ==
  ASSUME UNCHANGED <<queue, assigned, held, running>>
  PROVE  /\ OneOwner => OneOwner'
         /\ \A j : Referenced(j)' <=> Referenced(j)
  BY DEF OneOwner, AssignedTo, HeldBy, Queued, Referenced

\* Steps of clients and of main that leave the slots alone.
LEMMA SlotFrame ==
  ASSUME UNCHANGED <<slotVars, wpc>>
  PROVE  SlotShape /\ SlotBusy => SlotShape' /\ SlotBusy'
  BY DEF SlotShape, SlotBusy, slotVars

\* What the steps of a client that moves no pointer must still establish.
LEMMA ClientInv ==
  ASSUME SchedInv, TypeOK', NEW j \in Job,
         UNCHANGED <<queue, slotVars, wpc>>, stopping' = stopping,
         \A k \in Job \ {j} : /\ cpc'[k] = cpc[k] /\ done'[k] = done[k]
                              /\ detached'[k] = detached[k],
         Referenced(j) => ~done'[j] /\ cpc'[j] \in Waiting /\ ~Detached(j)',
         cpc'[j] \in {"absent", "reading"} \/ Detached(j)' => ~done'[j],
         cpc'[j] = "cancel" => ~detached'[j],
         cpc'[j] # "enqueuing",
         \A k \in Job : mu = k => cpc[k] # "enqueuing" \/ k = j \/ mu' = mu
  PROVE  SchedInv'
<1>1. OneOwner' /\ \A k \in Job : Referenced(k)' <=> Referenced(k)
  BY PointerFrame DEF SchedInv, slotVars
<1>2. SlotShape' /\ SlotBusy'
  BY SlotFrame DEF SchedInv
<1>3. \A k \in Job \ {j} : Detached(k)' <=> Detached(k)
  BY DEF Detached
<1>4. ReferencedIsAwaited'
  BY <1>1, <1>3 DEF SchedInv, ReferencedIsAwaited
<1>5. NotYetDone'
  BY <1>3 DEF SchedInv, NotYetDone
<1>6. EnqueueHoldsMu'
  BY DEF SchedInv, EnqueueHoldsMu
<1>7. ExitedIsFinal'
  BY DEF SchedInv, ExitedIsFinal
<1>8. QED
  BY <1>1, <1>2, <1>4, <1>5, <1>6, <1>7 DEF SchedInv

\* What the steps of worker s that leave the clients and the queue alone must
\* still establish.
LEMMA WorkerInv ==
  ASSUME SchedInv, TypeOK', NEW s \in Slot,
         UNCHANGED <<queue, stopping, cpc, detached, done, mu>>,
         \A t \in Slot \ {s} :
           /\ assigned'[t] = assigned[t] /\ busy'[t] = busy[t]
           /\ held'[t] = held[t] /\ running'[t] = running[t] /\ wpc'[t] = wpc[t],
         \/ held'[s] = held[s] /\ assigned'[s] = assigned[s]
         \/ held'[s] = assigned[s] /\ assigned'[s] = NoJob,
         running'[s] \in {held'[s], NoJob},
         held'[s] # NoJob <=> wpc'[s] \in Holding,
         running'[s] = IF wpc'[s] \in Published THEN held'[s] ELSE NoJob,
         assigned'[s] # NoJob => BatchedMode /\ wpc'[s] \in {"unborn", "wait", "redispatch"},
         BatchedMode => (busy'[s] <=> assigned'[s] # NoJob
                                       \/ wpc'[s] \in Holding \cup {"release"}),
         wpc'[s] = "exited" => wpc[s] = "exited"
  PROVE  SchedInv'
<1>1. \A j : Queued(j)' <=> Queued(j)
  BY DEF Queued
<1>2. OneOwner'
  <2>1. \A m, n \in 1..Len(queue') : queue'[m] = queue'[n] => m = n
    BY DEF SchedInv, OneOwner
  <2> SUFFICES ASSUME NEW j \in Job, NEW t \in Slot
               PROVE  /\ assigned'[t] = j => ~Queued(j)' /\ \A u \in Slot : held'[u] # j
                      /\ held'[t] = j => ~Queued(j)'
                      /\ \A u \in Slot : u # t => /\ assigned'[t] = j => assigned'[u] # j
                                                  /\ held'[t] = j => held'[u] # j
    BY <2>1 DEF OneOwner, AssignedTo, HeldBy
  <2>2. /\ \A u, v \in Slot : assigned[u] = j => ~Queued(j) /\ held[v] # j
        /\ \A u \in Slot : held[u] = j => ~Queued(j)
        /\ \A u, v \in Slot : u # v => /\ assigned[u] = j => assigned[v] # j
                                       /\ held[u] = j => held[v] # j
    BY DEF SchedInv, OneOwner, AssignedTo, HeldBy
  <2>3. j # NoJob
    BY ConstantsAssumption
  <2>4. CASE held'[s] = held[s] /\ assigned'[s] = assigned[s]
    <3>1. \A u \in Slot : held'[u] = held[u] /\ assigned'[u] = assigned[u]
      BY <2>4
    <3>2. QED
      BY <1>1, <2>2, <3>1
  <2>5. CASE held'[s] = assigned[s] /\ assigned'[s] = NoJob
    <3>1. \A u \in Slot : assigned'[u] = j => u # s /\ assigned[u] = j
      BY <2>3, <2>5
    <3>2. \A u \in Slot : held'[u] = j => \/ u = s /\ assigned[s] = j
                                          \/ u # s /\ held[u] = j
      BY <2>5
    <3>3. QED
      BY <1>1, <2>2, <3>1, <3>2
  <2>6. QED
    BY <2>4, <2>5
<1>3. \A j \in Job : Referenced(j)' => Referenced(j)
  BY <1>1, ConstantsAssumption DEF Referenced
<1>4. SlotShape' /\ SlotBusy'
  BY DEF SchedInv, SlotShape, SlotBusy
<1>5. ReferencedIsAwaited'
  BY <1>3 DEF SchedInv, ReferencedIsAwaited, Detached
<1>6. NotYetDone' /\ EnqueueHoldsMu' /\ ExitedIsFinal'
  BY DEF SchedInv, NotYetDone, Detached, EnqueueHoldsMu, ExitedIsFinal
<1>7. QED
  BY <1>2, <1>4, <1>5, <1>6 DEF SchedInv

\* The steps of a client that move no job pointer.
LEMMA ClientStepInv ==
  ASSUME SchedInv, TypeOK', NEW j \in Job,
         \/ Accept(j) \/ ClientWithoutJob(j) \/ EnqueueRefused(j) \/ EnqueueEnd(j)
         \/ SeeDone(j) \/ PollTimeout(j) \/ StillConnected(j) \/ MarkCancelled(j)
         \/ CancelAssignedEnd(j) \/ CancelTaken(j) \/ CancelModel(j)
         \/ CancelComplete(j) \/ ClientDone(j)
  PROVE  SchedInv'
<1> USE ConstantsAssumption DEF SchedInv, TypeOK, ReferencedIsAwaited, NotYetDone,
        EnqueueHoldsMu, Detached, Waiting, slotVars, jobVars, liveVars, serverVars,
        syncVars, pcVars
<1>1. CASE Accept(j)
  BY <1>1, ClientInv DEF Accept
<1>2. CASE ClientWithoutJob(j)
  BY <1>2, ClientInv DEF ClientWithoutJob
<1>3. CASE EnqueueRefused(j)
  <2>1. /\ cpc[j] = "reading" /\ cpc'[j] = "closing"
        /\ \A k \in Job \ {j} : cpc'[k] = cpc[k]
        /\ UNCHANGED <<queue, slotVars, detached, done, wpc, stopping, mu>>
    BY <1>3 DEF EnqueueRefused
  <2>2. ~Referenced(j)
    BY <2>1
  <2> HIDE <1>3 DEF SchedInv, TypeOK, ReferencedIsAwaited, NotYetDone, EnqueueHoldsMu
  <2>3. QED
    BY <2>1, <2>2, ClientInv
<1>4. CASE EnqueueEnd(j)
  BY <1>4, ClientInv DEF EnqueueEnd, DispatchEnds
<1>5. CASE SeeDone(j)
  BY <1>5, ClientInv DEF SeeDone
<1>6. CASE PollTimeout(j)
  BY <1>6, ClientInv DEF PollTimeout
<1>7. CASE StillConnected(j)
  BY <1>7, ClientInv DEF StillConnected
<1>8. CASE MarkCancelled(j)
  <2>1. /\ cpc'[j] = "cancel" /\ ~detached'[j] /\ done' = done
        /\ \A k \in Job \ {j} : cpc'[k] = cpc[k] /\ detached'[k] = detached[k]
        /\ UNCHANGED <<queue, slotVars, wpc, stopping, mu>>
    BY <1>8 DEF MarkCancelled
  <2>2. cpc[j] = "polled" /\ (Referenced(j) => ~done[j])
    BY <1>8 DEF MarkCancelled
  <2>3. QED
    BY <2>1, <2>2, ClientInv
<1>9. CASE CancelAssignedEnd(j)
  BY <1>9, ClientInv DEF CancelAssignedEnd, DispatchEnds
<1>10. CASE CancelTaken(j)
  BY <1>10, ClientInv DEF CancelTaken
<1>11. CASE CancelModel(j)
  BY <1>11, ClientInv DEF CancelModel
<1>12. CASE CancelComplete(j)
  <2>1. /\ cpc[j] = "completing" /\ cpc'[j] = "waiting" /\ detached' = detached
        /\ \A k \in Job \ {j} : cpc'[k] = cpc[k] /\ done'[k] = done[k]
        /\ UNCHANGED <<queue, slotVars, wpc, stopping, mu>>
    BY <1>12 DEF CancelComplete
  <2>2. ~Referenced(j)
    BY <2>1
  <2> HIDE <1>12 DEF SchedInv, TypeOK, ReferencedIsAwaited, NotYetDone, EnqueueHoldsMu
  <2>3. QED
    BY <2>1, <2>2, ClientInv
<1>13. CASE ClientDone(j)
  BY <1>13, ClientInv DEF ClientDone
<1>14. QED
  BY <1>1, <1>2, <1>3, <1>4, <1>5, <1>6, <1>7, <1>8, <1>9, <1>10, <1>11, <1>12, <1>13

\* The steps of a worker between taking a job and completing it.
LEMMA WorkerStepInv ==
  ASSUME SchedInv, TypeOK', NEW s \in Slot,
         \/ SpawnWorker(s) \/ WorkerSleep(s) \/ TakeAssigned(s) \/ StartJob(s)
         \/ CheckCancelled(s) \/ GenerateStep(s) \/ FinishInner(s) \/ ClearRunning(s)
  PROVE  SchedInv'
<1> USE ConstantsAssumption DEF SchedInv, TypeOK, SlotShape, SlotBusy, Holding,
        Published, slotVars, jobVars, liveVars, serverVars, syncVars, pcVars
<1>1. CASE SpawnWorker(s)
  BY <1>1, WorkerInv DEF SpawnWorker
<1>2. CASE WorkerSleep(s)
  BY <1>2, WorkerInv DEF WorkerSleep
<1>3. CASE TakeAssigned(s)
  <2>1. /\ held'[s] = assigned[s] /\ assigned'[s] = NoJob /\ assigned[s] # NoJob
        /\ wpc'[s] = "start" /\ running'[s] = running[s] /\ busy'[s] = busy[s]
        /\ \A t \in Slot \ {s} :
             /\ assigned'[t] = assigned[t] /\ busy'[t] = busy[t]
             /\ held'[t] = held[t] /\ running'[t] = running[t] /\ wpc'[t] = wpc[t]
        /\ UNCHANGED <<queue, stopping, cpc, detached, done, mu>>
    BY <1>3 DEF TakeAssigned
  <2>2. running[s] = NoJob /\ (BatchedMode => busy[s])
    BY <1>3 DEF TakeAssigned
  <2>3. /\ held'[s] # NoJob <=> wpc'[s] \in Holding
        /\ running'[s] = IF wpc'[s] \in Published THEN held'[s] ELSE NoJob
        /\ BatchedMode => (busy'[s] <=> assigned'[s] # NoJob
                                          \/ wpc'[s] \in Holding \cup {"release"})
    BY <2>1, <2>2
  <2>4. wpc'[s] # "exited" /\ running'[s] = NoJob
    BY <2>1, <2>2
  <2> HIDE <1>3 DEF SchedInv, TypeOK, SlotShape, SlotBusy
  <2>5. QED
    BY <2>1, <2>3, <2>4, WorkerInv
<1>4. CASE StartJob(s)
  BY <1>4, WorkerInv DEF StartJob
<1>5. CASE CheckCancelled(s)
  BY <1>5, WorkerInv DEF CheckCancelled
<1>6. CASE ForgetLive(s)
  BY <1>6, WorkerInv DEF ForgetLive
<1>7. CASE RememberLive(s)
  BY <1>7, WorkerInv DEF RememberLive
<1>8. CASE FinishInner(s)
  BY <1>8, WorkerInv DEF FinishInner
<1>9. CASE ClearRunning(s)
  BY <1>9, WorkerInv DEF ClearRunning
<1>10. CASE StreamWriteFails(s)
  BY <1>10, WorkerInv DEF StreamWriteFails
<1>11. QED
  BY <1>1, <1>2, <1>3, <1>4, <1>5, <1>6, <1>7, <1>8, <1>9, <1>10 DEF GenerateStep

\* The queue, the slots and the workers point to distinct jobs: OneOwner for
\* one job, with its definitions expanded.
OwnedOnce(j) ==
  /\ \A u, v \in Slot : assigned[u] = j => ~Queued(j) /\ held[v] # j
  /\ \A u \in Slot : held[u] = j => ~Queued(j)
  /\ \A u, v \in Slot : u # v => /\ assigned[u] = j => assigned[v] # j
                                 /\ held[u] = j => held[v] # j

LEMMA OneOwnerAlt == OneOwner <=> Distinct(queue) /\ \A j \in Job : OwnedOnce(j)
  BY DEF OneOwner, Distinct, OwnedOnce, AssignedTo, HeldBy

LEMMA OneOwnerAltNext ==
  OneOwner' <=> Distinct(queue)' /\ \A j \in Job : OwnedOnce(j)'
  BY DEF OneOwner, Distinct, OwnedOnce, AssignedTo, HeldBy

LEMMA EnqueueInv ==
  ASSUME SchedInv, TypeOK', NEW j \in Job, Enqueue(j)
  PROVE  SchedInv'
<1>1. ~Referenced(j) /\ ~done[j]
  BY DEF Enqueue, SchedInv, ReferencedIsAwaited, NotYetDone, Waiting
<1>2. Distinct(queue)' /\ \A i \in Job : Queued(i)' <=> i = j \/ Queued(i)
  <2>1. queue \in Seq(Job) /\ Distinct(queue)
    BY OneOwnerAlt DEF SchedInv, TypeOK, Distinct
  <2>2. queue' = Append(queue, j) /\ ~Has(queue, j)
    BY <1>1 DEF Enqueue, Referenced, Queued, Has
  <2>3. Distinct(queue') /\ \A i \in Job : Has(queue', i) <=> i = j \/ Has(queue, i)
    BY <2>1, <2>2, Link
  <2>4. QED
    BY <2>3 DEF Queued, Has
<1>3. UNCHANGED <<slotVars, wpc, done, detached, stopping>>
  BY DEF Enqueue, jobVars, slotVars
<1>4. cpc'[j] = "enqueuing" /\ mu' = j /\ \A i \in Job \ {j} : cpc'[i] = cpc[i]
  BY DEF Enqueue, SchedInv, TypeOK
<1>5. OneOwner'
  <2>1. ASSUME NEW i \in Job PROVE OwnedOnce(i)'
    BY <1>1, <1>2, <1>3, OneOwnerAlt DEF SchedInv, OwnedOnce, Referenced, slotVars
  <2>2. QED
    BY <1>2, <2>1, OneOwnerAltNext
<1>6. SlotShape' /\ SlotBusy'
  BY <1>3, SlotFrame DEF SchedInv
<1>7. ReferencedIsAwaited'
  <2>1. \A i \in Job : Referenced(i)' => i = j \/ Referenced(i)
    BY <1>2, <1>3 DEF Referenced, slotVars
  <2>2. QED
    BY <1>1, <1>3, <1>4, <2>1 DEF SchedInv, ReferencedIsAwaited, Detached, Waiting
<1>8. NotYetDone'
  BY <1>1, <1>3, <1>4 DEF SchedInv, NotYetDone, Detached
<1>9. EnqueueHoldsMu'
  BY <1>4, ConstantsAssumption DEF SchedInv, EnqueueHoldsMu, Enqueue
<1>10. ExitedIsFinal'
  BY <1>3 DEF SchedInv, ExitedIsFinal, Enqueue
<1>11. QED
  BY <1>5, <1>6, <1>7, <1>8, <1>9, <1>10 DEF SchedInv

LEMMA DispatchOneInv ==
  ASSUME SchedInv, TypeOK', DispatchOne
  PROVE  SchedInv'
<1>1. PICK i \in 1..Len(queue), s \in Slot :
         /\ FirstRunnable(i) /\ s \in EligibleSlots(queue[i])
         /\ assigned' = [assigned EXCEPT ![s] = queue[i]]
         /\ busy' = [busy EXCEPT ![s] = TRUE]
         /\ queue' = RemoveAt(queue, i)
  BY DEF DispatchOne, EligibleSlots
<1>a. queue \in Seq(Job)
  BY DEF SchedInv, TypeOK
<1>2. PICK j \in Job : j = queue[i]
  BY <1>a
<1>3. BatchedMode /\ ~busy[s] /\ assigned[s] = NoJob
  BY <1>1 DEF EligibleSlots, FirstRunnable, CanDispatch
<1>4. wpc[s] \in {"unborn", "wait", "redispatch"}
  <2>1. wpc[s] # "exited"
    BY <1>2 DEF SchedInv, ExitedIsFinal
  <2>2. wpc[s] \in WorkerPC /\ wpc[s] \notin Holding \cup {"release"}
    BY <1>2, <1>3 DEF SchedInv, TypeOK, SlotBusy
  <2>3. QED
    BY <2>1, <2>2 DEF WorkerPC, Holding
<1>5. Distinct(queue)' /\ \A k \in Job : Queued(k)' <=> k # j /\ Queued(k)
  <2>1. Distinct(queue)
    BY OneOwnerAlt DEF SchedInv, Distinct
  <2>2. queue' = RemoveAt(queue, i)
    BY <1>1
  <2>3. Distinct(queue') /\ \A k \in Job : Has(queue', k) <=> k # j /\ Has(queue, k)
    BY <1>a, <1>2, <2>1, <2>2, Unlink
  <2>4. QED
    BY <2>3 DEF Queued, Has
<1>6. UNCHANGED <<held, running, wpc, done, detached, stopping, cpc, mu>>
  BY DEF DispatchOne, jobVars, pcVars
<1>7. /\ assigned'[s] = j /\ busy'[s]
      /\ \A t \in Slot \ {s} : assigned'[t] = assigned[t] /\ busy'[t] = busy[t]
  BY <1>1, <1>2 DEF SchedInv, TypeOK
<1>8. Queued(j)
  BY <1>2 DEF Queued
<1>9. OneOwner'
  <2>1. OwnedOnce(j)
    BY <1>2, OneOwnerAlt DEF SchedInv
  <2>2. OwnedOnce(j)'
    <3>1. \A t \in Slot : held[t] # j /\ assigned[t] # j
      BY <1>8, <2>1 DEF OwnedOnce
    <3>2. \A t \in Slot : held'[t] # j /\ (assigned'[t] = j => t = s)
      BY <3>1, <1>6, <1>7
    <3>3. ~Queued(j)'
      BY <1>2, <1>5
    <3>4. QED
      BY <3>2, <3>3 DEF OwnedOnce
  <2>3. ASSUME NEW k \in Job \ {j} PROVE OwnedOnce(k)'
    <3>1. OwnedOnce(k)
      BY OneOwnerAlt DEF SchedInv
    <3>2. \A t \in Slot : held'[t] = held[t] /\ (assigned'[t] = k => assigned[t] = k)
      BY <1>6, <1>7
    <3>3. QED
      BY <1>5, <3>1, <3>2 DEF OwnedOnce
  <2>4. \A k \in Job : OwnedOnce(k)'
    BY <2>2, <2>3
  <2>5. QED
    BY <1>5, <2>4, OneOwnerAltNext
<1>10. SlotShape' /\ SlotBusy'
  BY <1>2, <1>3, <1>4, <1>6, <1>7, ConstantsAssumption
     DEF SchedInv, SlotShape, SlotBusy, Holding
<1>11. ReferencedIsAwaited'
  <2>1. \A k \in Job : Referenced(k)' => Referenced(k)
    BY <1>5, <1>6, <1>7, <1>8 DEF Referenced
  <2>2. QED
    BY <1>6, <2>1 DEF SchedInv, ReferencedIsAwaited, Detached
<1>12. NotYetDone' /\ EnqueueHoldsMu'
  BY <1>6 DEF SchedInv, NotYetDone, Detached, EnqueueHoldsMu
<1>13. ExitedIsFinal'
  BY <1>1, <1>2, <1>6 DEF SchedInv, ExitedIsFinal
<1>14. QED
  BY <1>9, <1>10, <1>11, <1>12, <1>13 DEF SchedInv

LEMMA CancelQueuedInv ==
  ASSUME SchedInv, TypeOK', NEW j \in Job, CancelQueued(j)
  PROVE  SchedInv'
<1>1. PICK i \in 1..Len(queue) : queue[i] = j /\ queue' = RemoveAt(queue, i)
  BY DEF CancelQueued
<1>2. Distinct(queue') /\ \A k \in Job : Queued(k)' <=> k # j /\ Queued(k)
  <2>1. queue \in Seq(Job) /\ Distinct(queue)
    BY OneOwnerAlt DEF SchedInv, TypeOK
  <2>2. Distinct(queue') /\ \A k \in Job : Has(queue', k) <=> k # j /\ Has(queue, k)
    BY <1>1, <2>1, Unlink
  <2>3. QED
    BY <2>2 DEF Queued, Has
<1>3. UNCHANGED <<slotVars, wpc, done, stopping, mu>>
  BY DEF CancelQueued, slotVars
<1>4. /\ cpc'[j] = "cancel_model" /\ detached'[j]
      /\ \A k \in Job \ {j} : cpc'[k] = cpc[k] /\ detached'[k] = detached[k]
  BY DEF CancelQueued, SchedInv, TypeOK
<1>5. Queued(j) /\ Referenced(j) /\ ~done[j]
  BY <1>1 DEF Queued, Referenced, SchedInv, ReferencedIsAwaited
<1>6. OneOwner'
  <2>1. ASSUME NEW k \in Job PROVE OwnedOnce(k)'
    BY <1>2, <1>3, OneOwnerAlt DEF SchedInv, OwnedOnce, slotVars
  <2>2. QED
    BY <1>2, <2>1, OneOwnerAltNext
<1>7. SlotShape' /\ SlotBusy'
  BY <1>3, SlotFrame DEF SchedInv
<1>8. ReferencedIsAwaited'
  <2>1. OwnedOnce(j)
    BY OneOwnerAlt DEF SchedInv
  <2>2. \A s \in Slot : assigned[s] # j /\ held[s] # j /\ running[s] # j
    BY <1>5, <2>1, ConstantsAssumption DEF OwnedOnce, SchedInv, SlotShape
  <2>3. \A k \in Job : Referenced(k)' => k # j /\ Referenced(k)
    BY <1>2, <1>3, <2>2 DEF Referenced, slotVars
  <2>4. QED
    BY <1>3, <1>4, <2>3 DEF SchedInv, ReferencedIsAwaited, Detached
<1>9. NotYetDone'
  BY <1>3, <1>4, <1>5 DEF SchedInv, NotYetDone, Detached
<1>10. EnqueueHoldsMu'
  BY <1>3, <1>4 DEF SchedInv, EnqueueHoldsMu
<1>11. ExitedIsFinal'
  BY <1>1, <1>3, <1>4 DEF SchedInv, TypeOK, ExitedIsFinal
<1>12. QED
  BY <1>6, <1>7, <1>8, <1>9, <1>10, <1>11 DEF SchedInv

LEMMA CancelAssignedInv ==
  ASSUME SchedInv, TypeOK', NEW j \in Job, CancelAssigned(j)
  PROVE  SchedInv'
<1>1. PICK s \in Slot : /\ assigned[s] = j
                        /\ assigned' = [assigned EXCEPT ![s] = NoJob]
                        /\ busy' = [busy EXCEPT ![s] = FALSE]
  BY DEF CancelAssigned
<1>2. UNCHANGED <<queue, held, running, wpc, done, stopping>> /\ mu' = j /\ mu = Nobody
  BY DEF CancelAssigned, serverVars
<1>3. /\ cpc'[j] = "detaching" /\ detached'[j]
      /\ \A k \in Job \ {j} : cpc'[k] = cpc[k] /\ detached'[k] = detached[k]
  BY DEF CancelAssigned, SchedInv, TypeOK
<1>4. /\ assigned'[s] = NoJob /\ ~busy'[s]
      /\ \A t \in Slot \ {s} : assigned'[t] = assigned[t] /\ busy'[t] = busy[t]
  BY <1>1 DEF SchedInv, TypeOK
<1>5. Referenced(j) /\ ~done[j] /\ j # NoJob
  BY <1>1, ConstantsAssumption DEF Referenced, SchedInv, ReferencedIsAwaited
<1>6. \A k : Queued(k)' <=> Queued(k)
  BY <1>2 DEF Queued
<1>7. OwnedOnce(j)
  BY OneOwnerAlt DEF SchedInv
<1>8. OneOwner'
  <2>1. ASSUME NEW k \in Job PROVE OwnedOnce(k)'
    <3>1. \A t \in Slot : assigned'[t] = k => assigned[t] = k
      BY <1>4, ConstantsAssumption
    <3>2. QED
      BY <1>2, <1>6, <3>1, OneOwnerAlt DEF SchedInv, OwnedOnce
  <2>2. Distinct(queue')
    BY <1>2, OneOwnerAlt DEF SchedInv
  <2>3. QED
    BY <2>1, <2>2, OneOwnerAltNext
<1>9. SlotShape'
  BY <1>2 DEF SchedInv, SlotShape
<1>10. SlotBusy'
  <2>1. wpc[s] \in {"unborn", "wait", "redispatch"}
    BY <1>1, <1>5 DEF SchedInv, SlotBusy
  <2>2. QED
    BY <1>2, <1>4, <2>1 DEF SchedInv, SlotBusy, Holding
<1>11. ReferencedIsAwaited'
  <2>1. ~Queued(j) /\ \A t \in Slot : held[t] # j /\ running[t] # j /\ (t # s => assigned[t] # j)
    BY <1>1, <1>5, <1>7 DEF OwnedOnce, SchedInv, SlotShape
  <2>2. \A k \in Job : Referenced(k)' => k # j /\ Referenced(k)
    BY <1>2, <1>4, <1>5, <1>6, <2>1, ConstantsAssumption DEF Referenced
  <2>3. QED
    BY <1>2, <1>3, <2>2 DEF SchedInv, ReferencedIsAwaited, Detached
<1>12. NotYetDone'
  BY <1>2, <1>3, <1>5 DEF SchedInv, NotYetDone, Detached
<1>13. EnqueueHoldsMu'
  BY <1>2, <1>3, ConstantsAssumption DEF SchedInv, EnqueueHoldsMu
<1>14. ExitedIsFinal'
  BY <1>2, <1>3 DEF SchedInv, ExitedIsFinal
<1>15. QED
  BY <1>8, <1>9, <1>10, <1>11, <1>12, <1>13, <1>14 DEF SchedInv

LEMMA WorkerCompleteInv ==
  ASSUME SchedInv, TypeOK', NEW s \in Slot, WorkerComplete(s)
  PROVE  SchedInv'
<1>1. PICK j \in Job : j = held[s]
  BY DEF WorkerComplete, SchedInv, TypeOK, SlotShape, Holding
<1>2. UNCHANGED <<queue, assigned, busy, running, cpc, detached, stopping, mu>>
  BY DEF WorkerComplete, serverVars, syncVars
<1>3. /\ held'[s] = NoJob /\ wpc'[s] = IF BatchedMode THEN "release" ELSE "wait"
      /\ \A t \in Slot \ {s} : held'[t] = held[t] /\ wpc'[t] = wpc[t]
      /\ \A k \in Job \ {j} : done'[k] = done[k]
  BY <1>1 DEF WorkerComplete, SchedInv, TypeOK
<1>4. \A k : Queued(k)' <=> Queued(k)
  BY <1>2 DEF Queued
<1>5. Referenced(j)
  BY <1>1 DEF Referenced
<1>6. running[s] = NoJob /\ wpc[s] = "complete" /\ j # NoJob
  BY ConstantsAssumption DEF WorkerComplete, SchedInv, SlotShape, Published
<1>7. OneOwner'
  <2>1. ASSUME NEW k \in Job PROVE OwnedOnce(k)'
    <3>1. \A t \in Slot : held'[t] = k => held[t] = k
      BY <1>3, ConstantsAssumption
    <3>2. QED
      BY <1>2, <1>4, <3>1, OneOwnerAlt DEF SchedInv, OwnedOnce
  <2>2. Distinct(queue')
    BY <1>2, OneOwnerAlt DEF SchedInv
  <2>3. QED
    BY <2>1, <2>2, OneOwnerAltNext
<1>8. SlotShape'
  BY <1>2, <1>3, <1>6 DEF SchedInv, SlotShape, Holding, Published
<1>9. SlotBusy'
  BY <1>2, <1>3, <1>6 DEF SchedInv, SlotBusy, Holding
<1>10. ReferencedIsAwaited'
  <2>1. OwnedOnce(j)
    BY OneOwnerAlt DEF SchedInv
  <2>2. \A t \in Slot : running[t] = j => held[t] = j
    BY <1>6 DEF SchedInv, SlotShape
  <2>3. ~Queued(j) /\ \A t \in Slot : assigned[t] # j /\ running[t] # j /\ (t # s => held[t] # j)
    BY <1>1, <1>6, <2>1, <2>2 DEF OwnedOnce
  <2>4. \A k \in Job : Referenced(k)' => k # j /\ Referenced(k)
    BY <1>2, <1>3, <1>4, <1>6, <2>3, ConstantsAssumption DEF Referenced
  <2>5. QED
    BY <1>2, <1>3, <2>4 DEF SchedInv, ReferencedIsAwaited, Detached
<1>11. NotYetDone'
  <2>1. cpc[j] \in Waiting /\ ~Detached(j)
    BY <1>5 DEF SchedInv, ReferencedIsAwaited
  <2>2. QED
    BY <1>2, <1>3, <2>1 DEF SchedInv, NotYetDone, Detached, Waiting
<1>12. EnqueueHoldsMu' /\ ExitedIsFinal'
  BY <1>2, <1>3 DEF SchedInv, EnqueueHoldsMu, ExitedIsFinal
<1>13. QED
  BY <1>7, <1>8, <1>9, <1>10, <1>11, <1>12 DEF SchedInv

LEMMA TailUnlinks ==
  ASSUME NEW q \in Seq(Job), q # <<>>
  PROVE  1 \in 1..Len(q) /\ Head(q) = q[1] /\ Tail(q) = RemoveAt(q, 1)
<1>1. Len(q) \in Nat /\ Len(q) # 0 /\ 1 \in 1..Len(q)
  BY EmptySeq
<1>2. /\ Tail(q) \in Seq(Job) /\ Len(Tail(q)) = Len(q) - 1
      /\ \A k \in 1..(Len(q)-1) : Tail(q)[k] = q[k+1]
  BY <1>1, HeadTailProperties
<1>3. /\ RemoveAt(q, 1) \in Seq(Job) /\ Len(RemoveAt(q, 1)) = Len(q) - 1
      /\ \A k \in 1..(Len(q)-1) : RemoveAt(q, 1)[k] = q[k+1]
  BY <1>1, RemoveAtType
<1>4. Tail(q) = RemoveAt(q, 1)
  BY <1>1, <1>2, <1>3, SeqEqual
<1>5. QED
  BY <1>1, <1>4

LEMMA DequeueInv ==
  ASSUME SchedInv, TypeOK', NEW s \in Slot, Dequeue(s)
  PROVE  SchedInv'
<1>1. /\ queue \in Seq(Job) /\ queue # <<>> /\ Distinct(queue) /\ ~BatchedMode
      /\ queue' = Tail(queue)
  BY OneOwnerAlt DEF Dequeue, SchedInv, TypeOK
<1>2. PICK j \in Job : j = Head(queue)
  BY <1>1, TailUnlinks
<1>3. Distinct(queue') /\ \A k \in Job : Queued(k)' <=> k # j /\ Queued(k)
  <2>1. Distinct(queue') /\ \A k \in Job : Has(queue', k) <=> k # j /\ Has(queue, k)
    <3>1. 1 \in 1..Len(queue) /\ j = queue[1] /\ queue' = RemoveAt(queue, 1)
      BY <1>1, <1>2, TailUnlinks
    <3>2. \A i \in 1..Len(queue) :
            /\ Distinct(RemoveAt(queue, i))
            /\ \A k \in Job : Has(RemoveAt(queue, i), k) <=> k # queue[i] /\ Has(queue, k)
      BY <1>1, Unlink
    <3>3. QED
      BY <3>1, <3>2
  <2>2. QED
    BY <2>1 DEF Queued, Has
<1>4. UNCHANGED <<assigned, busy, running, cpc, detached, done, stopping, mu>>
  BY DEF Dequeue, jobVars, syncVars
<1>5. /\ held'[s] = j /\ wpc'[s] = "start" /\ held[s] = NoJob /\ running[s] = NoJob
      /\ \A t \in Slot \ {s} : held'[t] = held[t] /\ wpc'[t] = wpc[t]
  BY <1>2 DEF Dequeue, SchedInv, TypeOK, SlotShape, Holding, Published
<1>6. Queued(j)
  BY <1>1, <1>2, TailUnlinks DEF Queued
<1>7. OneOwner'
  <2>1. ASSUME NEW k \in Job PROVE OwnedOnce(k)'
    <3>1. OwnedOnce(k) /\ OwnedOnce(j)
      BY OneOwnerAlt DEF SchedInv
    <3>2. \A t \in Slot : held'[t] = k <=> (t = s /\ k = j) \/ held[t] = k
      BY <1>5, <1>6, <3>1, ConstantsAssumption DEF OwnedOnce
    <3>3. QED
      BY <1>3, <1>4, <1>6, <3>1, <3>2 DEF OwnedOnce
  <2>2. QED
    BY <1>3, <2>1, OneOwnerAltNext
<1>8. SlotShape'
  BY <1>4, <1>5, ConstantsAssumption DEF SchedInv, SlotShape, Holding, Published
<1>9. SlotBusy'
  BY <1>1, <1>4, <1>5 DEF SchedInv, SlotBusy
<1>10. ReferencedIsAwaited'
  <2>1. \A k \in Job : Referenced(k)' => Referenced(k)
    BY <1>3, <1>4, <1>5, <1>6 DEF Referenced
  <2>2. QED
    BY <1>4, <2>1 DEF SchedInv, ReferencedIsAwaited, Detached
<1>11. NotYetDone' /\ EnqueueHoldsMu'
  BY <1>4 DEF SchedInv, NotYetDone, Detached, EnqueueHoldsMu
<1>12. ExitedIsFinal'
  BY <1>1, <1>4, <1>5 DEF SchedInv, ExitedIsFinal
<1>13. QED
  BY <1>7, <1>8, <1>9, <1>10, <1>11, <1>12 DEF SchedInv

\* Steps of a worker that change what it holds mu for, or end it.
LEMMA WorkerMuInv ==
  ASSUME SchedInv, TypeOK', NEW s \in Slot,
         WorkerExit(s) \/ ReleaseSlot(s) \/ ReleaseEnd(s)
  PROVE  SchedInv'
<1>1. UNCHANGED <<queue, assigned, held, running, cpc, detached, done, stopping>>
  BY DEF WorkerExit, ReleaseSlot, ReleaseEnd, slotVars, jobVars, serverVars
<1>2. /\ \A t \in Slot \ {s} : wpc'[t] = wpc[t] /\ busy'[t] = busy[t]
      /\ wpc[s] \notin Holding /\ wpc'[s] \notin Holding \cup {"release"}
      /\ assigned[s] # NoJob => wpc'[s] \in {"wait", "redispatch"}
      /\ BatchedMode => (busy'[s] <=> assigned[s] # NoJob)
  <2> USE DEF SchedInv, TypeOK, SlotBusy, Holding
  <2>1. CASE WorkerExit(s)
    BY <2>1 DEF WorkerExit, slotVars
  <2>2. CASE ReleaseSlot(s)
    BY <2>2 DEF ReleaseSlot
  <2>3. CASE ReleaseEnd(s)
    BY <2>3 DEF ReleaseEnd, slotVars
  <2>4. QED
    BY <2>1, <2>2, <2>3
<1>3. OneOwner' /\ \A j \in Job : Referenced(j)' <=> Referenced(j)
  BY <1>1, PointerFrame DEF SchedInv
<1>4. SlotShape' /\ SlotBusy'
  BY <1>1, <1>2 DEF SchedInv, SlotShape, SlotBusy, Published, Holding
<1>5. ReferencedIsAwaited' /\ NotYetDone'
  BY <1>1, <1>3 DEF SchedInv, ReferencedIsAwaited, NotYetDone, Detached
<1>6. \A j \in Job : cpc[j] = "enqueuing" => mu = j /\ mu' = mu
  BY ConstantsAssumption
     DEF WorkerExit, ReleaseSlot, ReleaseEnd, DispatchEnds, syncVars, SchedInv, EnqueueHoldsMu
<1>7. EnqueueHoldsMu'
  BY <1>1, <1>6 DEF EnqueueHoldsMu
<1>8. ExitedIsFinal'
  <2>1. wpc'[s] = "exited" => stopping /\ queue = <<>> /\ mu = Nobody
    BY DEF WorkerExit, ReleaseSlot, ReleaseEnd, SchedInv, TypeOK
  <2>2. QED
    BY <1>1, <1>2, <1>6, <2>1, ConstantsAssumption DEF SchedInv, ExitedIsFinal
<1>9. QED
  BY <1>3, <1>4, <1>5, <1>7, <1>8 DEF SchedInv

\* Steps of the main thread, and the signal.
LEMMA MainInv ==
  ASSUME SchedInv, TypeOK', MainStep \/ StartupFails \/ StopSignal \/ UNCHANGED vars
  PROVE  SchedInv'
<1> USE DEF vars, slotVars, jobVars, serverVars, syncVars, pcVars
<1>1. /\ UNCHANGED <<slotVars, wpc, queue, cpc, detached, done>>
      /\ stopping => stopping'
      /\ mu \notin {Nobody, Main} => mu' = mu
  <2>1. CASE MainStep
    BY <2>1 DEF MainStep, Listen, RequestWorkerStop, RequestWorkerStopEnd,
                JoinWorkers, DrainSleep, CloseResources, DispatchEnds
  <2>2. CASE StartupFails
    BY <2>2 DEF StartupFails
  <2>3. CASE StopSignal
    BY <2>3 DEF StopSignal
  <2>4. CASE UNCHANGED vars
    BY <2>4
  <2>5. QED
    BY <2>1, <2>2, <2>3, <2>4
<1>2. OneOwner' /\ \A j \in Job : Referenced(j)' <=> Referenced(j)
  BY <1>1, PointerFrame DEF SchedInv
<1>3. SlotShape' /\ SlotBusy'
  BY <1>1, SlotFrame DEF SchedInv
<1>4. ReferencedIsAwaited' /\ NotYetDone'
  BY <1>1, <1>2 DEF SchedInv, ReferencedIsAwaited, NotYetDone, Detached
<1>5. EnqueueHoldsMu' /\ ExitedIsFinal'
  BY <1>1, ConstantsAssumption DEF SchedInv, EnqueueHoldsMu, ExitedIsFinal
<1>6. QED
  BY <1>2, <1>3, <1>4, <1>5 DEF SchedInv

LEMMA InvStep == SchedInv /\ [Next]_vars => SchedInv'
<1> SUFFICES ASSUME SchedInv, [Next]_vars PROVE SchedInv'
  OBVIOUS
<1>1. TypeOK'
  BY TypeStep DEF SchedInv
<1>2. ASSUME NEW j \in Job, Accept(j) \/ ClientStep(j) \/ PollTimeout(j) \/ MarkCancelled(j)
      PROVE  SchedInv'
  BY <1>1, <1>2, ClientStepInv, EnqueueInv, CancelQueuedInv, CancelAssignedInv
     DEF ClientStep, CancelStep
<1>3. ASSUME NEW s \in Slot, SpawnWorker(s) \/ WorkerStep(s) \/ GenerateStep(s)
      PROVE  SchedInv'
  BY <1>1, <1>3, WorkerStepInv, DequeueInv, WorkerCompleteInv, WorkerMuInv
     DEF WorkerStep
<1>4. CASE DispatchOne
  BY <1>1, <1>4, DispatchOneInv
<1>5. CASE MainStep \/ StartupFails \/ StopSignal \/ UNCHANGED vars
  BY <1>1, <1>5, MainInv
<1>6. CASE Exited
  BY <1>5, <1>6 DEF Exited
<1>7. QED
  BY <1>2, <1>3, <1>4, <1>5, <1>6 DEF Next

\* SchedInv holds in every reachable state.
THEOREM InvCorrect == Spec => []SchedInv
  BY InvInit, InvStep, PTL DEF Spec

\* A job is in one place: queued once, assigned to one slot, or held by one
\* worker, whatever the number of requests and slots.
THEOREM OneOwnerCorrect == Spec => []OneOwner
<1>1. SchedInv => OneOwner
  BY DEF SchedInv
<1>2. QED
  BY <1>1, InvCorrect, PTL

\* No queue, slot or worker points to the job of a client that has returned
\* from wait_for_job_or_disconnect: the stack-owned job is never dangling.
THEOREM NoDanglingJobCorrect == Spec => []NoDanglingJob
<1>1. SchedInv => NoDanglingJob
  BY DEF SchedInv, ReferencedIsAwaited, NoDanglingJob, Waiting
<1>2. QED
  BY <1>1, InvCorrect, PTL

\* job_complete is called once per job, by the worker or by the client that
\* detached it, never by both.
THEOREM CompletedOnceCorrect == Spec => []CompletedOnce
<1>1. SchedInv => CompletedOnce
  <2> SUFFICES ASSUME SchedInv PROVE CompletedOnce
    OBVIOUS
  <2>1. \A s \in Slot : held[s] # NoJob => ~done[held[s]]
    BY DEF SchedInv, TypeOK, ReferencedIsAwaited, Referenced
  <2>2. \A j \in Job : Detached(j) => ~done[j] /\ ~Referenced(j)
    BY DEF SchedInv, ReferencedIsAwaited, NotYetDone
  <2>3. QED
    BY <2>1, <2>2 DEF CompletedOnce, Detached
<1>2. QED
  BY <1>1, InvCorrect, PTL

\* The dispatcher reads the session of an idle slot without a lock: no worker
\* is using that session.
THEOREM IdleSlotIsQuietCorrect == Spec => []IdleSlotIsQuiet
<1>1. SchedInv => IdleSlotIsQuiet
  BY DEF SchedInv, TypeOK, SlotShape, SlotBusy, IdleSlotIsQuiet, Holding,
         Published, WorkerPC
<1>2. QED
  BY <1>1, InvCorrect, PTL

\* A worker that exits leaves no queued request and no job of its own.
THEOREM NoStrandedWorkCorrect == Spec => []NoStrandedWork
<1>1. SchedInv => NoStrandedWork
  BY DEF SchedInv, SlotShape, SlotBusy, ExitedIsFinal, NoStrandedWork, Holding
<1>2. QED
  BY <1>1, InvCorrect, PTL

(***************************************************************************)
(* A continuation goes to the slot of its conversation.                    *)
(***************************************************************************)

LEMMA RouteInit == Init => RouteInv
<1> SUFFICES ASSUME Init PROVE RouteInv
  OBVIOUS
<1>1. AnsweredIsOver /\ BindingsAreAnswered /\ FollowsAnswer
  BY DEF Init, AnsweredIsOver, BindingsAreAnswered, FollowsAnswer
<1>2. ContinuationOnItsSlot
  BY ConstantsAssumption DEF Init, ContinuationOnItsSlot, AssignedTo, HeldBy
<1>3. QED
  BY <1>1, <1>2 DEF RouteInv

\* What a step that changes no live state must satisfy: jobs are queued only
\* by their arriving client, and a worker takes its own assignment or, when
\* there is but one slot, the head of the queue.
LEMMA RouteFrame ==
  ASSUME TypeOK, RouteInv, UNCHANGED liveVars,
         \A j \in Job : Queued(j)' => Queued(j) \/ cpc[j] = "reading",
         \A s \in Slot : assigned'[s] \in {assigned[s], NoJob},
         \A s \in Slot : held'[s] # NoJob /\ wpc'[s] \in {"start", "check", "run"} =>
           \/ /\ held'[s] = held[s] /\ wpc[s] \in {"start", "check", "run"}
              /\ wpc'[s] \in {"start", "check"} => wpc[s] \in {"start", "check"}
           \/ held'[s] = assigned[s]
           \/ ~BatchedMode /\ Queued(held'[s]),
         \A j \in Job : cpc'[j] \in {"absent", "reading"} => cpc[j] \in {"absent", "reading"},
         \A j \in Job : cpc'[j] # "absent" =>
           cpc[j] # "absent" \/ Continues[j] = NoJob \/ Continues[j] \in answered
  PROVE  RouteInv'
<1> USE DEF liveVars
<1>1. AnsweredIsOver'
  <2> SUFFICES ASSUME NEW j \in answered \cap Job
               PROVE  /\ cpc'[j] \notin {"absent", "reading"} /\ ~Queued(j)'
                      /\ \A s \in Slot : /\ assigned'[s] # j
                                         /\ held'[s] = j => wpc'[s] \notin {"start", "check", "run"}
    BY DEF AnsweredIsOver
  <2>1. /\ cpc[j] \notin {"absent", "reading"} /\ ~Queued(j) /\ j # NoJob
        /\ \A s \in Slot : /\ assigned[s] # j
                           /\ held[s] = j => wpc[s] \notin {"start", "check", "run"}
    BY ConstantsAssumption DEF RouteInv, AnsweredIsOver
  <2>2. QED
    BY <2>1
<1>2. BindingsAreAnswered' /\ FollowsAnswer'
  BY DEF RouteInv, BindingsAreAnswered, FollowsAnswer
<1>3. ContinuationOnItsSlot'
  <2> SUFFICES ASSUME NEW j \in Job, NEW s \in Slot, NEW t \in Slot,
                      Continues[j] # NoJob,
                      assigned'[s] = j \/ (held'[s] = j /\ wpc'[s] \in {"start", "check"}),
                      binding[t] = Continues[j]
               PROVE  s = t
    BY DEF ContinuationOnItsSlot, AssignedTo, HeldBy
  <2>1. j # NoJob
    BY ConstantsAssumption
  <2>2. CASE ~BatchedMode
    BY <2>2, ConstantsAssumption
  <2>3. CASE BatchedMode
    <3>1. assigned[s] = j \/ (held[s] = j /\ wpc[s] \in {"start", "check"})
      BY <2>1, <2>3
    <3>2. QED
      BY <3>1 DEF RouteInv, ContinuationOnItsSlot, AssignedTo, HeldBy
  <2>4. QED
    BY <2>2, <2>3
<1>4. QED
  BY <1>1, <1>2, <1>3 DEF RouteInv

\* What unlinking a job does to Queued.
LEMMA QueuedUnlink ==
  ASSUME SchedInv, NEW i \in 1..Len(queue), queue' = RemoveAt(queue, i)
  PROVE  \A j \in Job : Queued(j)' <=> j # queue[i] /\ Queued(j)
<1>1. queue \in Seq(Job) /\ Distinct(queue)
  BY OneOwnerAlt DEF SchedInv, TypeOK
<1>2. \A j \in Job : Has(queue', j) <=> j # queue[i] /\ Has(queue, j)
  BY <1>1, Unlink
<1>3. QED
  BY <1>2 DEF Queued, Has

\* What linking a job at the tail does to Queued.
LEMMA QueuedLink ==
  ASSUME SchedInv, NEW j \in Job, ~Queued(j), queue' = Append(queue, j)
  PROVE  \A k \in Job : Queued(k)' <=> k = j \/ Queued(k)
<1>1. queue \in Seq(Job) /\ Distinct(queue) /\ ~Has(queue, j)
  BY OneOwnerAlt DEF SchedInv, TypeOK, Queued, Has
<1>2. \A k \in Job : Has(queue', k) <=> k = j \/ Has(queue, k)
  BY <1>1, Link
<1>3. QED
  BY <1>2 DEF Queued, Has

\* What taking the head does to Queued.
LEMMA QueuedTail ==
  ASSUME SchedInv, queue # <<>>, queue' = Tail(queue)
  PROVE  /\ Head(queue) \in Job /\ Queued(Head(queue))
         /\ \A k \in Job : Queued(k)' <=> k # Head(queue) /\ Queued(k)
<1>1. queue \in Seq(Job)
  BY DEF SchedInv, TypeOK
<1>2. 1 \in 1..Len(queue) /\ Head(queue) = queue[1] /\ Tail(queue) = RemoveAt(queue, 1)
  BY <1>1, TailUnlinks
<1>3. \A i \in 1..Len(queue) : i = 1 => \A j \in Job : Queued(j)' <=> j # queue[i] /\ Queued(j)
  BY <1>2, QueuedUnlink
<1>4. QED
  BY <1>1, <1>2, <1>3 DEF Queued

LEMMA RouteClient ==
  ASSUME SchedInv, RouteInv, NEW j \in Job,
         Accept(j) \/ ClientStep(j) \/ PollTimeout(j) \/ MarkCancelled(j)
  PROVE  RouteInv'
<1> USE DEF SchedInv, TypeOK, slotVars, jobVars, serverVars, syncVars, pcVars
<1>1. CASE Accept(j)
  BY <1>1, RouteFrame DEF Accept, Queued
<1>2. CASE ClientWithoutJob(j)
  BY <1>2, RouteFrame DEF ClientWithoutJob, Queued
<1>3. CASE EnqueueRefused(j)
  BY <1>3, RouteFrame DEF EnqueueRefused, Queued
<1>4. CASE Enqueue(j)
  <2>1. ~Queued(j)
    BY <1>4 DEF Enqueue, ReferencedIsAwaited, Referenced, Waiting
  <2>2. \A k \in Job : Queued(k)' <=> k = j \/ Queued(k)
    BY <1>4, <2>1, QueuedLink DEF Enqueue
  <2>3. QED
    BY <1>4, <2>2, RouteFrame DEF Enqueue
<1>5. CASE EnqueueEnd(j)
  BY <1>5, RouteFrame DEF EnqueueEnd, Queued
<1>6. CASE SeeDone(j)
  BY <1>6, RouteFrame DEF SeeDone, Queued
<1>7. CASE StillConnected(j)
  BY <1>7, RouteFrame DEF StillConnected, Queued
<1>8. CASE CancelQueued(j)
  <2>1. PICK i \in 1..Len(queue) : queue[i] = j /\ queue' = RemoveAt(queue, i)
    BY <1>8 DEF CancelQueued
  <2>2. \A k \in Job : Queued(k)' => Queued(k)
    BY <2>1, QueuedUnlink
  <2>3. QED
    BY <1>8, <2>2, RouteFrame DEF CancelQueued
<1>9. CASE CancelAssigned(j)
  <2>1. \A s \in Slot : assigned'[s] \in {assigned[s], NoJob}
    BY <1>9 DEF CancelAssigned
  <2>2. QED
    BY <1>9, <2>1, RouteFrame DEF CancelAssigned, Queued
<1>10. CASE CancelAssignedEnd(j)
  BY <1>10, RouteFrame DEF CancelAssignedEnd, Queued
<1>11. CASE CancelTaken(j)
  BY <1>11, RouteFrame DEF CancelTaken, Queued
<1>12. CASE CancelModel(j)
  BY <1>12, RouteFrame DEF CancelModel, Queued
<1>13. CASE CancelComplete(j)
  BY <1>13, RouteFrame DEF CancelComplete, Queued
<1>14. CASE ClientDone(j)
  BY <1>14, RouteFrame DEF ClientDone, Queued
<1>15. CASE PollTimeout(j)
  BY <1>15, RouteFrame DEF PollTimeout, Queued
<1>16. CASE MarkCancelled(j)
  BY <1>16, RouteFrame DEF MarkCancelled, Queued
<1>17. QED
  BY <1>1, <1>2, <1>3, <1>4, <1>5, <1>6, <1>7, <1>8, <1>9, <1>10, <1>11, <1>12,
     <1>13, <1>14, <1>15, <1>16 DEF ClientStep, CancelStep

LEMMA RouteWorker ==
  ASSUME SchedInv, RouteInv, NEW s \in Slot, SpawnWorker(s) \/ WorkerStep(s)
  PROVE  RouteInv'
<1> USE DEF SchedInv, TypeOK, slotVars, jobVars, serverVars, syncVars, pcVars
<1>1. CASE SpawnWorker(s)
  BY <1>1, RouteFrame DEF SpawnWorker, Queued
<1>2. CASE WorkerSleep(s)
  BY <1>2, RouteFrame DEF WorkerSleep, Queued
<1>3. CASE TakeAssigned(s)
  <2>1. \A t \in Slot : assigned'[t] \in {assigned[t], NoJob}
    BY <1>3 DEF TakeAssigned
  <2>2. \A t \in Slot : \/ held'[t] = held[t] /\ wpc'[t] = wpc[t]
                        \/ held'[t] = assigned[t]
    BY <1>3 DEF TakeAssigned
  <2>3. QED
    BY <1>3, <2>1, <2>2, RouteFrame DEF TakeAssigned, Queued
<1>4. CASE Dequeue(s)
  <2>1. ~BatchedMode /\ queue # <<>> /\ queue' = Tail(queue)
    BY <1>4 DEF Dequeue
  <2>2. Queued(Head(queue)) /\ \A k \in Job : Queued(k)' => Queued(k)
    BY <2>1, QueuedTail
  <2>3. \A t \in Slot : \/ held'[t] = held[t] /\ wpc'[t] = wpc[t]
                        \/ held'[t] = Head(queue)
    BY <1>4 DEF Dequeue
  <2>4. \A t \in Slot : held'[t] = Head(queue) => Queued(held'[t])
    BY <2>2
  <2>5. UNCHANGED <<liveVars, assigned, cpc>>
    BY <1>4 DEF Dequeue
  <2> HIDE <1>4
  <2>6. QED
    BY <2>1, <2>2, <2>3, <2>4, <2>5, RouteFrame
<1>5. CASE WorkerExit(s)
  BY <1>5, RouteFrame DEF WorkerExit, Queued
<1>6. CASE StartJob(s)
  BY <1>6, RouteFrame DEF StartJob, Queued
<1>7. CASE CheckCancelled(s)
  BY <1>7, RouteFrame DEF CheckCancelled, Queued
<1>8. CASE FinishInner(s)
  BY <1>8, RouteFrame DEF FinishInner, Queued
<1>9. CASE ClearRunning(s)
  BY <1>9, RouteFrame DEF ClearRunning, Queued
<1>10. CASE WorkerComplete(s)
  BY <1>10, RouteFrame DEF WorkerComplete, Queued
<1>11. CASE ReleaseSlot(s)
  BY <1>11, RouteFrame DEF ReleaseSlot, Queued
<1>12. CASE ReleaseEnd(s)
  BY <1>12, RouteFrame DEF ReleaseEnd, Queued
<1>13. QED
  BY <1>1, <1>2, <1>3, <1>4, <1>5, <1>6, <1>7, <1>8, <1>9, <1>10, <1>11, <1>12
     DEF WorkerStep

\* While a generation runs nobody can hold calls of its job yet, so no
\* request can carry their results.
LEMMA RouteGenerate ==
  ASSUME SchedInv, RouteInv, NEW s \in Slot, GenerateStep(s)
  PROVE  RouteInv'
<1>1. UNCHANGED <<queue, assigned, held, cpc>>
  BY DEF GenerateStep, ForgetLive, RememberLive, StreamWriteFails, slotVars, serverVars, pcVars
<1>2. \A j : Queued(j)' <=> Queued(j)
  BY <1>1 DEF Queued
<1>3. CASE StreamWriteFails(s)
  BY <1>1, <1>2, <1>3, RouteFrame DEF StreamWriteFails, SchedInv, pcVars
<1>4. CASE ForgetLive(s)
  <2>1. UNCHANGED <<answered, wpc>> /\ binding' = [binding EXCEPT ![s] = NoJob]
    BY <1>4 DEF ForgetLive, pcVars
  <2>2. \A t \in Slot : binding'[t] # NoJob => binding'[t] = binding[t]
    BY <2>1 DEF SchedInv, TypeOK
  <2>3. AnsweredIsOver' /\ FollowsAnswer'
    BY <1>1, <1>2, <2>1 DEF RouteInv, AnsweredIsOver, FollowsAnswer
  <2>4. BindingsAreAnswered'
    BY <2>1, <2>2 DEF RouteInv, BindingsAreAnswered
  <2>5. ContinuationOnItsSlot'
    BY <1>1, <2>1, <2>2 DEF RouteInv, ContinuationOnItsSlot, AssignedTo, HeldBy
  <2>6. QED
    BY <2>3, <2>4, <2>5 DEF RouteInv
<1>5. CASE RememberLive(s)
  <2>1. PICK k \in Job : k = held[s]
    BY <1>5 DEF RememberLive, SchedInv, TypeOK, SlotShape, Holding
  <2>2. /\ wpc[s] = "run" /\ wpc'[s] = "answering"
        /\ \A t \in Slot \ {s} : wpc'[t] = wpc[t] /\ binding'[t] = binding[t]
        /\ binding'[s] = k /\ answered' = answered \cup {k} /\ k # NoJob
    BY <1>5, <2>1, ConstantsAssumption DEF RememberLive, SchedInv, TypeOK
  <2>3. k \notin answered
    BY <2>1, <2>2 DEF RouteInv, AnsweredIsOver
  <2>4. /\ cpc[k] \in Waiting /\ ~Queued(k)
        /\ \A t \in Slot : assigned[t] # k /\ (held[t] = k => t = s)
    <3>1. Referenced(k)
      BY <2>1 DEF Referenced
    <3>2. OwnedOnce(k)
      BY OneOwnerAlt DEF SchedInv
    <3>3. QED
      BY <2>1, <3>1, <3>2 DEF OwnedOnce, SchedInv, ReferencedIsAwaited
  <2>5. AnsweredIsOver'
    <3>1. ASSUME NEW j \in (answered \cup {k}) \cap Job
          PROVE  /\ cpc[j] \notin {"absent", "reading"} /\ ~Queued(j)
                 /\ \A t \in Slot : /\ assigned[t] # j
                                    /\ held[t] = j => wpc'[t] \notin {"start", "check", "run"}
      <4>1. CASE j = k
        BY <2>2, <2>4, <4>1 DEF Waiting
      <4>2. CASE j # k
        BY <2>1, <2>2, <4>2 DEF RouteInv, AnsweredIsOver
      <4>3. QED
        BY <4>1, <4>2
    <3>2. QED
      BY <1>1, <1>2, <2>2, <3>1 DEF AnsweredIsOver
  <2>6. BindingsAreAnswered'
    BY <2>2, <2>3 DEF RouteInv, BindingsAreAnswered
  <2>7. FollowsAnswer'
    BY <1>1, <2>2 DEF RouteInv, FollowsAnswer
  <2>8. ContinuationOnItsSlot'
    <3> SUFFICES ASSUME NEW j \in Job, NEW u \in Slot, NEW t \in Slot,
                        Continues[j] # NoJob,
                        assigned[u] = j \/ (held[u] = j /\ wpc'[u] \in {"start", "check"}),
                        binding'[t] = Continues[j]
                 PROVE  u = t
      BY <1>1 DEF ContinuationOnItsSlot, AssignedTo, HeldBy
    <3>1. Referenced(j)
      BY DEF Referenced
    <3>2. Continues[j] \in answered
      BY <3>1 DEF SchedInv, ReferencedIsAwaited, Waiting, RouteInv, FollowsAnswer
    <3>3. t # s /\ binding[t] = Continues[j]
      BY <2>2, <2>3, <3>2
    <3>4. assigned[u] = j \/ (held[u] = j /\ wpc[u] \in {"start", "check"})
      BY <2>2
    <3>5. QED
      BY <3>3, <3>4 DEF RouteInv, ContinuationOnItsSlot, AssignedTo, HeldBy
  <2>9. QED
    BY <2>5, <2>6, <2>7, <2>8 DEF RouteInv
<1>6. QED
  BY <1>3, <1>4, <1>5 DEF GenerateStep

LEMMA RouteDispatch ==
  ASSUME SchedInv, RouteInv, DispatchOne
  PROVE  RouteInv'
<1>1. PICK i \in 1..Len(queue), s \in Slot :
         /\ s \in EligibleSlots(queue[i])
         /\ assigned' = [assigned EXCEPT ![s] = queue[i]]
         /\ queue' = RemoveAt(queue, i)
  BY DEF DispatchOne, EligibleSlots
<1>2. PICK k \in Job : k = queue[i]
  BY DEF SchedInv, TypeOK
<1>3. UNCHANGED <<held, wpc, cpc, binding, answered>>
  BY DEF DispatchOne, liveVars, pcVars
<1>4. \A j \in Job : Queued(j)' => Queued(j)
  BY <1>1, QueuedUnlink
<1>5. \A t \in Slot : assigned'[t] = IF t = s THEN k ELSE assigned[t]
  BY <1>1, <1>2 DEF SchedInv, TypeOK
<1>6. AnsweredIsOver'
  <2>1. k \notin answered
    BY <1>2 DEF Queued, RouteInv, AnsweredIsOver
  <2>2. QED
    BY <1>3, <1>4, <1>5, <2>1 DEF RouteInv, AnsweredIsOver
<1>7. BindingsAreAnswered' /\ FollowsAnswer'
  BY <1>3 DEF RouteInv, BindingsAreAnswered, FollowsAnswer
<1>8. ContinuationOnItsSlot'
  <2> SUFFICES ASSUME NEW j \in Job, NEW u \in Slot, NEW t \in Slot,
                      Continues[j] # NoJob,
                      assigned'[u] = j \/ (held[u] = j /\ wpc[u] \in {"start", "check"}),
                      binding[t] = Continues[j]
               PROVE  u = t
    BY <1>3 DEF ContinuationOnItsSlot, AssignedTo, HeldBy
  <2>1. CASE assigned'[u] = j /\ u = s
    <3>1. j = k /\ t \in RequiredSlots(k)
      BY <1>5, <2>1 DEF RequiredSlots
    <3>2. binding[s] = Continues[k]
      BY <1>1, <1>2, <3>1 DEF EligibleSlots, RequiredSlots
    <3>3. QED
      BY <2>1, <3>1, <3>2 DEF RouteInv, BindingsAreAnswered
  <2>2. CASE ~(assigned'[u] = j /\ u = s)
    <3>1. assigned[u] = j \/ (held[u] = j /\ wpc[u] \in {"start", "check"})
      BY <1>5, <2>2
    <3>2. QED
      BY <3>1 DEF RouteInv, ContinuationOnItsSlot, AssignedTo, HeldBy
  <2>3. QED
    BY <2>1, <2>2
<1>9. QED
  BY <1>6, <1>7, <1>8 DEF RouteInv

LEMMA RouteMain ==
  ASSUME SchedInv, RouteInv, MainStep \/ StartupFails \/ StopSignal \/ UNCHANGED vars
  PROVE  RouteInv'
<1> USE DEF vars, slotVars, jobVars, serverVars, syncVars, pcVars
<1>1. UNCHANGED <<queue, assigned, held, wpc, cpc, liveVars>>
  <2>1. CASE MainStep
    BY <2>1 DEF MainStep, Listen, RequestWorkerStop, RequestWorkerStopEnd,
                JoinWorkers, DrainSleep, CloseResources
  <2>2. CASE StartupFails
    BY <2>2 DEF StartupFails
  <2>3. CASE StopSignal
    BY <2>3 DEF StopSignal
  <2>4. CASE UNCHANGED vars
    BY <2>4
  <2>5. QED
    BY <2>1, <2>2, <2>3, <2>4
<1>2. QED
  BY <1>1, RouteFrame DEF SchedInv, Queued

LEMMA RouteStep == SchedInv /\ RouteInv /\ [Next]_vars => RouteInv'
<1> SUFFICES ASSUME SchedInv, RouteInv, [Next]_vars PROVE RouteInv'
  OBVIOUS
<1>1. ASSUME NEW j \in Job, Accept(j) \/ ClientStep(j) \/ PollTimeout(j) \/ MarkCancelled(j)
      PROVE  RouteInv'
  BY <1>1, RouteClient
<1>2. ASSUME NEW s \in Slot, SpawnWorker(s) \/ WorkerStep(s) \/ GenerateStep(s)
      PROVE  RouteInv'
  BY <1>2, RouteWorker, RouteGenerate
<1>3. CASE DispatchOne
  BY <1>3, RouteDispatch
<1>4. CASE MainStep \/ StartupFails \/ StopSignal \/ UNCHANGED vars
  BY <1>4, RouteMain
<1>5. CASE Exited
  BY <1>4, <1>5 DEF Exited
<1>6. QED
  BY <1>1, <1>2, <1>3, <1>4, <1>5 DEF Next

\* A request that carries tool results goes to the slot whose live state knows
\* the calls, whatever the number of requests and slots, and although workers
\* change live states while a dispatch loop runs.
THEOREM ContinuationOnItsSlotCorrect == Spec => []ContinuationOnItsSlot
<1>1. Init => RouteInv
  BY RouteInit
<1>2. Spec => []RouteInv
  BY InvCorrect, RouteInit, RouteStep, PTL DEF Spec
<1>3. RouteInv => ContinuationOnItsSlot
  BY DEF RouteInv
<1>4. QED
  BY <1>2, <1>3, PTL

(***************************************************************************)
(* Arrival order.                                                          *)
(***************************************************************************)

\* Only the dispatcher hands a job to a slot.
LEMMA AssignedByDispatch ==
  ASSUME SchedInv, [Next]_vars
  PROVE  DispatchOne \/ \A s \in Slot : assigned'[s] \in {assigned[s], NoJob}
<1> DEFINE Kept == \A s \in Slot : assigned'[s] \in {assigned[s], NoJob}
<1> USE DEF slotVars, vars
<1>1. ASSUME UNCHANGED assigned PROVE Kept
  BY <1>1
<1>2. ASSUME NEW j \in Job, Accept(j) \/ ClientStep(j) \/ PollTimeout(j) \/ MarkCancelled(j)
      PROVE  Kept
  <2>1. CASE CancelAssigned(j)
    BY <2>1 DEF CancelAssigned, SchedInv, TypeOK
  <2>2. CASE ~CancelAssigned(j)
    <3>1. UNCHANGED assigned
      BY <1>2, <2>2 DEF Accept, ClientStep, PollTimeout, MarkCancelled, ClientWithoutJob,
         EnqueueRefused, Enqueue, EnqueueEnd, SeeDone, StillConnected, CancelStep,
         CancelQueued, CancelAssignedEnd, CancelTaken, CancelModel, CancelComplete,
         ClientDone
    <3>2. QED
      BY <3>1
  <2>3. QED
    BY <2>1, <2>2
<1>3. ASSUME NEW s \in Slot, SpawnWorker(s) \/ WorkerStep(s) \/ GenerateStep(s)
      PROVE  Kept
  <2>1. CASE TakeAssigned(s)
    BY <2>1 DEF TakeAssigned, SchedInv, TypeOK
  <2>2. CASE ~TakeAssigned(s)
    <3>1. UNCHANGED assigned
      BY <1>3, <2>2 DEF SpawnWorker, WorkerStep, GenerateStep, WorkerSleep, Dequeue,
         WorkerExit, StartJob, CheckCancelled, FinishInner, ClearRunning, WorkerComplete,
         ReleaseSlot, ReleaseEnd, ForgetLive, RememberLive, StreamWriteFails
    <3>2. QED
      BY <3>1
  <2>3. QED
    BY <2>1, <2>2
<1>4. CASE MainStep \/ StartupFails \/ StopSignal \/ Exited \/ UNCHANGED vars
  <2>1. UNCHANGED assigned
    BY <1>4 DEF MainStep, Listen, RequestWorkerStop, RequestWorkerStopEnd, JoinWorkers,
       DrainSleep, CloseResources, StartupFails, StopSignal, Exited
  <2>2. QED
    BY <2>1
<1>5. QED
  BY <1>2, <1>3, <1>4 DEF Next

\* The step behind FifoAmongRunnable.
LEMMA FifoStep ==
  ASSUME SchedInv, [Next]_vars,
         NEW m \in 1..Len(queue), NEW k \in 1..Len(queue), m < k,
         NEW t \in Slot, assigned[t] = NoJob, assigned'[t] = queue[k]
  PROVE  \E s \in RequiredSlots(queue[m]) : busy[s]
<1>1. queue \in Seq(Job) /\ queue[k] \in Job /\ queue[k] # NoJob
  BY ConstantsAssumption DEF SchedInv, TypeOK
<1>2. DispatchOne
  BY <1>1, AssignedByDispatch
<1>3. PICK i \in 1..Len(queue), s \in Slot :
         /\ FirstRunnable(i) /\ s \in EligibleSlots(queue[i])
         /\ assigned' = [assigned EXCEPT ![s] = queue[i]]
  BY <1>2 DEF DispatchOne, EligibleSlots
<1>4. queue[i] = queue[k]
  BY <1>1, <1>3 DEF SchedInv, TypeOK
<1>5. i = k
  BY <1>4 DEF SchedInv, OneOwner
<1>6. BatchedMode /\ EligibleSlots(queue[m]) = {}
  <2>1. m \in 1..(i-1)
    BY <1>1, <1>5
  <2>2. QED
    BY <1>3, <2>1 DEF FirstRunnable, CanDispatch
<1>7. ~busy[s] /\ assigned[s] = NoJob
  BY <1>3 DEF EligibleSlots
<1>8. PICK r \in RequiredSlots(queue[m]) : TRUE
  BY <1>6, <1>7 DEF EligibleSlots
<1>9. r \in Slot /\ (busy[r] \/ assigned[r] # NoJob)
  BY <1>6, <1>8 DEF EligibleSlots, RequiredSlots
<1>10. busy[r]
  BY <1>6, <1>9 DEF SchedInv, SlotBusy
<1>11. QED
  BY <1>8, <1>10

\* "FIFO among jobs that can run now": a dispatch passes over an earlier
\* request only while the slot of that request's own conversation is busy.
THEOREM FifoAmongRunnableCorrect == Spec => FifoAmongRunnable
<1> DEFINE A == \A i, k \in 1..Len(queue) :
       /\ i < k
       /\ \E s \in Slot : assigned[s] = NoJob /\ assigned'[s] = queue[k]
       => \E s \in RequiredSlots(queue[i]) : busy[s]
<1>1. SchedInv /\ [Next]_vars => [A]_vars
  BY FifoStep
<1>2. FifoAmongRunnable <=> [][A]_vars
  BY DEF FifoAmongRunnable
<1> HIDE DEF A
<1>3. QED
  BY <1>1, <1>2, InvCorrect, PTL DEF Spec

(***************************************************************************)
(* The scheduler implements JobService (safety; the fairness part of       *)
(* ImplementsJobService is checked by TLC).                                *)
(***************************************************************************)

New(j) == cpc[j] \in {"absent", "reading"}
Serving(j) == \E s \in Slot : held[s] = j
Taken(j) == Queued(j) \/ \E s \in Slot : assigned[s] = j
Over(j) == done[j] \/ detached[j]

\* A job shown in slot->running is also held.
LEMMA ReferencedAlt ==
  SchedInv => \A j \in Job : Referenced(j) <=> Serving(j) \/ Taken(j)
  BY ConstantsAssumption DEF SchedInv, SlotShape, Referenced, Serving, Taken

LEMMA ReferencedAltNext ==
  SchedInv' => \A j \in Job : Referenced(j)' <=> Serving(j)' \/ Taken(j)'
  BY ConstantsAssumption DEF SchedInv, SlotShape, Referenced, Serving, Taken

\* While a job is queued or assigned no worker holds it, and a client that has
\* not enqueued its job has nothing to wait for.
LEMMA PhaseFacts ==
  ASSUME SchedInv, NothingLost, NEW j \in Job
  PROVE  /\ Taken(j) => ~Serving(j)
         /\ Taken(j) \/ Serving(j) => cpc[j] \in Waiting /\ ~done[j] /\ ~New(j) /\ ~Detached(j)
         /\ New(j) => ~Taken(j) /\ ~Serving(j) /\ ~Over(j)
<1>1. OwnedOnce(j)
  BY OneOwnerAlt DEF SchedInv
<1>2. Taken(j) => ~Serving(j)
  BY <1>1 DEF Taken, Serving, OwnedOnce
<1>3. Taken(j) \/ Serving(j) => cpc[j] \in Waiting /\ ~done[j] /\ ~Detached(j)
  BY ReferencedAlt DEF SchedInv, ReferencedIsAwaited
<1>4. New(j) => ~done[j] /\ ~detached[j]
  BY DEF SchedInv, NotYetDone, NothingLost, New
<1>5. QED
  BY <1>2, <1>3, <1>4 DEF New, Waiting, Over

LEMMA LostInit == Init => NothingLost
  BY DEF Init, NothingLost, Waiting

\* What a step must show about the job of one client, or of one worker.
LEMMA LostFrame ==
  ASSUME SchedInv, SchedInv', NothingLost,
         \A k \in Job :
           \/ /\ cpc'[k] = cpc[k] /\ detached'[k] = detached[k]
              /\ done[k] => done'[k]
              /\ Serving(k) \/ Taken(k) => Serving(k)' \/ Taken(k)' \/ done'[k]
           \/ /\ cpc'[k] \in Waiting => Serving(k)' \/ Taken(k)' \/ done'[k] \/ Detached(k)'
              /\ New(k)' => ~detached'[k]
              /\ cpc'[k] \in {"detaching", "completing"} => detached'[k]
  PROVE  NothingLost'
<1> SUFFICES ASSUME NEW k \in Job
             PROVE  /\ cpc'[k] \in Waiting => Referenced(k)' \/ done'[k] \/ Detached(k)'
                    /\ cpc'[k] \in {"absent", "reading"} => ~detached'[k]
                    /\ cpc'[k] \in {"detaching", "completing"} => detached'[k]
  BY DEF NothingLost
<1>1. Referenced(k) <=> Serving(k) \/ Taken(k)
  BY ReferencedAlt
<1>2. Referenced(k)' <=> Serving(k)' \/ Taken(k)'
  BY ReferencedAltNext
<1>3. QED
  BY <1>1, <1>2 DEF NothingLost, Detached, New

\* Steps of one client that move no job pointer.
LEMMA LostClient ==
  ASSUME SchedInv, SchedInv', NothingLost, NEW j \in Job,
         \/ Accept(j) \/ ClientWithoutJob(j) \/ EnqueueRefused(j) \/ EnqueueEnd(j)
         \/ SeeDone(j) \/ StillConnected(j) \/ PollTimeout(j) \/ MarkCancelled(j)
         \/ CancelAssignedEnd(j) \/ CancelTaken(j) \/ CancelModel(j)
         \/ CancelComplete(j) \/ ClientDone(j)
  PROVE  NothingLost'
<1> USE DEF Accept, ClientWithoutJob, EnqueueRefused, EnqueueEnd, SeeDone, StillConnected,
      PollTimeout, MarkCancelled, CancelAssignedEnd, CancelTaken, CancelModel,
      CancelComplete, ClientDone, slotVars, jobVars, serverVars
<1>1. UNCHANGED <<queue, assigned, held>>
  OBVIOUS
<1>2. \A k \in Job : (Serving(k)' <=> Serving(k)) /\ (Taken(k)' <=> Taken(k))
  BY <1>1 DEF Serving, Taken, Queued
<1>3. \A k \in Job \ {j} : cpc'[k] = cpc[k] /\ detached'[k] = detached[k] /\ done'[k] = done[k]
  BY DEF SchedInv, TypeOK
<1>4. cpc[j] \in Waiting => Serving(j) \/ Taken(j) \/ done[j] \/ Detached(j)
  BY ReferencedAlt DEF NothingLost
<1>5. /\ cpc'[j] \in Waiting => Serving(j) \/ Taken(j) \/ done'[j] \/ Detached(j)'
      /\ New(j)' => ~detached'[j]
      /\ cpc'[j] \in {"detaching", "completing"} => detached'[j]
  <2> USE <1>4 DEF SchedInv, TypeOK, NothingLost, New, Waiting, Detached
  <2>1. CASE Accept(j) BY <2>1
  <2>2. CASE ClientWithoutJob(j) BY <2>2
  <2>3. CASE EnqueueRefused(j) BY <2>3
  <2>4. CASE EnqueueEnd(j) BY <2>4
  <2>5. CASE SeeDone(j) BY <2>5
  <2>6. CASE StillConnected(j) BY <2>6
  <2>7. CASE PollTimeout(j) BY <2>7
  <2>8. CASE MarkCancelled(j) BY <2>8
  <2>9. CASE CancelAssignedEnd(j) BY <2>9
  <2>10. CASE CancelTaken(j) BY <2>10
  <2>11. CASE CancelModel(j) BY <2>11
  <2>12. CASE CancelComplete(j) BY <2>12
  <2>13. CASE ClientDone(j) BY <2>13
  <2>14. QED
    BY <2>1, <2>2, <2>3, <2>4, <2>5, <2>6, <2>7, <2>8, <2>9, <2>10, <2>11, <2>12, <2>13
<1>6. QED
  BY <1>2, <1>3, <1>5, LostFrame

\* The moves of a job pointer, seen by the client: queue and assigned are one.
LEMMA EnqueueMoves ==
  ASSUME SchedInv, NEW j \in Job, Enqueue(j)
  PROVE  /\ ~Taken(j) /\ ~Serving(j)
         /\ \A k \in Job : Taken(k)' <=> k = j \/ Taken(k)
         /\ \A k \in Job : Serving(k)' <=> Serving(k)
<1>1. ~Referenced(j)
  BY DEF Enqueue, SchedInv, ReferencedIsAwaited, Waiting
<1>2. ~Taken(j) /\ ~Serving(j) /\ ~Queued(j)
  BY <1>1, ReferencedAlt DEF Taken
<1>3. \A k \in Job : Queued(k)' <=> k = j \/ Queued(k)
  BY <1>2, QueuedLink DEF Enqueue
<1>4. QED
  BY <1>2, <1>3 DEF Taken, Serving, Enqueue, slotVars

LEMMA DetachMoves ==
  ASSUME SchedInv, NEW j \in Job, CancelQueued(j) \/ CancelAssigned(j)
  PROVE  /\ Taken(j) /\ ~Serving(j)
         /\ \A k \in Job : Taken(k)' <=> k # j /\ Taken(k)
         /\ \A k \in Job : Serving(k)' <=> Serving(k)
<1>1. OwnedOnce(j)
  BY OneOwnerAlt DEF SchedInv
<1>2. UNCHANGED held
  BY DEF CancelQueued, CancelAssigned, slotVars
<1>3. CASE CancelQueued(j)
  <2>1. PICK i \in 1..Len(queue) : queue[i] = j /\ queue' = RemoveAt(queue, i)
    BY <1>3 DEF CancelQueued
  <2>2. \A k \in Job : Queued(k)' <=> k # j /\ Queued(k)
    BY <2>1, QueuedUnlink
  <2>3. Queued(j) /\ UNCHANGED assigned
    BY <1>3, <2>1 DEF Queued, CancelQueued, slotVars
  <2>4. QED
    BY <1>1, <1>2, <2>2, <2>3 DEF Taken, Serving, OwnedOnce
<1>4. CASE CancelAssigned(j)
  <2>1. PICK s \in Slot : assigned[s] = j /\ assigned' = [assigned EXCEPT ![s] = NoJob]
    BY <1>4 DEF CancelAssigned
  <2>2. \A t \in Slot : assigned'[t] = IF t = s THEN NoJob ELSE assigned[t]
    BY <2>1 DEF SchedInv, TypeOK
  <2>3. \A k \in Job : Queued(k)' <=> Queued(k)
    BY <1>4 DEF CancelAssigned, serverVars, Queued
  <2>4. QED
    BY <1>1, <1>2, <2>1, <2>2, <2>3, ConstantsAssumption DEF Taken, Serving, OwnedOnce
<1>5. QED
  BY <1>3, <1>4

\* A worker takes job j.
LEMMA TakeMoves ==
  ASSUME SchedInv, NEW s \in Slot, TakeAssigned(s) \/ Dequeue(s)
  PROVE  \E j \in Job :
           /\ held[s] = NoJob /\ held' = [held EXCEPT ![s] = j]
           /\ Taken(j)
           /\ \A k \in Job : Taken(k)' <=> k # j /\ Taken(k)
           /\ \A k \in Job : Serving(k)' <=> k = j \/ Serving(k)
<1>1. held[s] = NoJob
  BY DEF TakeAssigned, Dequeue, SchedInv, SlotShape, Holding
<1>2. ASSUME NEW j \in Job, held' = [held EXCEPT ![s] = j]
      PROVE  \A k \in Job : Serving(k)' <=> k = j \/ Serving(k)
  <2>1. \A t \in Slot : held'[t] = IF t = s THEN j ELSE held[t]
    BY <1>2 DEF SchedInv, TypeOK
  <2>2. QED
    BY <1>1, <2>1, ConstantsAssumption DEF Serving
<1>3. CASE TakeAssigned(s)
  <2>1. PICK j \in Job : j = assigned[s]
    BY <1>3 DEF TakeAssigned, SchedInv, TypeOK
  <2>2. \A t \in Slot : assigned'[t] = IF t = s THEN NoJob ELSE assigned[t]
    BY <1>3 DEF TakeAssigned, SchedInv, TypeOK
  <2>3. \A k \in Job : Queued(k)' <=> Queued(k)
    BY <1>3 DEF TakeAssigned, serverVars, Queued
  <2>4. OwnedOnce(j)
    BY OneOwnerAlt DEF SchedInv
  <2>5. Taken(j) /\ \A k \in Job : Taken(k)' <=> k # j /\ Taken(k)
    BY <2>1, <2>2, <2>3, <2>4, ConstantsAssumption DEF Taken, OwnedOnce
  <2>6. held' = [held EXCEPT ![s] = j]
    BY <1>3, <2>1 DEF TakeAssigned
  <2>7. QED
    BY <1>1, <1>2, <2>5, <2>6
<1>4. CASE Dequeue(s)
  <2>1. PICK j \in Job : j = Head(queue) /\ Queued(j)
                         /\ \A k \in Job : Queued(k)' <=> k # j /\ Queued(k)
    BY <1>4, QueuedTail DEF Dequeue
  <2>2. OwnedOnce(j)
    BY OneOwnerAlt DEF SchedInv
  <2>3. UNCHANGED assigned
    BY <1>4 DEF Dequeue
  <2>4. Taken(j) /\ \A k \in Job : Taken(k)' <=> k # j /\ Taken(k)
    BY <2>1, <2>2, <2>3 DEF Taken, OwnedOnce
  <2>5. held' = [held EXCEPT ![s] = j]
    BY <1>4, <2>1 DEF Dequeue
  <2>6. QED
    BY <1>1, <1>2, <2>4, <2>5
<1>5. QED
  BY <1>3, <1>4

\* A worker completes job j.
LEMMA CompleteMoves ==
  ASSUME SchedInv, NEW s \in Slot, WorkerComplete(s)
  PROVE  \E j \in Job :
           /\ held[s] = j /\ held' = [held EXCEPT ![s] = NoJob]
           /\ Serving(j) /\ done' = [done EXCEPT ![j] = TRUE]
           /\ \A k \in Job : Taken(k)' <=> Taken(k)
           /\ \A k \in Job : Serving(k)' <=> k # j /\ Serving(k)
<1>1. PICK j \in Job : j = held[s]
  BY DEF WorkerComplete, SchedInv, TypeOK, SlotShape, Holding
<1>2. \A t \in Slot : held'[t] = IF t = s THEN NoJob ELSE held[t]
  BY DEF WorkerComplete, SchedInv, TypeOK
<1>3. \A k \in Job : Taken(k)' <=> Taken(k)
  BY DEF WorkerComplete, serverVars, Taken, Queued
<1>4. OwnedOnce(j)
  BY OneOwnerAlt DEF SchedInv
<1>5. Serving(j) /\ \A k \in Job : Serving(k)' <=> k # j /\ Serving(k)
  BY <1>1, <1>2, <1>4, ConstantsAssumption DEF Serving, OwnedOnce
<1>6. QED
  BY <1>1, <1>3, <1>5 DEF WorkerComplete

\* A dispatch moves a job from the queue to a slot: it stays taken.
LEMMA DispatchMoves ==
  ASSUME SchedInv, DispatchOne
  PROVE  \A k \in Job : (Taken(k)' <=> Taken(k)) /\ (Serving(k)' <=> Serving(k))
<1>1. PICK i \in 1..Len(queue), s \in Slot :
         /\ s \in EligibleSlots(queue[i])
         /\ assigned' = [assigned EXCEPT ![s] = queue[i]]
         /\ queue' = RemoveAt(queue, i)
  BY DEF DispatchOne, EligibleSlots
<1>2. PICK j \in Job : j = queue[i] /\ Queued(j)
  BY DEF SchedInv, TypeOK, Queued
<1>3. \A k \in Job : Queued(k)' <=> k # j /\ Queued(k)
  BY <1>1, <1>2, QueuedUnlink
<1>4. \A t \in Slot : assigned'[t] = IF t = s THEN j ELSE assigned[t]
  BY <1>1, <1>2 DEF SchedInv, TypeOK
<1>5. assigned[s] = NoJob
  BY <1>1 DEF EligibleSlots
<1>6. QED
  BY <1>2, <1>3, <1>4, <1>5, ConstantsAssumption DEF Taken, Serving, DispatchOne

\* The other steps of a worker move none: running follows held.
LEMMA WorkerStays ==
  ASSUME NEW s \in Slot,
         \/ SpawnWorker(s) \/ WorkerSleep(s) \/ WorkerExit(s) \/ StartJob(s)
         \/ CheckCancelled(s) \/ GenerateStep(s) \/ FinishInner(s) \/ ClearRunning(s)
         \/ ReleaseSlot(s) \/ ReleaseEnd(s)
  PROVE  UNCHANGED <<queue, assigned, held, done, detached, cpc, stopping>>
BY DEF SpawnWorker, WorkerSleep, WorkerExit, StartJob, CheckCancelled, GenerateStep,
   FinishInner, ClearRunning, ReleaseSlot, ReleaseEnd, ForgetLive, RememberLive,
   StreamWriteFails, slotVars, jobVars, serverVars, pcVars

LEMMA MainStays ==
  ASSUME MainStep \/ StartupFails \/ StopSignal \/ Exited \/ UNCHANGED vars
  PROVE  /\ UNCHANGED <<queue, assigned, held, done, detached, cpc>>
         /\ stopping' = stopping \/ stopping' = TRUE
BY DEF MainStep, Listen, RequestWorkerStop, RequestWorkerStopEnd, JoinWorkers,
   DrainSleep, CloseResources, StartupFails, StopSignal, Exited, vars,
   slotVars, jobVars, serverVars, pcVars

LEMMA LostStep == SchedInv /\ NothingLost /\ [Next]_vars => NothingLost'
<1> SUFFICES ASSUME SchedInv, NothingLost, [Next]_vars PROVE NothingLost'
  OBVIOUS
<1>i. SchedInv'
  BY InvStep
<1>1. ASSUME UNCHANGED <<queue, assigned, held, done, detached, cpc>>
      PROVE  NothingLost'
  BY <1>i, <1>1, LostFrame DEF Serving, Taken, Queued
<1>2. ASSUME NEW j \in Job, Accept(j) \/ ClientStep(j) \/ PollTimeout(j) \/ MarkCancelled(j)
      PROVE  NothingLost'
  <2>1. CASE Enqueue(j)
    <3>1. /\ cpc'[j] = "enqueuing" /\ UNCHANGED <<done, detached>>
          /\ \A k \in Job \ {j} : cpc'[k] = cpc[k]
      BY <2>1 DEF Enqueue, SchedInv, TypeOK, jobVars
    <3>2. QED
      BY <1>i, <2>1, <3>1, EnqueueMoves, LostFrame DEF New
  <2>2. CASE CancelQueued(j) \/ CancelAssigned(j)
    <3>1. /\ cpc'[j] \in {"cancel_model", "detaching"} /\ detached'[j] /\ UNCHANGED done
          /\ \A k \in Job \ {j} : cpc'[k] = cpc[k] /\ detached'[k] = detached[k]
      BY <2>2 DEF CancelQueued, CancelAssigned, SchedInv, TypeOK
    <3>2. QED
      BY <1>i, <2>2, <3>1, DetachMoves, LostFrame DEF New, Detached
  <2>3. CASE ~(Enqueue(j) \/ CancelQueued(j) \/ CancelAssigned(j))
    BY <1>i, <1>2, <2>3, LostClient DEF ClientStep, CancelStep
  <2>4. QED
    BY <2>1, <2>2, <2>3
<1>3. ASSUME NEW s \in Slot, SpawnWorker(s) \/ WorkerStep(s) \/ GenerateStep(s)
      PROVE  NothingLost'
  <2>1. CASE TakeAssigned(s) \/ Dequeue(s)
    <3>1. UNCHANGED <<cpc, detached, done>>
      BY <2>1 DEF TakeAssigned, Dequeue, jobVars
    <3>2. \A k \in Job : Serving(k) \/ Taken(k) => Serving(k)' \/ Taken(k)'
      BY <2>1, TakeMoves
    <3>3. QED
      BY <1>i, <3>1, <3>2, LostFrame
  <2>2. CASE WorkerComplete(s)
    <3>1. UNCHANGED <<cpc, detached>>
      BY <2>2 DEF WorkerComplete
    <3>2. PICK j \in Job : /\ done' = [done EXCEPT ![j] = TRUE]
                           /\ \A k \in Job : Taken(k)' <=> Taken(k)
                           /\ \A k \in Job : Serving(k)' <=> k # j /\ Serving(k)
      BY <2>2, CompleteMoves
    <3>3. \A k \in Job : done'[k] <=> k = j \/ done[k]
      BY <3>2 DEF SchedInv, TypeOK
    <3>4. QED
      BY <1>i, <3>1, <3>2, <3>3, LostFrame
  <2>3. CASE ~(TakeAssigned(s) \/ Dequeue(s) \/ WorkerComplete(s))
    BY <1>1, <1>3, <2>3, WorkerStays DEF WorkerStep
  <2>4. QED
    BY <2>1, <2>2, <2>3
<1>4. CASE DispatchOne
  <2>1. UNCHANGED <<cpc, detached, done>>
    BY <1>4 DEF DispatchOne, jobVars, pcVars
  <2>2. QED
    BY <1>i, <1>4, <2>1, DispatchMoves, LostFrame
<1>5. CASE MainStep \/ StartupFails \/ StopSignal \/ Exited \/ UNCHANGED vars
  BY <1>1, <1>5, MainStays
<1>6. QED
  BY <1>2, <1>3, <1>4, <1>5 DEF Next

\* While a client waits its job is queued, with a slot, completed, or taken
\* back by the client itself: no request is lost between two critical sections.
THEOREM NothingLostCorrect == Spec => []NothingLost
  BY InvCorrect, LostInit, LostStep, PTL DEF Spec

\* The phase of a job depends on these four facts only.
LEMMA PhaseKept ==
  ASSUME NEW k \in Job, New(k)' <=> New(k), Taken(k)' <=> Taken(k),
         Serving(k)' <=> Serving(k),
         ~New(k) /\ ~Serving(k) /\ ~Taken(k) => (Over(k)' <=> Over(k))
  PROVE  PhaseOf(k)' = PhaseOf(k)
  BY DEF PhaseOf, New, Taken, Serving, Over

\* A step that maps to a stutter of JobService.
LEMMA Stutters ==
  ASSUME UNCHANGED <<held, stopping>>, \A k \in Job : PhaseOf(k)' = PhaseOf(k)
  PROVE  UNCHANGED Service!vars
<1>1. [k \in Job |-> PhaseOf(k)]' = [k \in Job |-> PhaseOf(k)]
  OBVIOUS
<1>2. QED
  BY <1>1 DEF Service!vars

\* A step that changes the phase of one job.
LEMMA PhaseMoves ==
  ASSUME NEW j \in Job, \A k \in Job \ {j} : PhaseOf(k)' = PhaseOf(k)
  PROVE  [k \in Job |-> PhaseOf(k)]' = [[k \in Job |-> PhaseOf(k)] EXCEPT ![j] = PhaseOf(j)']
  OBVIOUS

\* Steps of a client that JobService does not see.
LEMMA ClientStutters ==
  ASSUME SchedInv, NothingLost, NEW j \in Job,
         \/ Accept(j) \/ EnqueueEnd(j) \/ SeeDone(j) \/ StillConnected(j)
         \/ PollTimeout(j) \/ MarkCancelled(j) \/ CancelAssignedEnd(j)
         \/ CancelTaken(j) \/ CancelModel(j) \/ CancelComplete(j) \/ ClientDone(j)
  PROVE  UNCHANGED Service!vars
<1> USE DEF Accept, EnqueueEnd, SeeDone, StillConnected, PollTimeout, MarkCancelled,
      CancelAssignedEnd, CancelTaken, CancelModel, CancelComplete, ClientDone,
      slotVars, jobVars, serverVars
<1>1. UNCHANGED <<queue, assigned, held, stopping>>
  OBVIOUS
<1>2. \A k \in Job : (Serving(k)' <=> Serving(k)) /\ (Taken(k)' <=> Taken(k))
  BY <1>1 DEF Serving, Taken, Queued
<1>3. \A k \in Job \ {j} : cpc'[k] = cpc[k] /\ detached'[k] = detached[k] /\ done'[k] = done[k]
  BY DEF SchedInv, TypeOK
<1>4. \A k \in Job \ {j} : PhaseOf(k)' = PhaseOf(k)
  BY <1>2, <1>3, PhaseKept DEF New, Over
<1>5. cpc[j] \in Waiting => Serving(j) \/ Taken(j) \/ done[j] \/ Detached(j)
  BY ReferencedAlt DEF NothingLost
<1>6. /\ New(j)' <=> New(j)
      /\ ~Serving(j) /\ ~Taken(j) => (Over(j)' <=> Over(j))
  <2> USE <1>5 DEF SchedInv, TypeOK, NothingLost, New, Over, Waiting, Detached
  <2>1. CASE Accept(j) BY <2>1
  <2>2. CASE EnqueueEnd(j) BY <2>2
  <2>3. CASE SeeDone(j) BY <2>3
  <2>4. CASE StillConnected(j) BY <2>4
  <2>5. CASE PollTimeout(j) BY <2>5
  <2>6. CASE MarkCancelled(j) BY <2>6
  <2>7. CASE CancelAssignedEnd(j) BY <2>7
  <2>8. CASE CancelTaken(j) BY <2>8
  <2>9. CASE CancelModel(j) BY <2>9
  <2>10. CASE CancelComplete(j) BY <2>10
  <2>11. CASE ClientDone(j) BY <2>11
  <2>12. QED
    BY <2>1, <2>2, <2>3, <2>4, <2>5, <2>6, <2>7, <2>8, <2>9, <2>10, <2>11
<1>7. PhaseOf(j)' = PhaseOf(j)
  BY <1>2, <1>6, PhaseKept
<1>8. QED
  BY <1>1, <1>4, <1>7, Stutters

\* A connection that brings no work, or comes after the stop, is refused.
LEMMA RefuseMaps ==
  ASSUME SchedInv, NothingLost, NEW j \in Job, ClientWithoutJob(j) \/ EnqueueRefused(j)
  PROVE  Service!Refuse(j)
<1>1. UNCHANGED <<queue, assigned, held, done, detached, stopping>>
  BY DEF ClientWithoutJob, EnqueueRefused, slotVars, jobVars, serverVars
<1>2. New(j) /\ ~New(j)' /\ \A k \in Job \ {j} : cpc'[k] = cpc[k]
  BY DEF ClientWithoutJob, EnqueueRefused, New, SchedInv, TypeOK
<1>3. ~Taken(j) /\ ~Serving(j) /\ ~Over(j)
  BY <1>2, PhaseFacts
<1>4. \A k \in Job : (Serving(k)' <=> Serving(k)) /\ (Taken(k)' <=> Taken(k)) /\ (Over(k)' <=> Over(k))
  BY <1>1 DEF Serving, Taken, Queued, Over
<1>5. \A k \in Job \ {j} : PhaseOf(k)' = PhaseOf(k)
  BY <1>2, <1>4, PhaseKept DEF New
<1>6. PhaseOf(j) = "new" /\ PhaseOf(j)' = "refused"
  <2>1. PhaseOf(j) = "new"
    BY <1>2 DEF PhaseOf, New
  <2>2. ~New(j)' /\ ~Serving(j)' /\ ~Taken(j)' /\ ~Over(j)'
    BY <1>2, <1>3, <1>4
  <2>3. PhaseOf(j)' = "refused"
    BY <2>2 DEF PhaseOf, New, Serving, Taken, Over
  <2>4. QED
    BY <2>1, <2>3
<1>7. QED
  BY <1>1, <1>5, <1>6, PhaseMoves DEF Service!Refuse

LEMMA TakeMaps ==
  ASSUME SchedInv, NothingLost, NEW j \in Job, Enqueue(j)
  PROVE  Service!Take(j)
<1>1. /\ UNCHANGED <<held, done, detached, stopping>> /\ ~stopping /\ New(j) /\ ~New(j)'
      /\ \A k \in Job \ {j} : cpc'[k] = cpc[k]
  BY DEF Enqueue, slotVars, jobVars, SchedInv, TypeOK, New
<1>2. /\ ~Serving(j)' /\ Taken(j)'
      /\ \A k \in Job \ {j} : (Serving(k)' <=> Serving(k)) /\ (Taken(k)' <=> Taken(k))
  BY EnqueueMoves
<1>3. \A k \in Job \ {j} : PhaseOf(k)' = PhaseOf(k)
  BY <1>1, <1>2, PhaseKept DEF New, Over
<1>4. PhaseOf(j) = "new"
  BY <1>1 DEF PhaseOf, New
<1>5. PhaseOf(j)' = "taken"
  BY <1>1, <1>2 DEF PhaseOf, New, Serving, Taken
<1>6. QED
  BY <1>1, <1>3, <1>4, <1>5, PhaseMoves DEF Service!Take

LEMMA AbandonMaps ==
  ASSUME SchedInv, NothingLost, NEW j \in Job, CancelQueued(j) \/ CancelAssigned(j)
  PROVE  Service!Abandon(j)
<1>1. /\ UNCHANGED <<held, stopping>> /\ ~New(j)' /\ Over(j)'
      /\ \A k \in Job \ {j} : /\ cpc'[k] = cpc[k] /\ detached'[k] = detached[k]
                              /\ done'[k] = done[k]
  BY DEF CancelQueued, CancelAssigned, slotVars, serverVars, SchedInv, TypeOK, New, Over
<1>2. /\ Taken(j) /\ ~Serving(j) /\ ~Taken(j)' /\ ~Serving(j)'
      /\ \A k \in Job \ {j} : (Serving(k)' <=> Serving(k)) /\ (Taken(k)' <=> Taken(k))
  BY DetachMoves
<1>3. ~New(j)
  BY <1>2, PhaseFacts
<1>4. \A k \in Job \ {j} : PhaseOf(k)' = PhaseOf(k)
  BY <1>1, <1>2, PhaseKept DEF New, Over
<1>5. PhaseOf(j) = "taken"
  BY <1>2, <1>3 DEF PhaseOf, New, Serving, Taken
<1>6. PhaseOf(j)' = "finished"
  BY <1>1, <1>2 DEF PhaseOf, New, Serving, Taken, Over
<1>7. QED
  BY <1>1, <1>4, <1>5, <1>6, PhaseMoves DEF Service!Abandon

LEMMA ServeMaps ==
  ASSUME SchedInv, NothingLost, NEW s \in Slot, TakeAssigned(s) \/ Dequeue(s)
  PROVE  \E j \in Job : Service!Serve(j, s)
<1>1. UNCHANGED <<cpc, done, detached, stopping>>
  BY DEF TakeAssigned, Dequeue, jobVars, serverVars
<1>2. PICK j \in Job :
        /\ held[s] = NoJob /\ held' = [held EXCEPT ![s] = j]
        /\ Taken(j)
        /\ \A k \in Job : Taken(k)' <=> k # j /\ Taken(k)
        /\ \A k \in Job : Serving(k)' <=> k = j \/ Serving(k)
  BY TakeMoves
<1>3. ~New(j) /\ ~Serving(j)
  BY <1>2, PhaseFacts
<1>4. \A k \in Job \ {j} : PhaseOf(k)' = PhaseOf(k)
  BY <1>1, <1>2, PhaseKept DEF New, Over
<1>5. PhaseOf(j) = "taken"
  BY <1>2, <1>3 DEF PhaseOf, New, Serving, Taken
<1>6. PhaseOf(j)' = "serving"
  <2>1. ~New(j)' /\ Serving(j)'
    BY <1>1, <1>2, <1>3 DEF New
  <2>2. QED
    BY <2>1 DEF PhaseOf, New, Serving
<1>7. QED
  BY <1>1, <1>2, <1>4, <1>5, <1>6, PhaseMoves DEF Service!Serve

LEMMA FinishMaps ==
  ASSUME SchedInv, NothingLost, NEW s \in Slot, WorkerComplete(s)
  PROVE  \E j \in Job : Service!Finish(j, s)
<1>1. UNCHANGED <<cpc, detached, stopping>>
  BY DEF WorkerComplete, serverVars
<1>2. PICK j \in Job :
        /\ held[s] = j /\ held' = [held EXCEPT ![s] = NoJob]
        /\ Serving(j) /\ done' = [done EXCEPT ![j] = TRUE]
        /\ \A k \in Job : Taken(k)' <=> Taken(k)
        /\ \A k \in Job : Serving(k)' <=> k # j /\ Serving(k)
  BY CompleteMoves
<1>3. ~New(j) /\ ~Taken(j)
  BY <1>2, PhaseFacts
<1>4. done'[j] /\ \A k \in Job \ {j} : done'[k] = done[k]
  BY <1>2 DEF SchedInv, TypeOK
<1>5. \A k \in Job \ {j} : PhaseOf(k)' = PhaseOf(k)
  BY <1>1, <1>2, <1>4, PhaseKept DEF New, Over
<1>6. PhaseOf(j)' = "finished"
  <2>1. ~New(j)' /\ ~Serving(j)' /\ ~Taken(j)' /\ Over(j)'
    BY <1>1, <1>2, <1>3, <1>4 DEF New, Over
  <2>2. QED
    BY <2>1 DEF PhaseOf, New, Serving, Taken, Over
<1>7. QED
  BY <1>1, <1>2, <1>5, <1>6, PhaseMoves DEF Service!Finish

\* Every step of the scheduler is a step of JobService or a stutter.
LEMMA ServiceStep ==
  SchedInv /\ NothingLost /\ [Next]_vars => [Service!Next]_(Service!vars)
<1> SUFFICES ASSUME SchedInv, NothingLost, [Next]_vars
             PROVE  Service!Next \/ UNCHANGED Service!vars
  OBVIOUS
<1>1. ASSUME UNCHANGED <<queue, assigned, held, done, detached, cpc, stopping>>
      PROVE  UNCHANGED Service!vars
  <2>1. \A k \in Job : PhaseOf(k)' = PhaseOf(k)
    BY <1>1 DEF PhaseOf, Queued
  <2>2. QED
    BY <1>1, <2>1, Stutters
<1>2. ASSUME NEW j \in Job, Accept(j) \/ ClientStep(j) \/ PollTimeout(j) \/ MarkCancelled(j)
      PROVE  Service!Next \/ UNCHANGED Service!vars
  <2>1. CASE Enqueue(j)
    BY <2>1, TakeMaps DEF Service!Next
  <2>2. CASE ClientWithoutJob(j) \/ EnqueueRefused(j)
    BY <2>2, RefuseMaps DEF Service!Next
  <2>3. CASE CancelQueued(j) \/ CancelAssigned(j)
    BY <2>3, AbandonMaps DEF Service!Next, Service!Progress
  <2>4. CASE ~(\/ Enqueue(j) \/ ClientWithoutJob(j) \/ EnqueueRefused(j)
               \/ CancelQueued(j) \/ CancelAssigned(j))
    BY <1>2, <2>4, ClientStutters DEF ClientStep, CancelStep
  <2>5. QED
    BY <2>1, <2>2, <2>3, <2>4
<1>3. ASSUME NEW s \in Slot, SpawnWorker(s) \/ WorkerStep(s) \/ GenerateStep(s)
      PROVE  Service!Next \/ UNCHANGED Service!vars
  <2>1. CASE TakeAssigned(s) \/ Dequeue(s)
    BY <2>1, ServeMaps DEF Service!Next, Service!Progress
  <2>2. CASE WorkerComplete(s)
    BY <2>2, FinishMaps DEF Service!Next, Service!Progress
  <2>3. CASE ~(TakeAssigned(s) \/ Dequeue(s) \/ WorkerComplete(s))
    BY <1>1, <1>3, <2>3, WorkerStays DEF WorkerStep
  <2>4. QED
    BY <2>1, <2>2, <2>3
<1>4. CASE DispatchOne
  <2>1. UNCHANGED <<cpc, detached, done, held, stopping>>
    BY <1>4 DEF DispatchOne, jobVars, pcVars
  <2>2. \A k \in Job : PhaseOf(k)' = PhaseOf(k)
    BY <1>4, <2>1, DispatchMoves, PhaseKept DEF New, Over
  <2>3. QED
    BY <2>1, <2>2, Stutters
<1>5. CASE MainStep \/ StartupFails \/ StopSignal \/ Exited \/ UNCHANGED vars
  <2>1. /\ UNCHANGED <<queue, assigned, held, done, detached, cpc>>
        /\ stopping' = stopping \/ stopping' = TRUE
    BY <1>5, MainStays
  <2>2. CASE stopping' = stopping
    BY <1>1, <2>1, <2>2
  <2>3. CASE stopping' # stopping
    <3>1. ~stopping /\ stopping' = TRUE
      BY <2>1, <2>3 DEF SchedInv, TypeOK
    <3>2. [k \in Job |-> PhaseOf(k)]' = [k \in Job |-> PhaseOf(k)]
      BY <2>1 DEF PhaseOf, Queued
    <3>3. Service!Close
      BY <2>1, <3>1, <3>2 DEF Service!Close
    <3>4. QED
      BY <3>3 DEF Service!Next
  <2>4. QED
    BY <2>2, <2>3
<1>6. QED
  BY <1>2, <1>3, <1>4, <1>5 DEF Next

LEMMA ServiceInit == Init => Service!Init
  BY DEF Init, Service!Init, PhaseOf

\* The scheduler implements JobService: what clients, workers, dispatchers
\* and the main thread do to the queue and the slots is, seen from outside, a
\* service that takes a request, serves it in one slot and finishes it once.
THEOREM SchedulerImplementsService == Spec => Service!Spec
  BY InvCorrect, NothingLostCorrect, ServiceInit, ServiceStep, PTL DEF Spec, Service!Spec

=============================================================================
