--------------------------- MODULE RequestProofs ---------------------------
(***************************************************************************)
(* Theorems about how requests run: when the executors of ModelGate admit  *)
(* their work, for every number of slots and encoders and every bound on   *)
(* the work of a job, and where a request of LiveBinding starts, for every *)
(* alphabet, context, client and number of requests. The two share a file  *)
(* and the number facts they rest on, and no state.                        *)
(***************************************************************************)
EXTENDS ModelGate, LiveBinding, SequenceTheorems, FiniteSetTheorems,
  WellFoundedInduction, TLAPS

(***************************************************************************)
(* Counting slots.                                                         *)
(***************************************************************************)

\* Sets of slots are finite.
LEMMA SlotsAreFinite ==
  ASSUME NEW A \in SUBSET Slot
  PROVE  IsFiniteSet(A) /\ Cardinality(A) \in Nat
<1>1. IsFiniteSet(Slot)
  BY GateAssumption, FS_Interval DEF Slot
<1>2. QED
  BY <1>1, FS_Subset, FS_CardinalityType

\* One more slot counts one more ...
LEMMA CountAdd ==
  ASSUME NEW A \in SUBSET Slot, NEW s \in Slot, s \notin A
  PROVE  Cardinality(A \cup {s}) = Cardinality(A) + 1
  BY SlotsAreFinite, FS_AddElement

\* ... and one fewer one fewer.
LEMMA CountRemove ==
  ASSUME NEW A \in SUBSET Slot, NEW s \in A
  PROVE  Cardinality(A \ {s}) = Cardinality(A) - 1 /\ Cardinality(A) > 0
<1>1. IsFiniteSet(A) /\ Cardinality(A) \in Nat /\ Cardinality(A \ {s}) \in Nat
  BY SlotsAreFinite
<1>2. Cardinality(A \ {s}) = Cardinality(A) - 1
  BY <1>1, FS_RemoveElement
<1>3. QED
  BY <1>1, <1>2

\* Nothing is counted when there is nothing.
LEMMA CountZero ==
  ASSUME NEW A \in SUBSET Slot
  PROVE  Cardinality(A) = 0 <=> A = {}
  BY SlotsAreFinite, FS_EmptySet

\* A pending token is counted.
LEMMA PendingIsPositive ==
  ASSUME TypeOK, PendingIsCounted, NEW s \in Slot, slotPending[s]
  PROVE  decodePending \in Nat \ {0}
  BY CountZero DEF TypeOK, PendingIsCounted

(***************************************************************************)
(* Type correctness.                                                       *)
(***************************************************************************)

\* Every step preserves the types.
LEMMA TypeStep ==
  ASSUME TypeOK, PromptHasWork, PendingIsCounted, [Next]_gateVars
  PROVE  TypeOK'
<1> USE GateAssumption
       DEF TypeOK, GatePC, Rc, NoAnswer, slotState, decodeState,
           decoder, prefill, Goto, Spend, Broadcast, Sleep
<1>1. ASSUME NEW s \in Slot,
             SlotStep(s) \/ JobArrives(s) \/ CancelJob(s) \/ WithdrawDecode(s)
      PROVE  TypeOK'
  <2>1. CASE CheckJob(s)
    BY <2>1 DEF CheckJob
  <2>2. CASE LeaveJob(s)
    BY <2>2 DEF LeaveJob
  <2>3. CASE ReadPosition(s)
    BY <2>3 DEF ReadPosition
  <2>4. CASE SyncInterrupted(s)
    BY <2>4 DEF SyncInterrupted
  <2>5. CASE PrefillRequest(s)
    BY <2>5 DEF PrefillRequest
  <2>6. CASE PrefillSleep(s)
    BY <2>6 DEF PrefillSleep
  <2>7. CASE PrefillAbort(s)
    BY <2>7 DEF PrefillAbort
  <2>8. CASE PrefillGrant(s)
    BY <2>8 DEF PrefillGrant
  <2>9. CASE PrefillLock(s)
    BY <2>9 DEF PrefillLock
  <2>10. CASE PrefillRun(s)
    BY <2>10 DEF PrefillRun, PromptHasWork
  <2>11. CASE PrefillLeave(s)
    <3>1. gpc' \in [Slot -> GatePC]
      BY <2>11 DEF PrefillLeave
    <3>2. QED
      BY <2>11, <3>1 DEF PrefillLeave
  <2>12. CASE SyncAgain(s)
    BY <2>12 DEF SyncAgain
  <2>13. CASE StoreLock(s)
    BY <2>13 DEF StoreLock, Using
  <2>14. CASE StoreUnlock(s)
    BY <2>14 DEF StoreUnlock, Using
  <2>15. CASE FinishJob(s)
    BY <2>15 DEF FinishJob
  <2>16. CASE GenerationEnter(s)
    BY <2>16 DEF GenerationEnter
  <2>17. CASE SampleToken(s)
    BY <2>17 DEF SampleToken
  <2>18. CASE EndLoop(s)
    BY <2>18 DEF EndLoop
  <2>19. CASE GenerationLeave(s)
    BY <2>19 DEF GenerationLeave
  <2>20. CASE EvalRefused(s)
    BY <2>20 DEF EvalRefused
  <2>21. CASE EvalRequest(s)
    BY <2>21 DEF EvalRequest
  <2>22. CASE EvalSleep(s)
    BY <2>22 DEF EvalSleep
  <2>23. CASE EvalWithdraw(s)
    <3>1. decodePending' \in Nat
      BY <2>23, PendingIsPositive DEF EvalWithdraw, CanWithdraw
    <3>2. QED
      BY <2>23, <3>1 DEF EvalWithdraw
  <2>24. CASE EvalReturn(s)
    BY <2>24 DEF EvalReturn
  <2>25. CASE JobArrives(s)
    <3>1. work' \in [Slot -> 0..MaxWork]
      BY <2>25 DEF JobArrives, BeginJob
    <3>2. cancelled' \in [Slot -> BOOLEAN]
      BY <2>25 DEF JobArrives, BeginJob
    <3>3. QED
      BY <2>25, <3>1, <3>2 DEF JobArrives, BeginJob
  <2>26. CASE CancelJob(s)
    BY <2>26 DEF CancelJob
  <2>27. CASE WithdrawDecode(s)
    <3>1. CASE CanWithdraw(s)
      <4>1. decodePending' \in Nat
        BY <2>27, <3>1, PendingIsPositive DEF WithdrawDecode, CanWithdraw
      <4>2. /\ slotPending' = [slotPending EXCEPT ![s] = FALSE]
            /\ decodeAnswer' = [decodeAnswer EXCEPT ![s] = "interrupted"]
            /\ withdrawn' = [withdrawn EXCEPT ![s] = TRUE]
            /\ Broadcast
            /\ UNCHANGED <<slotState, stopRequested, inFlight, decoder, prefill,
                           activeGenerations, modelBusy, modelStopping, inference>>
        BY <2>27, <3>1 DEF WithdrawDecode
      <4>3. QED
        BY <4>1, <4>2
    <3>2. CASE ~CanWithdraw(s)
      BY <2>27, <3>2 DEF WithdrawDecode
    <3>3. QED
      BY <3>1, <3>2
  <2>28. QED
    BY <1>1, <2>1, <2>2, <2>3, <2>4, <2>5, <2>6, <2>7, <2>8, <2>9, <2>10,
       <2>11, <2>12, <2>13, <2>14, <2>15, <2>16, <2>17, <2>18,
       <2>19, <2>20, <2>21, <2>22, <2>23, <2>24, <2>25, <2>26,
       <2>27 DEF SlotStep
<1>2. CASE DecoderStep
  <2>1. CASE DecoderSleep
    BY <2>1 DEF DecoderSleep
  <2>2. CASE DecoderCoalesce
    BY <2>2 DEF DecoderCoalesce
  <2>3. CASE DecoderBlocked
    BY <2>3 DEF DecoderBlocked, AtGate
  <2>4. CASE DecoderNoWork
    BY <2>4 DEF DecoderNoWork, AtGate
  <2>5. CASE DecoderCollect
    <3>1. /\ batch' = {s \in Slot : slotPending[s]}
          /\ decodePending' = decodePending - Cardinality(batch')
      BY <2>5 DEF DecoderCollect
    <3>2. decodePending' \in Nat
      BY <3>1 DEF PendingIsCounted
    <3>3. slotPending' \in [Slot -> BOOLEAN] /\ inFlight' \in [Slot -> BOOLEAN]
      BY <2>5 DEF DecoderCollect
    <3>4. QED
      BY <2>5, <3>1, <3>2, <3>3 DEF DecoderCollect, AtGate
  <2>6. CASE BatchLock
    BY <2>6 DEF BatchLock
  <2>7. CASE BatchEval
    BY <2>7 DEF BatchEval
  <2>8. CASE BatchPublish
    BY <2>8 DEF BatchPublish
  <2>9. CASE DecoderExit
    BY <2>9 DEF DecoderExit, AtGate
  <2>10. QED
    BY <1>2, <2>1, <2>2, <2>3, <2>4, <2>5, <2>6, <2>7, <2>8, <2>9 DEF DecoderStep
<1>3. ASSUME NEW c \in Encoders, EncodeLock(c) \/ EncodeUnlock(c)
      PROVE  TypeOK'
  BY <1>3 DEF EncodeLock, EncodeUnlock
<1>4. CASE StopSignal
  BY <1>4 DEF StopSignal
<1>5. CASE StopDecoder
  BY <1>5 DEF StopDecoder, RequestDecodeStop
<1>6. CASE UNCHANGED gateVars
  BY <1>6 DEF gateVars
<1>7. QED
  BY <1>1, <1>2, <1>3, <1>4, <1>5, <1>6 DEF Next, Exited

(***************************************************************************)
(* Admission to the executor.                                              *)
(***************************************************************************)

\* A prompt keeps its quantum until it runs, and shows that it waits.
LEMMA PromptStep ==
  ASSUME TypeOK, PromptHasWork, WaitingIsShown, [Next]_gateVars
  PROVE  PromptHasWork' /\ WaitingIsShown'
<1> USE GateAssumption
       DEF TypeOK, PromptHasWork, WaitingIsShown, GatePC, slotState,
           decodeState, decoder, prefill, Goto, Spend, Broadcast, Sleep
<1>1. ASSUME NEW s \in Slot,
             SlotStep(s) \/ JobArrives(s) \/ CancelJob(s) \/ WithdrawDecode(s)
      PROVE  PromptHasWork' /\ WaitingIsShown'
  <2>1. CASE CheckJob(s)
    BY <2>1 DEF CheckJob
  <2>2. CASE LeaveJob(s)
    BY <2>2 DEF LeaveJob
  <2>3. CASE ReadPosition(s)
    BY <2>3 DEF ReadPosition
  <2>4. CASE SyncInterrupted(s)
    BY <2>4 DEF SyncInterrupted
  <2>5. CASE PrefillRequest(s)
    BY <2>5 DEF PrefillRequest
  <2>6. CASE PrefillSleep(s)
    BY <2>6 DEF PrefillSleep
  <2>7. CASE PrefillAbort(s)
    BY <2>7 DEF PrefillAbort
  <2>8. CASE PrefillGrant(s)
    BY <2>8 DEF PrefillGrant
  <2>9. CASE PrefillLock(s)
    BY <2>9 DEF PrefillLock
  <2>10. CASE PrefillRun(s)
    BY <2>10 DEF PrefillRun
  <2>11. CASE PrefillLeave(s)
    BY <2>11 DEF PrefillLeave
  <2>12. CASE SyncAgain(s)
    BY <2>12 DEF SyncAgain
  <2>13. CASE StoreLock(s)
    BY <2>13 DEF StoreLock, Using
  <2>14. CASE StoreUnlock(s)
    BY <2>14 DEF StoreUnlock, Using
  <2>15. CASE FinishJob(s)
    BY <2>15 DEF FinishJob
  <2>16. CASE GenerationEnter(s)
    BY <2>16 DEF GenerationEnter
  <2>17. CASE SampleToken(s)
    BY <2>17 DEF SampleToken
  <2>18. CASE EndLoop(s)
    BY <2>18 DEF EndLoop
  <2>19. CASE GenerationLeave(s)
    BY <2>19 DEF GenerationLeave
  <2>20. CASE EvalRefused(s)
    BY <2>20 DEF EvalRefused
  <2>21. CASE EvalRequest(s)
    BY <2>21 DEF EvalRequest
  <2>22. CASE EvalSleep(s)
    BY <2>22 DEF EvalSleep
  <2>23. CASE EvalWithdraw(s)
    BY <2>23 DEF EvalWithdraw
  <2>24. CASE EvalReturn(s)
    BY <2>24 DEF EvalReturn
  <2>25. CASE JobArrives(s)
    BY <2>25 DEF JobArrives, BeginJob
  <2>26. CASE CancelJob(s)
    BY <2>26 DEF CancelJob
  <2>27. CASE WithdrawDecode(s)
    BY <2>27 DEF WithdrawDecode
  <2>28. QED
    BY <1>1, <2>1, <2>2, <2>3, <2>4, <2>5, <2>6, <2>7, <2>8, <2>9, <2>10,
       <2>11, <2>12, <2>13, <2>14, <2>15, <2>16, <2>17, <2>18,
       <2>19, <2>20, <2>21, <2>22, <2>23, <2>24, <2>25, <2>26,
       <2>27 DEF SlotStep
<1>2. CASE DecoderStep
  <2>1. CASE DecoderSleep
    BY <2>1 DEF DecoderSleep
  <2>2. CASE DecoderCoalesce
    BY <2>2 DEF DecoderCoalesce
  <2>3. CASE DecoderBlocked
    BY <2>3 DEF DecoderBlocked, AtGate
  <2>4. CASE DecoderNoWork
    BY <2>4 DEF DecoderNoWork, AtGate
  <2>5. CASE DecoderCollect
    BY <2>5 DEF DecoderCollect, AtGate
  <2>6. CASE BatchLock
    BY <2>6 DEF BatchLock
  <2>7. CASE BatchEval
    BY <2>7 DEF BatchEval
  <2>8. CASE BatchPublish
    BY <2>8 DEF BatchPublish
  <2>9. CASE DecoderExit
    BY <2>9 DEF DecoderExit, AtGate
  <2>10. QED
    BY <1>2, <2>1, <2>2, <2>3, <2>4, <2>5, <2>6, <2>7, <2>8, <2>9 DEF DecoderStep
<1>3. ASSUME NEW c \in Encoders, EncodeLock(c) \/ EncodeUnlock(c)
      PROVE  PromptHasWork' /\ WaitingIsShown'
  BY <1>3 DEF EncodeLock, EncodeUnlock
<1>4. CASE StopSignal
  BY <1>4 DEF StopSignal
<1>5. CASE StopDecoder
  BY <1>5 DEF StopDecoder, RequestDecodeStop
<1>6. CASE UNCHANGED gateVars
  BY <1>6 DEF gateVars
<1>7. QED
  BY <1>1, <1>2, <1>3, <1>4, <1>5, <1>6 DEF Next, Exited

\* The program counters of a worker that holds inference_mu.
LEMMA SessionUsers ==
  /\ DOMAIN Using = {"prompt", "synced", "generate", "gen_left"}
  /\ UsesSession = {"prefill_run", "storing_prompt", "storing", "storing_token",
                    "storing_answer"}
<1>1. DOMAIN Using = {"prompt", "synced", "generate", "gen_left"}
  BY DEF Using
<1>2. {Using[phase] : phase \in DOMAIN Using}
        = {"storing_prompt", "storing", "storing_token", "storing_answer"}
  BY <1>1 DEF Using
<1>3. QED
  BY <1>1, <1>2 DEF UsesSession

\* The executor is admitted once, and inference_mu has its owner.
LEMMA ExecutorStep ==
  ASSUME TypeOK, OneExecutor, InferenceIsOwned, [Next]_gateVars
  PROVE  OneExecutor' /\ InferenceIsOwned'
<1> USE GateAssumption, SessionUsers
       DEF TypeOK, OneExecutor, InferenceIsOwned, PrefillOwner,
           BatchRuns, Slot, slotState, decodeState, decoder, prefill,
           Goto, Spend, Broadcast, Sleep
<1>1. ASSUME NEW s \in Slot,
             SlotStep(s) \/ JobArrives(s) \/ CancelJob(s) \/ WithdrawDecode(s)
      PROVE  OneExecutor' /\ InferenceIsOwned'
  <2>1. CASE CheckJob(s)
    BY <2>1 DEF CheckJob
  <2>2. CASE LeaveJob(s)
    BY <2>2 DEF LeaveJob
  <2>3. CASE ReadPosition(s)
    BY <2>3 DEF ReadPosition
  <2>4. CASE SyncInterrupted(s)
    BY <2>4 DEF SyncInterrupted
  <2>5. CASE PrefillRequest(s)
    BY <2>5 DEF PrefillRequest
  <2>6. CASE PrefillSleep(s)
    BY <2>6 DEF PrefillSleep
  <2>7. CASE PrefillAbort(s)
    BY <2>7 DEF PrefillAbort
  <2>8. CASE PrefillGrant(s)
    <3>1. ~modelBusy
      BY <2>8 DEF PrefillGrant, MustWaitForPrefill
    <3>2. \A t \in Slot : gpc'[t] = IF t = s THEN "prefill_enter" ELSE gpc[t]
      BY <2>8 DEF PrefillGrant
    <3>3. modelBusy' = TRUE /\ UNCHANGED <<dpc, inference>> /\ gpc[s] = "prefill_wait"
      BY <2>8 DEF PrefillGrant
    <3>4. OneExecutor'
      BY <3>1, <3>2, <3>3
    <3>5. InferenceIsOwned'
      BY <3>2, <3>3
    <3>6. QED
      BY <3>4, <3>5
  <2>9. CASE PrefillLock(s)
    BY <2>9 DEF PrefillLock
  <2>10. CASE PrefillRun(s)
    BY <2>10 DEF PrefillRun
  <2>11. CASE PrefillLeave(s)
    <3>1. PICK phase \in {"leave", "synced", "sync"} : gpc' = [gpc EXCEPT ![s] = phase]
      BY <2>11 DEF PrefillLeave
    <3>2. \A t \in Slot : gpc'[t] = IF t = s THEN phase ELSE gpc[t]
      BY <3>1
    <3>3. modelBusy' = FALSE /\ UNCHANGED <<dpc, inference>> /\ gpc[s] = "prefill_leave"
      BY <2>11 DEF PrefillLeave
    <3>4. OneExecutor'
      BY <3>2, <3>3
    <3>5. InferenceIsOwned'
      BY <3>2, <3>3
    <3>6. QED
      BY <3>4, <3>5
  <2>12. CASE SyncAgain(s)
    BY <2>12 DEF SyncAgain
  <2>13. CASE StoreLock(s)
    BY <2>13 DEF StoreLock, Using
  <2>14. CASE StoreUnlock(s)
    <3>1. PICK phase \in {"prompt", "synced", "generate", "gen_left",
                        "decode_request", "gen_end"} :
                 gpc' = [gpc EXCEPT ![s] = phase]
      BY <2>14 DEF StoreUnlock
    <3>2. \A t \in Slot : gpc'[t] = IF t = s THEN phase ELSE gpc[t]
      BY <3>1
    <3>3. /\ inference' = Free /\ UNCHANGED <<dpc, modelBusy>>
          /\ gpc[s] \in UsesSession \ {"prefill_run"}
      BY <2>14, SessionUsers DEF StoreUnlock, Using
    <3>4. inference = s
      BY <3>3
    <3>5. \A t \in Slot : PrefillOwner(t)' <=> PrefillOwner(t)
      BY <3>2, <3>3
    <3>6. OneExecutor'
      BY <3>3, <3>5
    <3>7. InferenceIsOwned'
      BY <3>2, <3>3, <3>4
    <3>8. QED
      BY <3>6, <3>7
  <2>15. CASE FinishJob(s)
    BY <2>15 DEF FinishJob
  <2>16. CASE GenerationEnter(s)
    BY <2>16 DEF GenerationEnter
  <2>17. CASE SampleToken(s)
    <3>1. /\ gpc[s] = "generate" /\ gpc' = [gpc EXCEPT ![s] = "decode_request"]
          /\ UNCHANGED <<dpc, inference, modelBusy>>
      BY <2>17 DEF SampleToken
    <3>2. OneExecutor'
      BY <3>1
    <3>3. InferenceIsOwned'
      BY <3>1
    <3>4. QED
      BY <3>2, <3>3
  <2>18. CASE EndLoop(s)
    BY <2>18 DEF EndLoop
  <2>19. CASE GenerationLeave(s)
    BY <2>19 DEF GenerationLeave
  <2>20. CASE EvalRefused(s)
    BY <2>20 DEF EvalRefused
  <2>21. CASE EvalRequest(s)
    BY <2>21 DEF EvalRequest
  <2>22. CASE EvalSleep(s)
    BY <2>22 DEF EvalSleep
  <2>23. CASE EvalWithdraw(s)
    BY <2>23 DEF EvalWithdraw
  <2>24. CASE EvalReturn(s)
    BY <2>24 DEF EvalReturn
  <2>25. CASE JobArrives(s)
    BY <2>25 DEF JobArrives, BeginJob
  <2>26. CASE CancelJob(s)
    BY <2>26 DEF CancelJob
  <2>27. CASE WithdrawDecode(s)
    BY <2>27 DEF WithdrawDecode
  <2>28. QED
    BY <1>1, <2>1, <2>2, <2>3, <2>4, <2>5, <2>6, <2>7, <2>8, <2>9, <2>10,
       <2>11, <2>12, <2>13, <2>14, <2>15, <2>16, <2>17, <2>18,
       <2>19, <2>20, <2>21, <2>22, <2>23, <2>24, <2>25, <2>26,
       <2>27 DEF SlotStep
<1>2. CASE DecoderStep
  <2>1. CASE DecoderSleep
    BY <2>1 DEF DecoderSleep
  <2>2. CASE DecoderCoalesce
    BY <2>2 DEF DecoderCoalesce
  <2>3. CASE DecoderBlocked
    BY <2>3 DEF DecoderBlocked, AtGate
  <2>4. CASE DecoderNoWork
    BY <2>4 DEF DecoderNoWork, AtGate
  <2>5. CASE DecoderCollect
    BY <2>5 DEF DecoderCollect, AtGate
  <2>6. CASE BatchLock
    BY <2>6 DEF BatchLock
  <2>7. CASE BatchEval
    BY <2>7 DEF BatchEval
  <2>8. CASE BatchPublish
    BY <2>8 DEF BatchPublish
  <2>9. CASE DecoderExit
    BY <2>9 DEF DecoderExit, AtGate
  <2>10. QED
    BY <1>2, <2>1, <2>2, <2>3, <2>4, <2>5, <2>6, <2>7, <2>8, <2>9 DEF DecoderStep
<1>3. ASSUME NEW c \in Encoders, EncodeLock(c) \/ EncodeUnlock(c)
      PROVE  OneExecutor' /\ InferenceIsOwned'
  BY <1>3 DEF EncodeLock, EncodeUnlock
<1>4. CASE StopSignal
  BY <1>4 DEF StopSignal
<1>5. CASE StopDecoder
  BY <1>5 DEF StopDecoder, RequestDecodeStop
<1>6. CASE UNCHANGED gateVars
  BY <1>6 DEF gateVars
<1>7. QED
  BY <1>1, <1>2, <1>3, <1>4, <1>5, <1>6 DEF Next, Exited

\* The decode worker leaves after the last job.
LEMMA StopStep ==
  ASSUME TypeOK, StoppedIsIdle, DecoderLeavesNobody, [Next]_gateVars
  PROVE  StoppedIsIdle' /\ DecoderLeavesNobody'
<1> USE GateAssumption
       DEF TypeOK, StoppedIsIdle, DecoderLeavesNobody, slotState,
           decodeState, decoder, prefill, Goto, Spend, Broadcast, Sleep
<1>1. ASSUME NEW s \in Slot,
             SlotStep(s) \/ JobArrives(s) \/ CancelJob(s) \/ WithdrawDecode(s)
      PROVE  StoppedIsIdle' /\ DecoderLeavesNobody'
  <2>1. CASE CheckJob(s)
    BY <2>1 DEF CheckJob
  <2>2. CASE LeaveJob(s)
    BY <2>2 DEF LeaveJob
  <2>3. CASE ReadPosition(s)
    BY <2>3 DEF ReadPosition
  <2>4. CASE SyncInterrupted(s)
    BY <2>4 DEF SyncInterrupted
  <2>5. CASE PrefillRequest(s)
    BY <2>5 DEF PrefillRequest
  <2>6. CASE PrefillSleep(s)
    BY <2>6 DEF PrefillSleep
  <2>7. CASE PrefillAbort(s)
    BY <2>7 DEF PrefillAbort
  <2>8. CASE PrefillGrant(s)
    BY <2>8 DEF PrefillGrant
  <2>9. CASE PrefillLock(s)
    BY <2>9 DEF PrefillLock
  <2>10. CASE PrefillRun(s)
    BY <2>10 DEF PrefillRun
  <2>11. CASE PrefillLeave(s)
    BY <2>11 DEF PrefillLeave
  <2>12. CASE SyncAgain(s)
    BY <2>12 DEF SyncAgain
  <2>13. CASE StoreLock(s)
    BY <2>13 DEF StoreLock, Using
  <2>14. CASE StoreUnlock(s)
    BY <2>14 DEF StoreUnlock, Using
  <2>15. CASE FinishJob(s)
    BY <2>15 DEF FinishJob
  <2>16. CASE GenerationEnter(s)
    BY <2>16 DEF GenerationEnter
  <2>17. CASE SampleToken(s)
    BY <2>17 DEF SampleToken
  <2>18. CASE EndLoop(s)
    BY <2>18 DEF EndLoop
  <2>19. CASE GenerationLeave(s)
    BY <2>19 DEF GenerationLeave
  <2>20. CASE EvalRefused(s)
    BY <2>20 DEF EvalRefused
  <2>21. CASE EvalRequest(s)
    BY <2>21 DEF EvalRequest
  <2>22. CASE EvalSleep(s)
    BY <2>22 DEF EvalSleep
  <2>23. CASE EvalWithdraw(s)
    BY <2>23 DEF EvalWithdraw
  <2>24. CASE EvalReturn(s)
    BY <2>24 DEF EvalReturn
  <2>25. CASE JobArrives(s)
    BY <2>25 DEF JobArrives, BeginJob
  <2>26. CASE CancelJob(s)
    BY <2>26 DEF CancelJob
  <2>27. CASE WithdrawDecode(s)
    BY <2>27 DEF WithdrawDecode
  <2>28. QED
    BY <1>1, <2>1, <2>2, <2>3, <2>4, <2>5, <2>6, <2>7, <2>8, <2>9, <2>10,
       <2>11, <2>12, <2>13, <2>14, <2>15, <2>16, <2>17, <2>18,
       <2>19, <2>20, <2>21, <2>22, <2>23, <2>24, <2>25, <2>26,
       <2>27 DEF SlotStep
<1>2. CASE DecoderStep
  <2>1. CASE DecoderSleep
    BY <2>1 DEF DecoderSleep
  <2>2. CASE DecoderCoalesce
    BY <2>2 DEF DecoderCoalesce
  <2>3. CASE DecoderBlocked
    BY <2>3 DEF DecoderBlocked, AtGate
  <2>4. CASE DecoderNoWork
    BY <2>4 DEF DecoderNoWork, AtGate
  <2>5. CASE DecoderCollect
    BY <2>5 DEF DecoderCollect, AtGate
  <2>6. CASE BatchLock
    BY <2>6 DEF BatchLock
  <2>7. CASE BatchEval
    BY <2>7 DEF BatchEval
  <2>8. CASE BatchPublish
    BY <2>8 DEF BatchPublish
  <2>9. CASE DecoderExit
    BY <2>9 DEF DecoderExit, AtGate
  <2>10. QED
    BY <1>2, <2>1, <2>2, <2>3, <2>4, <2>5, <2>6, <2>7, <2>8, <2>9 DEF DecoderStep
<1>3. ASSUME NEW c \in Encoders, EncodeLock(c) \/ EncodeUnlock(c)
      PROVE  StoppedIsIdle' /\ DecoderLeavesNobody'
  BY <1>3 DEF EncodeLock, EncodeUnlock
<1>4. CASE StopSignal
  BY <1>4 DEF StopSignal
<1>5. CASE StopDecoder
  BY <1>5 DEF StopDecoder, RequestDecodeStop
<1>6. CASE UNCHANGED gateVars
  BY <1>6 DEF gateVars
<1>7. QED
  BY <1>1, <1>2, <1>3, <1>4, <1>5, <1>6 DEF Next, Exited

(***************************************************************************)
(* Tokens, batches and cancelled jobs.                                     *)
(***************************************************************************)

\* What BatchOwnsItsSessions says of the batch itself.
BatchWaits ==
  \A s \in Slot :
    /\ inFlight[s] <=> s \in batch
    /\ inFlight[s] => BatchRuns /\ gpc[s] = "decode_wait"

\* A worker that waits for its token is outside every session.
LEMMA BatchOwnsNext ==
  ASSUME InferenceIsOwned', BatchWaits'
  PROVE  BatchOwnsItsSessions'
  BY SessionUsers DEF InferenceIsOwned, BatchWaits, BatchOwnsItsSessions

\* A token moves from pending to in flight to answered.
LEMMA TokenStep ==
  ASSUME TypeOK, TokenInOnePlace, BatchWaits, [Next]_gateVars
  PROVE  TokenInOnePlace' /\ BatchWaits'
<1> USE GateAssumption, SessionUsers
       DEF TypeOK, TokenInOnePlace, BatchWaits, BatchRuns, Rc, NoAnswer,
           slotState, decodeState, decoder, prefill, Goto, Spend,
           Broadcast, Sleep
<1>1. ASSUME NEW s \in Slot,
             SlotStep(s) \/ JobArrives(s) \/ CancelJob(s) \/ WithdrawDecode(s)
      PROVE  TokenInOnePlace' /\ BatchWaits'
  <2>1. CASE CheckJob(s)
    BY <2>1 DEF CheckJob
  <2>2. CASE LeaveJob(s)
    BY <2>2 DEF LeaveJob
  <2>3. CASE ReadPosition(s)
    BY <2>3 DEF ReadPosition
  <2>4. CASE SyncInterrupted(s)
    BY <2>4 DEF SyncInterrupted
  <2>5. CASE PrefillRequest(s)
    BY <2>5 DEF PrefillRequest
  <2>6. CASE PrefillSleep(s)
    BY <2>6 DEF PrefillSleep
  <2>7. CASE PrefillAbort(s)
    BY <2>7 DEF PrefillAbort
  <2>8. CASE PrefillGrant(s)
    BY <2>8 DEF PrefillGrant
  <2>9. CASE PrefillLock(s)
    BY <2>9 DEF PrefillLock
  <2>10. CASE PrefillRun(s)
    BY <2>10 DEF PrefillRun
  <2>11. CASE PrefillLeave(s)
    BY <2>11 DEF PrefillLeave
  <2>12. CASE SyncAgain(s)
    BY <2>12 DEF SyncAgain
  <2>13. CASE StoreLock(s)
    BY <2>13 DEF StoreLock, Using
  <2>14. CASE StoreUnlock(s)
    BY <2>14 DEF StoreUnlock, Using
  <2>15. CASE FinishJob(s)
    BY <2>15 DEF FinishJob
  <2>16. CASE GenerationEnter(s)
    BY <2>16 DEF GenerationEnter
  <2>17. CASE SampleToken(s)
    BY <2>17 DEF SampleToken
  <2>18. CASE EndLoop(s)
    BY <2>18 DEF EndLoop
  <2>19. CASE GenerationLeave(s)
    BY <2>19 DEF GenerationLeave
  <2>20. CASE EvalRefused(s)
    BY <2>20 DEF EvalRefused
  <2>21. CASE EvalRequest(s)
    BY <2>21 DEF EvalRequest
  <2>22. CASE EvalSleep(s)
    BY <2>22 DEF EvalSleep
  <2>23. CASE EvalWithdraw(s)
    BY <2>23 DEF EvalWithdraw, CanWithdraw
  <2>24. CASE EvalReturn(s)
    BY <2>24 DEF EvalReturn
  <2>25. CASE JobArrives(s)
    BY <2>25 DEF JobArrives, BeginJob
  <2>26. CASE CancelJob(s)
    BY <2>26 DEF CancelJob
  <2>27. CASE WithdrawDecode(s)
    BY <2>27 DEF WithdrawDecode, CanWithdraw
  <2>28. QED
    BY <1>1, <2>1, <2>2, <2>3, <2>4, <2>5, <2>6, <2>7, <2>8, <2>9, <2>10,
       <2>11, <2>12, <2>13, <2>14, <2>15, <2>16, <2>17, <2>18,
       <2>19, <2>20, <2>21, <2>22, <2>23, <2>24, <2>25, <2>26,
       <2>27 DEF SlotStep
<1>2. CASE DecoderStep
  <2>1. CASE DecoderSleep
    BY <2>1 DEF DecoderSleep
  <2>2. CASE DecoderCoalesce
    BY <2>2 DEF DecoderCoalesce
  <2>3. CASE DecoderBlocked
    BY <2>3 DEF DecoderBlocked, AtGate
  <2>4. CASE DecoderNoWork
    BY <2>4 DEF DecoderNoWork, AtGate
  <2>5. CASE DecoderCollect
    BY <2>5 DEF DecoderCollect, AtGate
  <2>6. CASE BatchLock
    BY <2>6 DEF BatchLock
  <2>7. CASE BatchEval
    BY <2>7 DEF BatchEval
  <2>8. CASE BatchPublish
    BY <2>8 DEF BatchPublish
  <2>9. CASE DecoderExit
    BY <2>9 DEF DecoderExit, AtGate
  <2>10. QED
    BY <1>2, <2>1, <2>2, <2>3, <2>4, <2>5, <2>6, <2>7, <2>8, <2>9 DEF DecoderStep
<1>3. ASSUME NEW c \in Encoders, EncodeLock(c) \/ EncodeUnlock(c)
      PROVE  TokenInOnePlace' /\ BatchWaits'
  BY <1>3 DEF EncodeLock, EncodeUnlock
<1>4. CASE StopSignal
  BY <1>4 DEF StopSignal
<1>5. CASE StopDecoder
  BY <1>5 DEF StopDecoder, RequestDecodeStop
<1>6. CASE UNCHANGED gateVars
  BY <1>6 DEF gateVars
<1>7. QED
  BY <1>1, <1>2, <1>3, <1>4, <1>5, <1>6 DEF Next, Exited

\* A cancelled job queues nothing once it has been withdrawn.
LEMMA WithdrawStep ==
  ASSUME TypeOK, TokenInOnePlace, WithdrawnIsCancelled,
         CancelledJobQueuesNothing, [Next]_gateVars
  PROVE  WithdrawnIsCancelled' /\ CancelledJobQueuesNothing'
<1> USE GateAssumption
       DEF TypeOK, TokenInOnePlace, WithdrawnIsCancelled,
           CancelledJobQueuesNothing, Rc, NoAnswer, slotState,
           decodeState, decoder, prefill, Goto, Spend, Broadcast, Sleep
<1>1. ASSUME NEW s \in Slot,
             SlotStep(s) \/ JobArrives(s) \/ CancelJob(s) \/ WithdrawDecode(s)
      PROVE  WithdrawnIsCancelled' /\ CancelledJobQueuesNothing'
  <2>1. CASE CheckJob(s)
    BY <2>1 DEF CheckJob
  <2>2. CASE LeaveJob(s)
    BY <2>2 DEF LeaveJob
  <2>3. CASE ReadPosition(s)
    BY <2>3 DEF ReadPosition
  <2>4. CASE SyncInterrupted(s)
    BY <2>4 DEF SyncInterrupted
  <2>5. CASE PrefillRequest(s)
    BY <2>5 DEF PrefillRequest
  <2>6. CASE PrefillSleep(s)
    BY <2>6 DEF PrefillSleep
  <2>7. CASE PrefillAbort(s)
    BY <2>7 DEF PrefillAbort
  <2>8. CASE PrefillGrant(s)
    BY <2>8 DEF PrefillGrant
  <2>9. CASE PrefillLock(s)
    BY <2>9 DEF PrefillLock
  <2>10. CASE PrefillRun(s)
    BY <2>10 DEF PrefillRun
  <2>11. CASE PrefillLeave(s)
    BY <2>11 DEF PrefillLeave
  <2>12. CASE SyncAgain(s)
    BY <2>12 DEF SyncAgain
  <2>13. CASE StoreLock(s)
    BY <2>13 DEF StoreLock, Using
  <2>14. CASE StoreUnlock(s)
    BY <2>14 DEF StoreUnlock, Using
  <2>15. CASE FinishJob(s)
    BY <2>15 DEF FinishJob
  <2>16. CASE GenerationEnter(s)
    BY <2>16 DEF GenerationEnter
  <2>17. CASE SampleToken(s)
    BY <2>17 DEF SampleToken
  <2>18. CASE EndLoop(s)
    BY <2>18 DEF EndLoop
  <2>19. CASE GenerationLeave(s)
    BY <2>19 DEF GenerationLeave
  <2>20. CASE EvalRefused(s)
    BY <2>20 DEF EvalRefused
  <2>21. CASE EvalRequest(s)
    BY <2>21 DEF EvalRequest, Interrupted
  <2>22. CASE EvalSleep(s)
    BY <2>22 DEF EvalSleep
  <2>23. CASE EvalWithdraw(s)
    BY <2>23 DEF EvalWithdraw
  <2>24. CASE EvalReturn(s)
    BY <2>24 DEF EvalReturn
  <2>25. CASE JobArrives(s)
    BY <2>25 DEF JobArrives, BeginJob
  <2>26. CASE CancelJob(s)
    BY <2>26 DEF CancelJob
  <2>27. CASE WithdrawDecode(s)
    BY <2>27 DEF WithdrawDecode, CanWithdraw
  <2>28. QED
    BY <1>1, <2>1, <2>2, <2>3, <2>4, <2>5, <2>6, <2>7, <2>8, <2>9, <2>10,
       <2>11, <2>12, <2>13, <2>14, <2>15, <2>16, <2>17, <2>18,
       <2>19, <2>20, <2>21, <2>22, <2>23, <2>24, <2>25, <2>26,
       <2>27 DEF SlotStep
<1>2. CASE DecoderStep
  <2>1. CASE DecoderSleep
    BY <2>1 DEF DecoderSleep
  <2>2. CASE DecoderCoalesce
    BY <2>2 DEF DecoderCoalesce
  <2>3. CASE DecoderBlocked
    BY <2>3 DEF DecoderBlocked, AtGate
  <2>4. CASE DecoderNoWork
    BY <2>4 DEF DecoderNoWork, AtGate
  <2>5. CASE DecoderCollect
    BY <2>5 DEF DecoderCollect, AtGate
  <2>6. CASE BatchLock
    BY <2>6 DEF BatchLock
  <2>7. CASE BatchEval
    BY <2>7 DEF BatchEval
  <2>8. CASE BatchPublish
    BY <2>8 DEF BatchPublish
  <2>9. CASE DecoderExit
    BY <2>9 DEF DecoderExit, AtGate
  <2>10. QED
    BY <1>2, <2>1, <2>2, <2>3, <2>4, <2>5, <2>6, <2>7, <2>8, <2>9 DEF DecoderStep
<1>3. ASSUME NEW c \in Encoders, EncodeLock(c) \/ EncodeUnlock(c)
      PROVE  WithdrawnIsCancelled' /\ CancelledJobQueuesNothing'
  BY <1>3 DEF EncodeLock, EncodeUnlock
<1>4. CASE StopSignal
  BY <1>4 DEF StopSignal
<1>5. CASE StopDecoder
  BY <1>5 DEF StopDecoder, RequestDecodeStop
<1>6. CASE UNCHANGED gateVars
  BY <1>6 DEF gateVars
<1>7. QED
  BY <1>1, <1>2, <1>3, <1>4, <1>5, <1>6 DEF Next, Exited

\* The slots the counters count.
PendingSlots == {s \in Slot : slotPending[s]}
GeneratingSlots == {s \in Slot : gpc[s] \in Generating}

\* A step that leaves the flags of the slots alone leaves the counts alone.
LEMMA SameCount ==
  /\ (\A s \in Slot : slotPending'[s] <=> slotPending[s]) => PendingSlots' = PendingSlots
  /\ (\A s \in Slot : gpc'[s] \in Generating <=> gpc[s] \in Generating)
       => GeneratingSlots' = GeneratingSlots
  BY DEF PendingSlots, GeneratingSlots

\* Both counters follow the slots.
LEMMA CountStep ==
  ASSUME TypeOK, TokenInOnePlace, PendingIsCounted,
         GenerationsAreCounted, [Next]_gateVars
  PROVE  PendingIsCounted' /\ GenerationsAreCounted'
<1> USE GateAssumption
       DEF TypeOK, PendingIsCounted, GenerationsAreCounted,
           TokenInOnePlace, Generating, slotState, decodeState, decoder,
           prefill, Goto, Spend, Broadcast, Sleep
<1>1. ASSUME NEW s \in Slot,
             SlotStep(s) \/ JobArrives(s) \/ CancelJob(s) \/ WithdrawDecode(s)
      PROVE  PendingIsCounted' /\ GenerationsAreCounted'
  <2>1. CASE CheckJob(s)
    BY <2>1 DEF CheckJob
  <2>2. CASE LeaveJob(s)
    BY <2>2 DEF LeaveJob
  <2>3. CASE ReadPosition(s)
    BY <2>3 DEF ReadPosition
  <2>4. CASE SyncInterrupted(s)
    BY <2>4 DEF SyncInterrupted
  <2>5. CASE PrefillRequest(s)
    BY <2>5 DEF PrefillRequest
  <2>6. CASE PrefillSleep(s)
    BY <2>6 DEF PrefillSleep
  <2>7. CASE PrefillAbort(s)
    BY <2>7 DEF PrefillAbort
  <2>8. CASE PrefillGrant(s)
    BY <2>8 DEF PrefillGrant
  <2>9. CASE PrefillLock(s)
    BY <2>9 DEF PrefillLock
  <2>10. CASE PrefillRun(s)
    BY <2>10 DEF PrefillRun
  <2>11. CASE PrefillLeave(s)
    BY <2>11 DEF PrefillLeave
  <2>12. CASE SyncAgain(s)
    BY <2>12 DEF SyncAgain
  <2>13. CASE StoreLock(s)
    BY <2>13 DEF StoreLock, Using
  <2>14. CASE StoreUnlock(s)
    <3>1. \A t \in Slot : gpc'[t] \in Generating <=> gpc[t] \in Generating
      <4>1. CASE gpc[s] = "storing_token"
        <5>1. gpc'[s] \in {"generate", "decode_request", "gen_end"}
          BY <2>14, <4>1 DEF StoreUnlock, Using
        <5>2. QED
          BY <2>14, <4>1, <5>1 DEF StoreUnlock
      <4>2. CASE gpc[s] # "storing_token"
        <5>1. /\ gpc[s] \in {"storing_prompt", "storing", "storing_answer"}
              /\ gpc'[s] \in {"prompt", "synced", "gen_left"}
          BY <2>14, <4>2 DEF StoreUnlock, Using
        <5>2. QED
          BY <2>14, <5>1 DEF StoreUnlock
      <4>3. QED
        BY <4>1, <4>2
    <3>2. QED
      BY <2>14, <3>1, SameCount DEF StoreUnlock, PendingSlots, GeneratingSlots
  <2>15. CASE FinishJob(s)
    BY <2>15 DEF FinishJob
  <2>16. CASE GenerationEnter(s)
    <3>1. /\ s \notin GeneratingSlots /\ GeneratingSlots' = GeneratingSlots \cup {s}
      BY <2>16 DEF GenerationEnter, GeneratingSlots
    <3>2. Cardinality(GeneratingSlots') = Cardinality(GeneratingSlots) + 1
      BY <3>1, CountAdd DEF GeneratingSlots
    <3>3. QED
      BY <2>16, <3>1, <3>2 DEF GenerationEnter, GeneratingSlots
  <2>17. CASE SampleToken(s)
    BY <2>17 DEF SampleToken
  <2>18. CASE EndLoop(s)
    BY <2>18 DEF EndLoop
  <2>19. CASE GenerationLeave(s)
    <3>1. /\ s \in GeneratingSlots /\ GeneratingSlots' = GeneratingSlots \ {s}
      BY <2>19 DEF GenerationLeave, GeneratingSlots
    <3>2. Cardinality(GeneratingSlots') = Cardinality(GeneratingSlots) - 1 /\ Cardinality(GeneratingSlots) > 0
      BY <3>1, CountRemove DEF GeneratingSlots
    <3>3. QED
      BY <2>19, <3>1, <3>2 DEF GenerationLeave, GeneratingSlots
  <2>20. CASE EvalRefused(s)
    BY <2>20 DEF EvalRefused
  <2>21. CASE EvalRequest(s)
    <3>1. /\ s \notin PendingSlots /\ PendingSlots' = PendingSlots \cup {s}
      BY <2>21 DEF EvalRequest, PendingSlots
    <3>2. Cardinality(PendingSlots') = Cardinality(PendingSlots) + 1
      BY <3>1, CountAdd DEF PendingSlots
    <3>3. \A t \in Slot : gpc'[t] \in Generating <=> gpc[t] \in Generating
      BY <2>21 DEF EvalRequest
    <3>4. QED
      BY <2>21, <3>1, <3>2, <3>3, SameCount DEF EvalRequest, PendingSlots, GeneratingSlots
  <2>22. CASE EvalSleep(s)
    BY <2>22 DEF EvalSleep
  <2>23. CASE EvalWithdraw(s)
    <3>1. /\ s \in PendingSlots /\ PendingSlots' = PendingSlots \ {s}
      BY <2>23 DEF EvalWithdraw, CanWithdraw, PendingSlots
    <3>2. Cardinality(PendingSlots') = Cardinality(PendingSlots) - 1 /\ Cardinality(PendingSlots) > 0
      BY <3>1, CountRemove DEF PendingSlots
    <3>3. \A t \in Slot : gpc'[t] \in Generating <=> gpc[t] \in Generating
      BY <2>23 DEF EvalWithdraw
    <3>4. QED
      BY <2>23, <3>1, <3>2, <3>3, SameCount DEF EvalWithdraw, PendingSlots, GeneratingSlots
  <2>24. CASE EvalReturn(s)
    BY <2>24 DEF EvalReturn
  <2>25. CASE JobArrives(s)
    BY <2>25 DEF JobArrives, BeginJob
  <2>26. CASE CancelJob(s)
    BY <2>26 DEF CancelJob
  <2>27. CASE WithdrawDecode(s)
    <3>1. CASE CanWithdraw(s)
      <4>1. s \in PendingSlots /\ PendingSlots' = PendingSlots \ {s}
        BY <2>27, <3>1 DEF WithdrawDecode, CanWithdraw, PendingSlots
      <4>2. Cardinality(PendingSlots') = Cardinality(PendingSlots) - 1
        BY <4>1, CountRemove DEF PendingSlots
      <4>3. QED
        BY <2>27, <3>1, <4>2 DEF WithdrawDecode, PendingSlots
    <3>2. CASE ~CanWithdraw(s)
      BY <2>27, <3>2 DEF WithdrawDecode
    <3>3. QED
      BY <3>1, <3>2
  <2>28. QED
    BY <1>1, <2>1, <2>2, <2>3, <2>4, <2>5, <2>6, <2>7, <2>8, <2>9, <2>10,
       <2>11, <2>12, <2>13, <2>14, <2>15, <2>16, <2>17, <2>18,
       <2>19, <2>20, <2>21, <2>22, <2>23, <2>24, <2>25, <2>26,
       <2>27 DEF SlotStep
<1>2. CASE DecoderStep
  <2>1. CASE DecoderSleep
    BY <2>1 DEF DecoderSleep
  <2>2. CASE DecoderCoalesce
    BY <2>2 DEF DecoderCoalesce
  <2>3. CASE DecoderBlocked
    BY <2>3 DEF DecoderBlocked, AtGate
  <2>4. CASE DecoderNoWork
    BY <2>4 DEF DecoderNoWork, AtGate
  <2>5. CASE DecoderCollect
    <3>1. PendingSlots' = {} /\ batch' = PendingSlots
      BY <2>5 DEF DecoderCollect, PendingSlots
    <3>2. Cardinality(PendingSlots) \in Nat /\ Cardinality(PendingSlots') = 0
      BY <3>1, SlotsAreFinite, CountZero DEF PendingSlots
    <3>3. decodePending' = decodePending - Cardinality(PendingSlots)
      BY <2>5, <3>1 DEF DecoderCollect
    <3>4. PendingIsCounted'
      BY <3>2, <3>3 DEF PendingSlots
    <3>5. QED
      BY <2>5, <3>4 DEF DecoderCollect
  <2>6. CASE BatchLock
    BY <2>6 DEF BatchLock
  <2>7. CASE BatchEval
    BY <2>7 DEF BatchEval
  <2>8. CASE BatchPublish
    BY <2>8 DEF BatchPublish
  <2>9. CASE DecoderExit
    BY <2>9 DEF DecoderExit, AtGate
  <2>10. QED
    BY <1>2, <2>1, <2>2, <2>3, <2>4, <2>5, <2>6, <2>7, <2>8, <2>9 DEF DecoderStep
<1>3. ASSUME NEW c \in Encoders, EncodeLock(c) \/ EncodeUnlock(c)
      PROVE  PendingIsCounted' /\ GenerationsAreCounted'
  <2>1. UNCHANGED <<slotState, decodeState, activeGenerations>>
    BY <1>3 DEF EncodeLock, EncodeUnlock
  <2>2. QED
    BY <2>1
<1>4. CASE StopSignal
  BY <1>4 DEF StopSignal
<1>5. CASE StopDecoder
  BY <1>5 DEF StopDecoder, RequestDecodeStop
<1>6. CASE UNCHANGED gateVars
  BY <1>6 DEF gateVars
<1>7. QED
  BY <1>1, <1>2, <1>3, <1>4, <1>5, <1>6 DEF Next, Exited

(***************************************************************************)
(* Wake-ups.                                                               *)
(***************************************************************************)

\* A step that grants no turn and frees no executor leaves the waiting slots
\* waiting, unless it interrupts them.
LEMMA StillWaits ==
  ASSUME NEW s \in Slot, MustWaitForPrefill(s),
         \/ modelBusy'
         \/ UNCHANGED <<prefillWaiting, lastPrefillSlot, modelBusy, decodePending>>
  PROVE  stopRequested' \/ cancelled'[s] \/ MustWaitForPrefill(s)'
<1>1. CASE modelBusy'
  BY <1>1 DEF MustWaitForPrefill, Interrupted
<1>2. CASE UNCHANGED <<prefillWaiting, lastPrefillSlot, modelBusy, decodePending>>
  <2>1. NextPrefillSlot' = NextPrefillSlot
    BY <1>2 DEF NextPrefillSlot
  <2>2. QED
    BY <1>2, <2>1 DEF MustWaitForPrefill, Interrupted
<1>3. QED
  BY <1>1, <1>2

\* Whoever is asleep still has a reason.
LEMMA SleepStep ==
  ASSUME TypeOK, OnlyWaitersSleep, BlockedForAReason, [Next]_gateVars
  PROVE  OnlyWaitersSleep' /\ BlockedForAReason'
<1> USE GateAssumption, StillWaits
       DEF TypeOK, OnlyWaitersSleep, BlockedForAReason, NoAnswer, Awake,
           Slot, slotState, decodeState, decoder, prefill, Goto, Spend,
           Broadcast, Sleep
<1>1. ASSUME NEW s \in Slot,
             SlotStep(s) \/ JobArrives(s) \/ CancelJob(s) \/ WithdrawDecode(s)
      PROVE  OnlyWaitersSleep' /\ BlockedForAReason'
  <2>1. CASE CheckJob(s)
    BY <2>1 DEF CheckJob
  <2>2. CASE LeaveJob(s)
    BY <2>2 DEF LeaveJob
  <2>3. CASE ReadPosition(s)
    BY <2>3 DEF ReadPosition
  <2>4. CASE SyncInterrupted(s)
    BY <2>4 DEF SyncInterrupted
  <2>5. CASE PrefillRequest(s)
    BY <2>5 DEF PrefillRequest
  <2>6. CASE PrefillSleep(s)
    BY <2>6 DEF PrefillSleep
  <2>7. CASE PrefillAbort(s)
    BY <2>7 DEF PrefillAbort
  <2>8. CASE PrefillGrant(s)
    BY <2>8 DEF PrefillGrant
  <2>9. CASE PrefillLock(s)
    BY <2>9 DEF PrefillLock
  <2>10. CASE PrefillRun(s)
    BY <2>10 DEF PrefillRun
  <2>11. CASE PrefillLeave(s)
    BY <2>11 DEF PrefillLeave
  <2>12. CASE SyncAgain(s)
    BY <2>12 DEF SyncAgain
  <2>13. CASE StoreLock(s)
    BY <2>13 DEF StoreLock, Using
  <2>14. CASE StoreUnlock(s)
    <3>1. /\ gpc[s] \notin {"prefill_wait", "decode_wait"}
          /\ \A t \in Slot \ {s} : gpc'[t] = gpc[t]
          /\ UNCHANGED <<cancelled, stopRequested, decodeState, dpc, prefill, modelBusy,
                         modelStopping, asleep>>
      BY <2>14 DEF StoreUnlock, Using
    <3>2. s \notin asleep
      BY <3>1
    <3>3. QED
      BY <3>1, <3>2
  <2>15. CASE FinishJob(s)
    BY <2>15 DEF FinishJob
  <2>16. CASE GenerationEnter(s)
    BY <2>16 DEF GenerationEnter
  <2>17. CASE SampleToken(s)
    BY <2>17 DEF SampleToken
  <2>18. CASE EndLoop(s)
    BY <2>18 DEF EndLoop
  <2>19. CASE GenerationLeave(s)
    BY <2>19 DEF GenerationLeave
  <2>20. CASE EvalRefused(s)
    BY <2>20 DEF EvalRefused
  <2>21. CASE EvalRequest(s)
    BY <2>21 DEF EvalRequest
  <2>22. CASE EvalSleep(s)
    BY <2>22 DEF EvalSleep
  <2>23. CASE EvalWithdraw(s)
    BY <2>23 DEF EvalWithdraw
  <2>24. CASE EvalReturn(s)
    BY <2>24 DEF EvalReturn
  <2>25. CASE JobArrives(s)
    BY <2>25 DEF JobArrives, BeginJob
  <2>26. CASE CancelJob(s)
    BY <2>26 DEF CancelJob
  <2>27. CASE WithdrawDecode(s)
    BY <2>27 DEF WithdrawDecode
  <2>28. QED
    BY <1>1, <2>1, <2>2, <2>3, <2>4, <2>5, <2>6, <2>7, <2>8, <2>9, <2>10,
       <2>11, <2>12, <2>13, <2>14, <2>15, <2>16, <2>17, <2>18,
       <2>19, <2>20, <2>21, <2>22, <2>23, <2>24, <2>25, <2>26,
       <2>27 DEF SlotStep
<1>2. CASE DecoderStep
  <2>1. CASE DecoderSleep
    BY <2>1 DEF DecoderSleep
  <2>2. CASE DecoderCoalesce
    BY <2>2 DEF DecoderCoalesce
  <2>3. CASE DecoderBlocked
    BY <2>3 DEF DecoderBlocked, AtGate
  <2>4. CASE DecoderNoWork
    BY <2>4 DEF DecoderNoWork, AtGate
  <2>5. CASE DecoderCollect
    BY <2>5 DEF DecoderCollect, AtGate
  <2>6. CASE BatchLock
    BY <2>6 DEF BatchLock
  <2>7. CASE BatchEval
    BY <2>7 DEF BatchEval
  <2>8. CASE BatchPublish
    BY <2>8 DEF BatchPublish
  <2>9. CASE DecoderExit
    BY <2>9 DEF DecoderExit, AtGate
  <2>10. QED
    BY <1>2, <2>1, <2>2, <2>3, <2>4, <2>5, <2>6, <2>7, <2>8, <2>9 DEF DecoderStep
<1>3. ASSUME NEW c \in Encoders, EncodeLock(c) \/ EncodeUnlock(c)
      PROVE  OnlyWaitersSleep' /\ BlockedForAReason'
  BY <1>3 DEF EncodeLock, EncodeUnlock
<1>4. CASE StopSignal
  BY <1>4 DEF StopSignal
<1>5. CASE StopDecoder
  BY <1>5 DEF StopDecoder, RequestDecodeStop
<1>6. CASE UNCHANGED gateVars
  BY <1>6 DEF gateVars
<1>7. QED
  BY <1>1, <1>2, <1>3, <1>4, <1>5, <1>6 DEF Next, Exited

(***************************************************************************)
(* The invariant, and what follows from it.                                *)
(***************************************************************************)

\* Everything holds before the first job.
LEMMA InitInv == Init => GateInv
<1> SUFFICES ASSUME Init PROVE GateInv
  OBVIOUS
<1> USE GateAssumption DEF Init
<1>1. TypeOK
  <2>1. lastPrefillSlot \in Slot
    BY DEF Slot
  <2>2. passedBy \in [Slot -> SUBSET Slot] /\ work \in [Slot -> 0..MaxWork]
    OBVIOUS
  <2>3. /\ gpc \in [Slot -> GatePC]
        /\ decodeAnswer \in [Slot -> Rc \cup {NoAnswer}]
        /\ batch \in SUBSET Slot /\ asleep \in SUBSET (Slot \cup {Decoder})
    BY DEF GatePC
  <2>4. QED
    BY <2>1, <2>2, <2>3 DEF TypeOK, Rc
<1>2. OneExecutor
  BY DEF OneExecutor, PrefillOwner, BatchRuns
<1>3. InferenceIsOwned
  BY SessionUsers DEF InferenceIsOwned, Slot
<1>4. PendingIsCounted /\ GenerationsAreCounted
  <2>1. PendingSlots = {} /\ GeneratingSlots = {}
    BY DEF PendingSlots, GeneratingSlots, Generating
  <2>2. Cardinality(PendingSlots) = 0 /\ Cardinality(GeneratingSlots) = 0
    BY <2>1, FS_EmptySet
  <2>3. QED
    BY <2>2 DEF PendingIsCounted, GenerationsAreCounted, PendingSlots, GeneratingSlots
<1>5. TokenInOnePlace /\ BatchOwnsItsSessions
  BY DEF TokenInOnePlace, BatchOwnsItsSessions, NoAnswer
<1>6. PromptHasWork /\ WaitingIsShown /\ WithdrawnIsCancelled
      /\ CancelledJobQueuesNothing
  BY DEF PromptHasWork, WaitingIsShown, WithdrawnIsCancelled, CancelledJobQueuesNothing
<1>7. StoppedIsIdle /\ DecoderLeavesNobody /\ OnlyWaitersSleep /\ BlockedForAReason
  BY DEF StoppedIsIdle, DecoderLeavesNobody, OnlyWaitersSleep, BlockedForAReason
<1>8. QED
  BY <1>1, <1>2, <1>3, <1>4, <1>5, <1>6, <1>7 DEF GateInv

\* Every step of every thread preserves the invariant.
LEMMA NextInv == GateInv /\ [Next]_gateVars => GateInv'
<1> SUFFICES ASSUME GateInv, [Next]_gateVars PROVE GateInv'
  OBVIOUS
<1>1. BatchWaits
  BY DEF GateInv, BatchOwnsItsSessions, BatchWaits
<1>2. TypeOK' /\ PromptHasWork' /\ WaitingIsShown'
  BY TypeStep, PromptStep DEF GateInv
<1>3. OneExecutor' /\ InferenceIsOwned'
  BY ExecutorStep DEF GateInv
<1>4. StoppedIsIdle' /\ DecoderLeavesNobody'
  BY StopStep DEF GateInv
<1>5. TokenInOnePlace' /\ BatchWaits'
  BY <1>1, TokenStep DEF GateInv
<1>6. BatchOwnsItsSessions'
  BY <1>3, <1>5, BatchOwnsNext
<1>7. WithdrawnIsCancelled' /\ CancelledJobQueuesNothing'
  BY WithdrawStep DEF GateInv
<1>8. PendingIsCounted' /\ GenerationsAreCounted'
  BY CountStep DEF GateInv
<1>9. OnlyWaitersSleep' /\ BlockedForAReason'
  BY SleepStep DEF GateInv
<1>10. QED
  BY <1>2, <1>3, <1>4, <1>5, <1>6, <1>7, <1>8, <1>9 DEF GateInv

\* The invariant holds in every reachable state.
THEOREM GateInvariant == Spec => []GateInv
<1>1. Init => GateInv
  BY InitInv
<1>2. GateInv /\ [Next]_gateVars => GateInv'
  BY NextInv
<1>3. QED
  BY <1>1, <1>2, PTL DEF Spec

\* The variables of the executor gate keep their types.
THEOREM GateTypeCorrect == Spec => []TypeOK
<1>1. GateInv => TypeOK
  BY DEF GateInv
<1>2. QED
  BY <1>1, GateInvariant, PTL

\* One prefill quantum or one batch at a time, whatever the number of slots:
\* model_busy stands for exactly one of them.
THEOREM OneExecutorCorrect == Spec => []OneExecutor
<1>1. GateInv => OneExecutor
  BY DEF GateInv
<1>2. QED
  BY <1>1, GateInvariant, PTL

\* s->decode_pending and s->active_generations count what they say.
THEOREM CountersCorrect == Spec => [](PendingIsCounted /\ GenerationsAreCounted)
<1>1. GateInv => PendingIsCounted /\ GenerationsAreCounted
  BY DEF GateInv
<1>2. QED
  BY <1>1, GateInvariant, PTL

\* A token is pending, in flight or answered, never two of them and never none,
\* until its worker resumes.
THEOREM TokenInOnePlaceCorrect == Spec => []TokenInOnePlace
<1>1. GateInv => TokenInOnePlace
  BY DEF GateInv
<1>2. QED
  BY <1>1, GateInvariant, PTL

\* While a batch runs, the workers of its members wait in server_eval_token.
THEOREM BatchOwnsItsSessionsCorrect == Spec => []BatchOwnsItsSessions
<1>1. GateInv => BatchOwnsItsSessions
  BY DEF GateInv
<1>2. QED
  BY <1>1, GateInvariant, PTL

\* No wake-up is lost: a thread asleep on model_cv has a reason to be.
THEOREM BlockedForAReasonCorrect == Spec => []BlockedForAReason
<1>1. GateInv => BlockedForAReason
  BY DEF GateInv
<1>2. QED
  BY <1>1, GateInvariant, PTL

\* The decode worker leaves nobody waiting for a token.
THEOREM DecoderLeavesNobodyCorrect == Spec => []DecoderLeavesNobody
<1>1. GateInv => DecoderLeavesNobody
  BY DEF GateInv
<1>2. QED
  BY <1>1, GateInvariant, PTL

\* Once server_cancel_job has been through model_mu, no token of the job is
\* pending.
THEOREM CancelledJobQueuesNothingCorrect == Spec => []CancelledJobQueuesNothing
<1>1. GateInv => CancelledJobQueuesNothing
  BY DEF GateInv
<1>2. QED
  BY <1>1, GateInvariant, PTL


-----------------------------------------------------------------------------
(***************************************************************************)
(* What a step may never do: pass a waiting slot twice, or give a cancelled*)
(* job anything new to run.                                                *)
(***************************************************************************)

(***************************************************************************)
(* The cyclic order of the turns.                                          *)
(***************************************************************************)

\* How many turns after slot a it is slot b's: between 1 and SlotCount.
Turns(a, b) == IF b > a THEN b - a ELSE b - a + SlotCount

\* A set of numbers has a least one.
LEMMA LeastNumber ==
  ASSUME NEW T \in SUBSET Nat, T # {}
  PROVE  \E n \in T : \A m \in T : n <= m
<1> DEFINE R == {p \in Nat \X Nat : p[1] < p[2]}
<1>1. IsWellFoundedOn(R, Nat)
  BY NatLessThanWellFounded DEF OpToRel
<1>2. PICK n \in T : \A m \in T : <<m, n>> \notin R
  BY <1>1, WFMin
<1>3. \A m \in T : ~(m < n)
  BY <1>2
<1>4. QED
  BY <1>3

\* The slot n turns after a is the one that is n turns away.
LEMMA TurnOf ==
  ASSUME NEW a \in Slot, NEW n \in 1..SlotCount
  PROVE  /\ (a + n) % SlotCount \in Slot
         /\ Turns(a, (a + n) % SlotCount) = n
<1>1. (a + n) % SlotCount = IF a + n < SlotCount THEN a + n ELSE a + n - SlotCount
  BY GateAssumption DEF Slot
<1>2. QED
  BY <1>1, GateAssumption DEF Slot, Turns

\* Conversely, every slot is its number of turns away.
LEMMA SlotOf ==
  ASSUME NEW a \in Slot, NEW b \in Slot
  PROVE  Turns(a, b) \in 1..SlotCount /\ (a + Turns(a, b)) % SlotCount = b
<1>1. Turns(a, b) \in 1..SlotCount
  BY GateAssumption DEF Slot, Turns
<1>2. a + Turns(a, b) = b \/ a + Turns(a, b) = b + SlotCount
  BY GateAssumption DEF Slot, Turns
<1>3. b % SlotCount = b /\ (b + SlotCount) % SlotCount = b
  BY GateAssumption DEF Slot
<1>4. QED
  BY <1>1, <1>2, <1>3

\* The next slot is the waiting one whose turn comes first.
LEMMA NextIsFirst ==
  ASSUME TypeOK, NEW s \in Slot, NextPrefillSlot = s
  PROVE  \A t \in Slot : prefillWaiting[t] =>
           Turns(lastPrefillSlot, s) <= Turns(lastPrefillSlot, t)
<1> DEFINE after(n) == (lastPrefillSlot + n) % SlotCount
           turns == {n \in 1..SlotCount : prefillWaiting[after(n)]}
           first == CHOOSE n \in turns : \A m \in turns : n <= m
<1>1. lastPrefillSlot \in Slot
  BY DEF TypeOK
<1>2. turns # {} /\ s = after(first)
  BY DEF NextPrefillSlot, Slot
<1>3. first \in turns /\ \A m \in turns : first <= m
  <2>1. turns \in SUBSET Nat
    OBVIOUS
  <2>2. \E n \in turns : \A m \in turns : n <= m
    <3> HIDE DEF turns
    <3>1. QED
      BY <1>2, <2>1, LeastNumber
  <2>3. QED
    <3> HIDE DEF turns
    <3>1. QED
      BY <2>2, Zenon
<1>4. Turns(lastPrefillSlot, s) = first
  BY <1>1, <1>2, <1>3, TurnOf
<1>5. ASSUME NEW t \in Slot, prefillWaiting[t]
      PROVE  first <= Turns(lastPrefillSlot, t)
  <2>1. Turns(lastPrefillSlot, t) \in turns
    BY <1>1, <1>5, SlotOf
  <2>2. QED
    BY <1>3, <2>1
<1>6. QED
  BY <1>4, <1>5

(***************************************************************************)
(* What one step can admit.                                                *)
(***************************************************************************)

\* The turns change, a prefill owner appears, and a token goes in flight, only
\* where the code says so.
AdmissionStep ==
  /\ \/ UNCHANGED prefill
     \/ \E s \in Slot : PrefillRequest(s) \/ PrefillAbort(s) \/ PrefillGrant(s)
  /\ \A s \in Slot : PrefillOwner(s)' => PrefillOwner(s) \/ PrefillGrant(s)
  /\ \A s \in Slot : inFlight'[s] => inFlight[s] \/ slotPending[s]

\* Every step admits what AdmissionStep says.
LEMMA AdmittedByStep ==
  ASSUME TypeOK, [Next]_gateVars
  PROVE  AdmissionStep
<1> USE GateAssumption
       DEF TypeOK, AdmissionStep, PrefillOwner, slotState, decodeState,
           decoder, Goto, Spend
<1>1. ASSUME NEW s \in Slot,
             SlotStep(s) \/ JobArrives(s) \/ CancelJob(s) \/ WithdrawDecode(s)
      PROVE  AdmissionStep
  <2>1. CASE CheckJob(s)
    BY <2>1 DEF CheckJob
  <2>2. CASE LeaveJob(s)
    BY <2>2 DEF LeaveJob
  <2>3. CASE ReadPosition(s)
    BY <2>3 DEF ReadPosition
  <2>4. CASE SyncInterrupted(s)
    BY <2>4 DEF SyncInterrupted
  <2>5. CASE PrefillRequest(s)
    BY <2>5 DEF PrefillRequest
  <2>6. CASE PrefillSleep(s)
    BY <2>6 DEF PrefillSleep
  <2>7. CASE PrefillAbort(s)
    BY <2>7 DEF PrefillAbort
  <2>8. CASE PrefillGrant(s)
    BY <2>8 DEF PrefillGrant
  <2>9. CASE PrefillLock(s)
    BY <2>9 DEF PrefillLock
  <2>10. CASE PrefillRun(s)
    BY <2>10 DEF PrefillRun
  <2>11. CASE PrefillLeave(s)
    BY <2>11 DEF PrefillLeave
  <2>12. CASE SyncAgain(s)
    BY <2>12 DEF SyncAgain
  <2>13. CASE StoreLock(s)
    BY <2>13 DEF StoreLock, Using
  <2>14. CASE StoreUnlock(s)
    <3>1. \A t \in Slot : PrefillOwner(t)' => PrefillOwner(t)
      BY <2>14 DEF StoreUnlock, Using
    <3>2. QED
      BY <2>14, <3>1 DEF StoreUnlock
  <2>15. CASE FinishJob(s)
    BY <2>15 DEF FinishJob
  <2>16. CASE GenerationEnter(s)
    BY <2>16 DEF GenerationEnter
  <2>17. CASE SampleToken(s)
    BY <2>17 DEF SampleToken
  <2>18. CASE EndLoop(s)
    BY <2>18 DEF EndLoop
  <2>19. CASE GenerationLeave(s)
    BY <2>19 DEF GenerationLeave
  <2>20. CASE EvalRefused(s)
    BY <2>20 DEF EvalRefused
  <2>21. CASE EvalRequest(s)
    BY <2>21 DEF EvalRequest
  <2>22. CASE EvalSleep(s)
    BY <2>22 DEF EvalSleep
  <2>23. CASE EvalWithdraw(s)
    BY <2>23 DEF EvalWithdraw
  <2>24. CASE EvalReturn(s)
    BY <2>24 DEF EvalReturn
  <2>25. CASE JobArrives(s)
    BY <2>25 DEF JobArrives, BeginJob
  <2>26. CASE CancelJob(s)
    BY <2>26 DEF CancelJob
  <2>27. CASE WithdrawDecode(s)
    BY <2>27 DEF WithdrawDecode
  <2>28. QED
    BY <1>1, <2>1, <2>2, <2>3, <2>4, <2>5, <2>6, <2>7, <2>8, <2>9, <2>10,
       <2>11, <2>12, <2>13, <2>14, <2>15, <2>16, <2>17, <2>18,
       <2>19, <2>20, <2>21, <2>22, <2>23, <2>24, <2>25, <2>26,
       <2>27 DEF SlotStep
<1>2. CASE DecoderStep
  <2>1. CASE DecoderSleep
    BY <2>1 DEF DecoderSleep
  <2>2. CASE DecoderCoalesce
    BY <2>2 DEF DecoderCoalesce
  <2>3. CASE DecoderBlocked
    BY <2>3 DEF DecoderBlocked, AtGate
  <2>4. CASE DecoderNoWork
    BY <2>4 DEF DecoderNoWork, AtGate
  <2>5. CASE DecoderCollect
    BY <2>5 DEF DecoderCollect, AtGate
  <2>6. CASE BatchLock
    BY <2>6 DEF BatchLock
  <2>7. CASE BatchEval
    BY <2>7 DEF BatchEval
  <2>8. CASE BatchPublish
    BY <2>8 DEF BatchPublish
  <2>9. CASE DecoderExit
    BY <2>9 DEF DecoderExit, AtGate
  <2>10. QED
    BY <1>2, <2>1, <2>2, <2>3, <2>4, <2>5, <2>6, <2>7, <2>8, <2>9 DEF DecoderStep
<1>3. ASSUME NEW c \in Encoders, EncodeLock(c) \/ EncodeUnlock(c)
      PROVE  AdmissionStep
  BY <1>3 DEF EncodeLock, EncodeUnlock
<1>4. CASE StopSignal
  BY <1>4 DEF StopSignal
<1>5. CASE StopDecoder
  BY <1>5 DEF StopDecoder, RequestDecodeStop
<1>6. CASE UNCHANGED gateVars
  BY <1>6 DEF gateVars, prefill
<1>7. QED
  BY <1>1, <1>2, <1>3, <1>4, <1>5, <1>6 DEF Next, Exited

(***************************************************************************)
(* Round robin.                                                            *)
(***************************************************************************)

\* Whoever has passed a waiting slot comes after it in the current round.
PassedComeLater ==
  \A s, t \in Slot :
    prefillWaiting[s] /\ t \in passedBy[s]
      => Turns(lastPrefillSlot, s) < Turns(lastPrefillSlot, t)

\* Granting a turn moves the round on: the slots that wait come one by one
\* nearer, and the one just served is last.
LEMMA PassedStep ==
  ASSUME GateInv, PassedComeLater, [Next]_gateVars
  PROVE  PassedComeLater'
<1> USE DEF GateInv
<1>1. AdmissionStep
  BY AdmittedByStep
<1>2. CASE UNCHANGED prefill
  BY <1>2 DEF prefill, PassedComeLater
<1>3. ASSUME NEW u \in Slot, PrefillRequest(u) \/ PrefillAbort(u)
      PROVE  PassedComeLater'
  <2>1. /\ lastPrefillSlot' = lastPrefillSlot
        /\ \A s \in Slot : s # u => /\ prefillWaiting'[s] = prefillWaiting[s]
                                    /\ passedBy'[s] = passedBy[s]
        /\ passedBy'[u] = {}
    BY <1>3 DEF PrefillRequest, PrefillAbort, TypeOK
  <2>2. QED
    BY <2>1 DEF PassedComeLater
<1>4. ASSUME NEW u \in Slot, PrefillGrant(u)
      PROVE  PassedComeLater'
  <2>1. /\ lastPrefillSlot' = u /\ NextPrefillSlot = u
        /\ ~prefillWaiting'[u]
        /\ \A s \in Slot \ {u} : /\ prefillWaiting'[s] = prefillWaiting[s]
                                 /\ prefillWaiting[s] => passedBy'[s] = passedBy[s] \cup {u}
    BY <1>4 DEF PrefillGrant, MustWaitForPrefill, TypeOK
  <2>2. SUFFICES ASSUME NEW s \in Slot, NEW t \in Slot,
                        prefillWaiting'[s], t \in passedBy'[s]
                 PROVE  Turns(u, s) < Turns(u, t)
    BY <2>1 DEF PassedComeLater
  <2>3. s # u /\ prefillWaiting[s] /\ t \in passedBy[s] \cup {u}
    BY <2>1, <2>2
  <2>4. lastPrefillSlot \in Slot
    BY DEF TypeOK
  <2>5. CASE t = u
    BY <2>3, <2>5, GateAssumption DEF Turns, Slot
  <2>6. CASE t # u
    <3>1. Turns(lastPrefillSlot, s) < Turns(lastPrefillSlot, t)
      BY <2>3, <2>6 DEF PassedComeLater
    <3>2. Turns(lastPrefillSlot, u) <= Turns(lastPrefillSlot, s)
      BY <2>1, <2>3, NextIsFirst
    <3>3. QED
      BY <2>3, <2>4, <2>6, <3>1, <3>2, GateAssumption DEF Turns, Slot
  <2>7. QED
    BY <2>5, <2>6
<1>5. QED
  BY <1>1, <1>2, <1>3, <1>4 DEF AdmissionStep

\* A slot that waits to prefill is passed at most once by each other slot,
\* for any number of slots.
THEOREM NoSlotPassedTwiceCorrect == Spec => NoSlotPassedTwice
<1>1. Init => PassedComeLater
  BY DEF Init, PassedComeLater
<1>2. ASSUME GateInv, PassedComeLater, [Next]_gateVars,
             NEW s \in Slot, NEW t \in Slot,
             prefillWaiting[s], t \in passedBy[s], ~PrefillOwner(t)
      PROVE  ~PrefillOwner(t)' \/ ~prefillWaiting'[s]
  <2>1. SUFFICES ASSUME PrefillGrant(t) PROVE FALSE
    BY <1>2, AdmittedByStep DEF GateInv, AdmissionStep
  <2>2. NextPrefillSlot = t
    BY <2>1 DEF PrefillGrant, MustWaitForPrefill
  <2>3. Turns(lastPrefillSlot, t) <= Turns(lastPrefillSlot, s)
    BY <1>2, <2>2, NextIsFirst DEF GateInv
  <2>4. Turns(lastPrefillSlot, s) < Turns(lastPrefillSlot, t)
    BY <1>2 DEF PassedComeLater
  <2>5. lastPrefillSlot \in Slot
    BY <1>2 DEF GateInv, TypeOK
  <2>6. QED
    BY <2>3, <2>4, <2>5, SlotOf
<1>3. GateInv /\ PassedComeLater /\ [Next]_gateVars => PassedComeLater'
  BY PassedStep
<1>4. GateInv /\ PassedComeLater /\ [Next]_gateVars
        => [\A s, t \in Slot :
              prefillWaiting[s] /\ t \in passedBy[s] /\ ~PrefillOwner(t)
                => ~PrefillOwner(t)' \/ ~prefillWaiting'[s]]_gateVars
  BY <1>2
<1>5. QED
  BY <1>1, <1>3, <1>4, GateInvariant, PTL DEF Spec, NoSlotPassedTwice

(***************************************************************************)
(* Cancellation.                                                           *)
(***************************************************************************)

\* Once server_cancel_job has been through model_mu, the job enters no batch
\* and is admitted to no prefill.
THEOREM CancelledJobRunsNothingNewCorrect == Spec => CancelledJobRunsNothingNew
<1>1. ASSUME GateInv, [Next]_gateVars, NEW s \in Slot, withdrawn[s]
      PROVE  /\ ~inFlight[s] => ~inFlight'[s]
             /\ ~PrefillOwner(s) => ~PrefillOwner(s)'
  <2>1. ~slotPending[s] /\ Interrupted(s)
    BY <1>1 DEF GateInv, CancelledJobQueuesNothing, WithdrawnIsCancelled, Interrupted
  <2>2. AdmissionStep
    BY <1>1, AdmittedByStep DEF GateInv
  <2>3. ~PrefillGrant(s)
    BY <2>1 DEF PrefillGrant
  <2>4. QED
    BY <2>1, <2>2, <2>3 DEF AdmissionStep
<1>2. GateInv /\ [Next]_gateVars
        => [\A s \in Slot : withdrawn[s] =>
              /\ ~inFlight[s] => ~inFlight'[s]
              /\ ~PrefillOwner(s) => ~PrefillOwner(s)']_gateVars
  BY <1>1
<1>3. QED
  BY <1>2, GateInvariant, PTL DEF Spec, CancelledJobRunsNothingNew

(***************************************************************************)
(* Texts. Only is a recursive function over a text: what it computes is    *)
(* proved by induction on the length (FromEmpty), which rests on the least *)
(* number of a set (LeastNumber).                                          *)
(***************************************************************************)

\* What holds of 0, and of every number after one of which it holds, holds of all.
LEMMA FromZero ==
  ASSUME NEW H, 0 \in H, \A n \in Nat : n \in H => n + 1 \in H
  PROVE  Nat \subseteq H
<1> DEFINE T == Nat \ H
<1>1. T = {}
  <2>1. SUFFICES ASSUME T # {} PROVE FALSE
    OBVIOUS
  <2>2. PICK k \in T : \A j \in T : k <= j
    BY <2>1, LeastNumber
  <2>3. k - 1 \in Nat /\ k - 1 \notin T /\ (k - 1) + 1 = k
    BY <2>2
  <2>4. QED
    BY <2>2, <2>3
<1>2. QED
  BY <1>1

\* The same for texts, by their length.
LEMMA FromEmpty ==
  ASSUME NEW S, NEW H, <<>> \in H,
         \A t \in Seq(S), x \in S : t \in H => Append(t, x) \in H
  PROVE  Seq(S) \subseteq H
<1> DEFINE L == {n \in Nat : \A t \in Seq(S) : Len(t) = n => t \in H}
<1>1. 0 \in L
  <2>1. \A t \in Seq(S) : Len(t) = 0 => t = <<>>
    OBVIOUS
  <2>2. QED
    BY <2>1
<1>2. ASSUME NEW n \in Nat, n \in L PROVE n + 1 \in L
  <2>1. ASSUME NEW t \in Seq(S), Len(t) = n + 1 PROVE t \in H
    <3>1. t # <<>>
      BY <2>1
    <3>2. PICK u \in Seq(S), x \in S : t = Append(u, x)
      BY <3>1, SequenceEmptyOrAppend
    <3>3. Len(u) = n
      BY <2>1, <3>2
    <3>4. QED
      BY <1>2, <3>2, <3>3
  <2>2. QED
    BY <2>1
<1> HIDE DEF L
<1>3. Nat \subseteq L
  BY <1>1, <1>2, FromZero
<1>4. QED
  BY <1>3 DEF L

KeptStep(S, t, f, n) ==
  IF n = 0 THEN <<>> ELSE IF t[n] \in S THEN Append(f[n - 1], t[n]) ELSE f[n - 1]
Keeps(S, t, f, n) == \A i \in 0..n : f[i] = KeptStep(S, t, f, i)

\* The recursion of Only has a solution.
LEMMA OnlyKeeps ==
  ASSUME NEW S, NEW t, Len(t) \in Nat
  PROVE  \E f : Only(S, t) = f[Len(t)] /\ Keeps(S, t, f, Len(t))
<1> DEFINE m == Len(t)
           H == {n \in Nat : n <= m => \E f : Keeps(S, t, f, n)}
<1>1. 0 \in H
  <2>1. Keeps(S, t, [i \in {0} |-> <<>>], 0)
    BY DEF Keeps, KeptStep
  <2>2. QED
    BY <2>1
<1>2. ASSUME NEW n \in Nat, n \in H PROVE n + 1 \in H
  <2>1. SUFFICES ASSUME n + 1 <= m PROVE \E f : Keeps(S, t, f, n + 1)
    OBVIOUS
  <2>2. PICK f : Keeps(S, t, f, n)
    BY <1>2, <2>1
  <2> DEFINE g == [i \in 0..(n + 1) |-> IF i = n + 1 THEN KeptStep(S, t, f, i) ELSE f[i]]
  <2>3. g[n + 1] = KeptStep(S, t, f, n + 1) /\ \A i \in 0..n : g[i] = f[i]
    OBVIOUS
  <2> HIDE DEF g
  <2>4. ASSUME NEW i \in 0..(n + 1) PROVE g[i] = KeptStep(S, t, g, i)
    <3>1. i # 0 => i - 1 \in 0..n
      OBVIOUS
    <3>2. KeptStep(S, t, g, i) = KeptStep(S, t, f, i)
      BY <2>3, <3>1 DEF KeptStep
    <3>3. i = n + 1 \/ i \in 0..n
      OBVIOUS
    <3>4. QED
      BY <2>2, <2>3, <3>2, <3>3 DEF Keeps
  <2>5. QED
    BY <2>4 DEF Keeps
<1> HIDE DEF H
<1>3. m \in H
  BY <1>1, <1>2, FromZero
<1>4. PICK g : Keeps(S, t, g, m)
  BY <1>3 DEF H
<1> DEFINE f == [n \in 0..m |-> g[n]]
<1>5. f = [n \in 0..m |-> KeptStep(S, t, f, n)]
  <2>1. ASSUME NEW n \in 0..m PROVE f[n] = KeptStep(S, t, f, n)
    <3>1. n # 0 => n - 1 \in 0..m
      OBVIOUS
    <3>2. KeptStep(S, t, f, n) = KeptStep(S, t, g, n)
      BY <3>1 DEF KeptStep
    <3>3. QED
      BY <1>4, <3>2 DEF Keeps
  <2>2. QED
    BY <2>1
<1> HIDE DEF f
<1>6. \E kept : kept = [n \in 0..m |-> KeptStep(S, t, kept, n)]
  BY <1>5
<1> DEFINE c == CHOOSE kept : kept = [n \in 0..m |-> KeptStep(S, t, kept, n)]
<1>7. c = [n \in 0..m |-> KeptStep(S, t, c, n)]
  BY <1>6
<1>8. Only(S, t) = c[m]
  BY DEF Only, KeptStep
<1> HIDE DEF c
<1>9. Keeps(S, t, c, m)
  BY <1>7 DEF Keeps
<1>10. QED
  BY <1>8, <1>9

LEMMA OnlyNone ==
  ASSUME NEW S
  PROVE  Only(S, <<>>) = <<>>
<1>1. Len(<<>>) = 0
  OBVIOUS
<1>2. QED
  BY <1>1, OnlyKeeps DEF Keeps, KeptStep

LEMMA OnlyAppend ==
  ASSUME NEW S, NEW T, NEW t \in Seq(T), NEW x \in T
  PROVE  Only(S, Append(t, x)) = IF x \in S THEN Append(Only(S, t), x) ELSE Only(S, t)
<1> DEFINE m == Len(t)
           u == Append(t, x)
<1>1. /\ m \in Nat /\ Len(u) = m + 1 /\ u[m + 1] = x
      /\ \A i \in 1..m : u[i] = t[i]
  OBVIOUS
<1> HIDE DEF u
<1>2. PICK f : Only(S, t) = f[m] /\ Keeps(S, t, f, m)
  BY <1>1, OnlyKeeps
<1>3. PICK g : Only(S, u) = g[m + 1] /\ Keeps(S, u, g, m + 1)
  BY <1>1, OnlyKeeps
<1> DEFINE H == {n \in Nat : n <= m => f[n] = g[n]}
<1>4. 0 \in H
  BY <1>1, <1>2, <1>3 DEF Keeps, KeptStep
<1>5. ASSUME NEW n \in Nat, n \in H PROVE n + 1 \in H
  <2>1. SUFFICES ASSUME n + 1 <= m PROVE f[n + 1] = g[n + 1]
    OBVIOUS
  <2>2. f[n] = g[n] /\ u[n + 1] = t[n + 1]
    BY <1>1, <1>5, <2>1
  <2>3. /\ n + 1 \in 0..m /\ n + 1 \in 0..(m + 1) /\ n + 1 # 0 /\ (n + 1) - 1 = n
    BY <1>1, <2>1
  <2>4. f[n + 1] = KeptStep(S, t, f, n + 1) /\ g[n + 1] = KeptStep(S, u, g, n + 1)
    BY <1>2, <1>3, <2>3 DEF Keeps
  <2>5. QED
    BY <2>2, <2>3, <2>4 DEF KeptStep
<1> HIDE DEF H
<1>6. m \in H
  BY <1>1, <1>4, <1>5, FromZero
<1>7. f[m] = g[m]
  BY <1>1, <1>6 DEF H
<1>8. g[m + 1] = KeptStep(S, u, g, m + 1)
  BY <1>1, <1>3 DEF Keeps
<1>9. QED
  BY <1>1, <1>2, <1>3, <1>7, <1>8 DEF KeptStep, u

LEMMA OnlyType ==
  ASSUME NEW S, NEW T
  PROVE  \A t \in Seq(T) : Only(S, t) \in Seq(T)
<1> DEFINE H == {t \in Seq(T) : Only(S, t) \in Seq(T)}
<1>1. <<>> \in H
  <2>1. <<>> \in Seq(T) /\ Only(S, <<>>) = <<>>
    BY OnlyNone
  <2>2. Only(S, <<>>) \in Seq(T)
    BY <2>1
  <2>3. QED
    BY <2>1, <2>2
<1>2. ASSUME NEW t \in Seq(T), NEW x \in T, t \in H PROVE Append(t, x) \in H
  <2>1. Append(t, x) \in Seq(T)
    OBVIOUS
  <2>2. Only(S, t) \in Seq(T) /\ Append(Only(S, t), x) \in Seq(T)
    BY <1>2
  <2>3. Only(S, Append(t, x)) \in Seq(T)
    BY <2>2, OnlyAppend
  <2>4. QED
    BY <2>1, <2>3
<1>3. \A t \in Seq(T), x \in T : t \in H => Append(t, x) \in H
  BY <1>2
<1> HIDE DEF H
<1>4. Seq(T) \subseteq H
  BY <1>1, <1>3, FromEmpty
<1>5. QED
  BY <1>4 DEF H

LEMMA OnlyConcat ==
  ASSUME NEW S, NEW T, NEW s \in Seq(T)
  PROVE  \A t \in Seq(T) : Only(S, s \o t) = Only(S, s) \o Only(S, t)
<1> DEFINE H == {t \in Seq(T) : Only(S, s \o t) = Only(S, s) \o Only(S, t)}
           o == Only(S, s)
<1>1. o \in Seq(T)
  BY OnlyType
<1>2. <<>> \in H
  <2>1. s \o <<>> = s /\ <<>> \in Seq(T)
    BY ConcatEmptySeq
  <2> HIDE DEF o
  <2>2. o \o <<>> = o
    BY <1>1, ConcatEmptySeq
  <2>3. Only(S, s \o <<>>) = Only(S, s) \o Only(S, <<>>)
    BY <2>1, <2>2, OnlyNone DEF o
  <2>4. QED
    BY <2>1, <2>3
<1>3. ASSUME NEW t \in Seq(T), NEW x \in T, t \in H PROVE Append(t, x) \in H
  <2> DEFINE p == Only(S, t)
             u == s \o t
  <2>1. p \in Seq(T) /\ u \in Seq(T) /\ Only(S, u) = o \o p
    BY <1>3, OnlyType
  <2>2. s \o Append(t, x) = Append(u, x)
    OBVIOUS
  <2>3. Only(S, Append(t, x)) = IF x \in S THEN Append(p, x) ELSE p
    BY OnlyAppend
  <2>4. \A v \in Seq(T) :
          Only(S, Append(v, x)) = IF x \in S THEN Append(Only(S, v), x) ELSE Only(S, v)
    BY OnlyAppend
  <2> HIDE DEF p, u, o
  <2>5. o \o Append(p, x) = Append(o \o p, x)
    BY <1>1, <2>1
  <2>6. Only(S, Append(u, x)) = o \o Only(S, Append(t, x))
    <3>1. Only(S, Append(u, x)) = IF x \in S THEN Append(Only(S, u), x) ELSE Only(S, u)
      BY <2>1, <2>4
    <3>2. QED
      BY <2>1, <2>3, <2>5, <3>1
  <2>7. Append(t, x) \in Seq(T)
    OBVIOUS
  <2>8. QED
    BY <2>2, <2>6, <2>7 DEF o
<1>4. \A t \in Seq(T), x \in T : t \in H => Append(t, x) \in H
  BY <1>3
<1> HIDE DEF H
<1>5. Seq(T) \subseteq H
  BY <1>2, <1>4, FromEmpty
<1>6. QED
  BY <1>5 DEF H

LEMMA OnlyOnly ==
  ASSUME NEW S, NEW R, S \subseteq R, NEW T
  PROVE  \A t \in Seq(T) : Only(S, Only(R, t)) = Only(S, t)
<1> DEFINE H == {t \in Seq(T) : Only(S, Only(R, t)) = Only(S, t)}
<1>1. <<>> \in H
  <2>1. <<>> \in Seq(T) /\ Only(R, <<>>) = <<>> /\ Only(S, <<>>) = <<>>
    BY OnlyNone
  <2>2. Only(S, Only(R, <<>>)) = Only(S, <<>>)
    BY <2>1
  <2>3. QED
    BY <2>1, <2>2
<1>2. ASSUME NEW t \in Seq(T), NEW x \in T, t \in H PROVE Append(t, x) \in H
  <2> DEFINE p == Only(R, t)
  <2>1. p \in Seq(T) /\ Only(S, p) = Only(S, t)
    BY <1>2, OnlyType
  <2>2. Only(R, Append(t, x)) = IF x \in R THEN Append(p, x) ELSE p
    BY OnlyAppend
  <2> HIDE DEF p
  <2>3. Only(S, Append(p, x)) = IF x \in S THEN Append(Only(S, p), x) ELSE Only(S, p)
    BY <2>1, OnlyAppend
  <2>4. Only(S, Append(t, x)) = IF x \in S THEN Append(Only(S, t), x) ELSE Only(S, t)
    BY OnlyAppend
  <2>5. Only(S, Only(R, Append(t, x))) = Only(S, Append(t, x))
    BY <2>1, <2>2, <2>3, <2>4
  <2>6. Append(t, x) \in Seq(T)
    OBVIOUS
  <2>7. QED
    BY <2>5, <2>6
<1>3. \A t \in Seq(T), x \in T : t \in H => Append(t, x) \in H
  BY <1>2
<1> HIDE DEF H
<1>4. Seq(T) \subseteq H
  BY <1>1, <1>3, FromEmpty
<1>5. QED
  BY <1>4 DEF H

\* What is agreed upon of texts put together, and of texts made of texts.
LEMMA AgreedTexts ==
  /\ Agreed(<<>>) = <<>>
  /\ \A s, t \in Text : s \o t \in Text /\ Agreed(s \o t) = Agreed(s) \o Agreed(t)
  /\ \A t \in Text : /\ Agreed(t) \in Text /\ Agreed(Agreed(t)) = Agreed(t)
                     /\ Visible(t) \in Text /\ Agreed(Visible(t)) = Agreed(t)
                     /\ Canonical(t) \in Text /\ Agreed(Canonical(t)) = Agreed(t)
<1>1. Letter \subseteq Token \ {Thought} /\ Letter \subseteq Token \ {Noise}
  BY LiveAssumption DEF Token
<1>2. Agreed(<<>>) = <<>>
  BY OnlyNone DEF Agreed
<1>3. \A s, t \in Text : s \o t \in Text /\ Agreed(s \o t) = Agreed(s) \o Agreed(t)
  BY OnlyConcat DEF Agreed, Text
<1>4. \A t \in Text : Agreed(t) \in Text /\ Visible(t) \in Text /\ Canonical(t) \in Text
  BY OnlyType DEF Agreed, Visible, Canonical, Text
<1>5. \A t \in Text : Agreed(Agreed(t)) = Agreed(t)
  BY OnlyOnly DEF Agreed, Text
<1>6. \A t \in Text : Agreed(Visible(t)) = Agreed(t)
  BY <1>1, OnlyOnly DEF Agreed, Visible, Text
<1>7. \A t \in Text : Agreed(Canonical(t)) = Agreed(t)
  BY <1>1, OnlyOnly DEF Agreed, Canonical, Text
<1>8. QED
  BY <1>2, <1>3, <1>4, <1>5, <1>6, <1>7

\* A text is its prefix and the rest.
LEMMA PrefixAndRest ==
  ASSUME NEW s \in Text, NEW t \in Text, IsPrefix(s, t)
  PROVE  From(t, Len(s)) \in Text /\ t = s \o From(t, Len(s))
<1> DEFINE n == Len(s)
           r == SubSeq(t, n + 1, Len(t))
<1>1. /\ n \in 0..Len(t) /\ Len(t) \in Nat
      /\ SubSeq(s, 1, n) = s /\ SubSeq(s, 1, n) = SubSeq(t, 1, n)
  BY DEF IsPrefix, Text
<1>2. \A i \in (n + 1)..Len(t) : t[i] \in Token
  BY <1>1 DEF Text
<1>3. r \in Text
  BY <1>1, <1>2, SubSeqProperties DEF Text
<1>4. t = SubSeq(t, 1, n) \o r
  <2>1. SubSeq(t, 1, Len(t)) = t
    BY DEF Text
  <2>2. SubSeq(t, 1, n) \o SubSeq(t, n + 1, Len(t)) = SubSeq(t, 1, Len(t))
    <3>1. 1 \in 1..(Len(t) + 1) /\ n \in (1 - 1)..Len(t) /\ Len(t) \in n..Len(t)
      BY <1>1
    <3> HIDE DEF n
    <3>2. t \in Seq(Token)
      BY DEF Text
    <3>3. QED
      BY <3>1, <3>2, ConcatAdjacentSubSeq
  <2>3. QED
    BY <2>1, <2>2
<1>5. QED
  BY <1>1, <1>3, <1>4 DEF From

\* Parts of a text are texts.
LEMMA Parts ==
  /\ \A t \in Text, n \in Nat : From(t, n) \in Text
  /\ \A t \in Text : \A n \in 0..Len(t) : SubSeq(t, 1, n) \in Text
  /\ \A t \in Text : t # <<>> => Front(t) \in Text
<1>1. ASSUME NEW t \in Text, NEW m \in Nat, NEW n \in 0..Len(t), m >= 1
      PROVE  SubSeq(t, m, n) \in Text
  <2>1. \A i \in m..n : t[i] \in Token
    BY <1>1 DEF Text
  <2>2. QED
    BY <2>1, SubSeqProperties DEF Text
<1>2. ASSUME NEW t \in Text PROVE Len(t) \in 0..Len(t) /\ Len(t) \in Nat
  BY DEF Text
<1>3. ASSUME NEW t \in Text, t # <<>> PROVE Len(t) - 1 \in 0..Len(t)
  BY <1>3 DEF Text
<1>4. \A t \in Text, n \in Nat : From(t, n) \in Text
  BY <1>1, <1>2 DEF From
<1>5. \A t \in Text : \A n \in 0..Len(t) : SubSeq(t, 1, n) \in Text
  BY <1>1
<1>6. \A t \in Text : t # <<>> => Front(t) \in Text
  BY <1>3, <1>5 DEF Front
<1>7. QED
  BY <1>4, <1>5, <1>6

\* A best hit is a hit.
LEMMA BestIsHit ==
  ASSUME NEW p \in Text, DOMAIN disk \subseteq Text, Hits(p) # {}
  PROVE  Best(p) \in Hits(p)
<1> DEFINE H == Hits(p)
           longest(k) == \A l \in H : Len(l) <= Len(k)
<1>1. \A k \in H : k \in Text /\ k # <<>> /\ Len(k) <= Len(p)
  BY DEF Hits, IsPrefix
<1>2. \A k \in H : Len(k) \in Nat /\ Len(k) > 0 /\ Len(p) - Len(k) \in Nat
  <2>1. \A k \in Text : Len(k) \in Nat /\ (k # <<>> => Len(k) > 0)
    BY DEF Text
  <2>2. Len(p) \in Nat
    BY <2>1
  <2>3. QED
    BY <1>1, <2>1, <2>2
<1> HIDE DEF H
<1>3. \E k \in H : longest(k)
  <2> DEFINE T == {Len(p) - Len(k) : k \in H}
  <2>1. T \in SUBSET Nat /\ T # {}
    BY <1>2 DEF H
  <2>2. PICK n \in T : \A m \in T : n <= m
    BY <2>1, LeastNumber
  <2>3. PICK k \in H : n = Len(p) - Len(k)
    BY <2>2
  <2>4. ASSUME NEW l \in H PROVE Len(l) <= Len(k)
    <3>1. Len(p) - Len(k) <= Len(p) - Len(l)
      BY <2>2, <2>3
    <3>2. Len(p) \in Nat /\ Len(k) \in Nat /\ Len(l) \in Nat
      BY <1>2 DEF Text
    <3>3. QED
      BY <3>1, <3>2
  <2>5. QED
    BY <2>4
<1>4. Best(p) \in H \cup {<<>>} /\ longest(Best(p))
  BY <1>3 DEF Best, H
<1>5. Best(p) # <<>>
  <2>1. PICK k \in H : TRUE
    BY <1>3
  <2>2. Len(k) <= Len(Best(p)) /\ Len(k) > 0 /\ Len(k) \in Nat /\ Len(<<>>) = 0
    BY <1>2, <1>4
  <2>3. QED
    BY <2>2
<1>6. QED
  BY <1>4, <1>5 DEF H

(***************************************************************************)
(* Every variable of a slot has its type: texts are sequences of tokens,   *)
(* whatever the checkpoints, bindings and answers they come from.          *)
(***************************************************************************)

\* The disk after some files have gone and one may have come.
Disks(d) == DOMAIN d \subseteq Text /\ \A k \in DOMAIN d : d[k] \in Text

LEMMA StoreType ==
  /\ \A d, e : Disks(d) /\ e \in Shrink(d) => Disks(e)
  /\ \A d, key, toks :
       Disks(d) /\ key \in Text /\ toks \in Text => Disks(Store(d, key, toks))
<1>1. ASSUME NEW d, NEW e, Disks(d), e \in Shrink(d) PROVE Disks(e)
  <2>1. PICK S \in SUBSET DOMAIN d : e = [x \in S |-> d[x]]
    BY <1>1 DEF Shrink, Restrict
  <2>2. QED
    BY <1>1, <2>1 DEF Disks
<1>2. ASSUME NEW d, NEW key \in Text, NEW toks \in Text, Disks(d)
      PROVE  Disks(Store(d, key, toks))
  BY <1>2 DEF Disks, Store
<1>3. QED
  BY <1>1, <1>2

LEMMA OnTheWayType ==
  ASSUME NEW eff \in Text, Disks(disk), session.toks \in Text
  PROVE  /\ \A d \in StoredOnTheWay(eff) : Disks(d)
         /\ \A f \in Frontiers(eff) : f \in Text
<1>1. \A f \in Frontiers(eff) : f \in Text
  <2>1. Pos \in Nat /\ Len(eff) \in Nat
    BY DEF Pos, Text
  <2>2. ASSUME NEW f \in Frontiers(eff) PROVE f \in Text
    <3>1. PICK n \in 0..Len(eff) : f = SubSeq(eff, 1, n)
      BY <2>1 DEF Frontiers
    <3>2. QED
      BY <3>1, Parts
  <2>3. QED
    BY <2>2
<1>2. QED
  BY <1>1, StoreType DEF StoredOnTheWay

LEMMA Setting ==
  ASSUME env \in Settings
  PROVE  /\ env.apis \subseteq Api
         /\ \A p \in env.opening : p \in Text \ {<<>>}
         /\ \A x \in env.say : x \in Letter /\ x \in Token /\ <<x>> \in Text
         /\ env.max \in Nat /\ env.tokens \in Nat
<1>1. /\ env.apis \subseteq Api /\ env.opening \subseteq Seq(Letter) \ {<<>>}
      /\ env.say \subseteq Letter /\ env.max \in Nat /\ env.tokens \in Nat
  BY LiveAssumption
<1>2. \A p \in Seq(Letter) : p \in Text
  BY DEF Text, Token
<1>3. \A x \in Letter : x \in Token /\ <<x>> \in Text
  BY DEF Text, Token
<1>4. QED
  BY <1>1, <1>2, <1>3

LEMMA SampledType ==
  ASSUME NEW x \in Letter, NEW call \in BOOLEAN, NEW g \in Sampled(x, call)
  PROVE  g \in Text /\ g # <<>> /\ Len(g) > 0
<1>1. x \in Token /\ Thought \in Token /\ Noise \in Token
  BY DEF Token
<1>2. g = <<x>> \/ g = <<Thought, x>> \/ g = <<x, Noise>> \/ g = <<Thought, x, Noise>>
  BY DEF Sampled
<1>3. CASE g = <<x>>
  BY <1>1, <1>3 DEF Text
<1>4. CASE g = <<Thought, x>>
  BY <1>1, <1>4 DEF Text
<1>5. CASE g = <<x, Noise>>
  BY <1>1, <1>5 DEF Text
<1>6. CASE g = <<Thought, x, Noise>>
  BY <1>1, <1>6 DEF Text
<1>7. QED
  BY <1>2, <1>3, <1>4, <1>5, <1>6

IsJob(j) == j = [req |-> j.req, source |-> j.source, eff |-> j.eff, file |-> j.file]

LEMMA JobFields ==
  ASSUME NEW j, IsJob(j), NEW v
  PROVE  [j EXCEPT !.file = v]
            = [req |-> j.req, source |-> j.source, eff |-> j.eff, file |-> v]
<1>1. PICK a, b, c, d : j = [req |-> a, source |-> b, eff |-> c, file |-> d]
  BY DEF IsJob
<1>2. j.req = a /\ j.source = b /\ j.eff = c
  BY <1>1
<1>3. [j EXCEPT !.file = v] = [req |-> a, source |-> b, eff |-> c, file |-> v]
  BY <1>1
<1>4. QED
  BY <1>2, <1>3

LEMMA TypedRequest ==
  ASSUME Typed, NEW r \in Req, NewRequest(r)
  PROVE  Typed'
<1>1. r.no \in Nat
  BY DEF Req
<1>2. QED
  BY <1>1 DEF Typed, NewRequest, bindings

LEMMA TypedOpen ==
  ASSUME Typed, NEW api \in env.apis, NEW p \in env.opening, NEW tools \in BOOLEAN,
         Open(api, p, tools)
  PROVE  Typed'
<1>1. api \in Api /\ p \in Text \ {<<>>} /\ jobs + 1 \in Nat /\ <<>> \in Text
  BY Setting DEF Typed, Text
<1>2. QED
  BY <1>1, TypedRequest DEF Open, Req

LEMMA TypedFollow ==
  ASSUME Typed, NEW a \in answers, NEW x \in env.say, NEW whole \in BOOLEAN,
         NEW tools \in BOOLEAN, Follow(a, x, whole, tools)
  PROVE  Typed'
<1>1. a.api \in Api /\ a.text \in Text /\ a.id \in Nat \cup {None} /\ <<x>> \in Text
      /\ jobs + 1 \in Nat
  BY Setting DEF Typed, Answer
<1>2. \A t \in Text : t \o <<x>> \in Text /\ t \o <<x>> # <<>>
  BY <1>1 DEF Text
<1>3. \A t \in Replays(a.text) : t \in Text
  BY <1>1, AgreedTexts DEF Replays
<1>4. PICK text \in Replays(a.text) :
        NewRequest([api |-> a.api, prompt |-> text \o <<x>>, whole |-> whole,
                    id |-> IF a.api = "chat" THEN None ELSE a.id,
                    suffix |-> <<x>>, tools |-> tools, no |-> jobs + 1])
  BY DEF Follow
<1>5. [api |-> a.api, prompt |-> text \o <<x>>, whole |-> whole,
       id |-> IF a.api = "chat" THEN None ELSE a.id,
       suffix |-> <<x>>, tools |-> tools, no |-> jobs + 1] \in Req
  BY <1>1, <1>2, <1>3 DEF Req
<1>6. QED
  BY <1>4, <1>5, TypedRequest

\* What follows the visible text of a binding, or the call, is put after the
\* live tokens.
LEMMA TypedEffective ==
  ASSUME Typed, NEW r \in Req, r = queued
  PROVE  Effective(r, Source(r)) \in Text
<1> DEFINE s == Source(r)
<1>1. /\ session.toks \in Text /\ r.prompt \in Text /\ r.suffix \in Text
      /\ Rendered(r) \in Text
  BY DEF Typed, Req, Rendered
<1>2. \A b \in Binding : b.visible \in Text /\ Len(b.visible) \in Nat
  BY DEF Binding, Text
<1>3. s = "visible" => responses \in Binding
  BY DEF Source, SeesPrefix, Typed
<1>4. s = "thinking" => thinking \in Binding
  BY DEF Source, SeesPrefix, Typed
<1> HIDE DEF s
<1>5. CASE s = "visible"
  <2>1. From(Rendered(r), Len(responses.visible)) \in Text
    BY <1>1, <1>2, <1>3, <1>5, Parts
  <2>2. QED
    BY <1>1, <1>5, <2>1, AgreedTexts DEF Effective, s
<1>6. CASE s = "thinking"
  <2>1. From(r.prompt, Len(thinking.visible)) \in Text
    BY <1>1, <1>2, <1>4, <1>6, Parts
  <2>2. QED
    BY <1>1, <1>6, <2>1, AgreedTexts DEF Effective, s
<1>7. CASE s \in {"call", "anthropic call"}
  BY <1>1, <1>7, AgreedTexts DEF Effective, s
<1>8. CASE s \notin {"visible", "thinking", "call", "anthropic call"}
  <2>1. Effective(r, s) = r.prompt
    BY <1>8 DEF Effective
  <2>2. QED
    BY <1>1, <2>1 DEF s
<1>9. QED
  BY <1>5, <1>6, <1>7, <1>8

LEMMA TypedStart ==
  ASSUME Typed, Start
  PROVE  Typed'
<1> DEFINE s == Source(queued)
           e == Effective(queued, s)
<1>1. queued \in Req
  BY DEF Typed, Start
<1>2. e \in Text
  BY <1>1, TypedEffective
<1>3. queued.prompt \in Text /\ queued.prompt # <<>>
  BY <1>1 DEF Req
<1>4. Front(queued.prompt) \in Text
  BY <1>3, Parts
<1>5. job' = [req |-> queued, source |-> s, eff |-> e, file |-> None]
  BY DEF Start
<1>6. session' \in [toks : Text, valid : BOOLEAN]
  BY <1>4 DEF Start, Typed
<1>7. pc' \in {"miss", "prefill"}
  BY DEF Start
<1>8. queued' = None /\ UNCHANGED <<bindings, disk, answers, counts>>
  BY DEF Start
<1> HIDE DEF s, e
<1>9. /\ job' = [req |-> job'.req, source |-> job'.source, eff |-> job'.eff, file |-> job'.file]
      /\ job'.req \in Req /\ job'.eff \in Text
  BY <1>1, <1>2, <1>5
<1>10. QED
  BY <1>6, <1>7, <1>8, <1>9 DEF Typed, bindings, counts

LEMMA TypedStoreCurrent ==
  ASSUME Typed, StoreCurrent
  PROVE  Typed'
<1>1. IsJob(job) /\ job.req \in Req /\ job.eff \in Text
  BY DEF Typed, StoreCurrent, IsJob
<1>2. job' = [req |-> job.req, source |-> job.source, eff |-> job.eff, file |-> "stored"]
  BY <1>1, JobFields DEF StoreCurrent
<1>3. session.toks \in Text /\ Disks(disk)
  BY DEF Typed, Disks
<1>4. Pos > 0 => CurrentKey \in Text
  BY <1>3 DEF CurrentKey, Typed, Binding, Text
<1>5. Disks(disk')
  <2>1. CASE Pos > 0 /\ session.valid
    <3>1. PICK d \in Shrink(disk) : disk' \in {d, Store(d, CurrentKey, session.toks)}
      BY <2>1 DEF StoreCurrent
    <3>2. QED
      BY <1>3, <1>4, <2>1, <3>1, StoreType
  <2>2. CASE ~(Pos > 0 /\ session.valid)
    BY <1>3, <2>2 DEF StoreCurrent
  <2>3. QED
    BY <2>1, <2>2
<1>6. pc' = pc /\ pc = "miss" /\ UNCHANGED <<session, bindings, answers, queued, counts>>
  BY DEF StoreCurrent
<1>7. job'.req = job.req /\ job'.eff = job.eff /\ IsJob(job')
  BY <1>2 DEF IsJob
<1>8. QED
  BY <1>1, <1>5, <1>6, <1>7 DEF Typed, bindings, counts, Disks, IsJob

LEMMA TypedLoadDisk ==
  ASSUME Typed, LoadDisk
  PROVE  Typed'
<1>1. IsJob(job) /\ job.req \in Req /\ job.eff \in Text /\ job.req.prompt \in Text
  BY DEF Typed, LoadDisk, IsJob, Req
<1>2. Disks(disk)
  BY DEF Typed, Disks
<1>3. pc' = "prefill" /\ UNCHANGED <<bindings, disk, answers, queued, counts>>
  BY DEF LoadDisk
<1> DEFINE kept == job' = [job EXCEPT !.file = None]
<1>4. kept => IsJob(job') /\ job'.req = job.req /\ job'.eff = job.eff
  <2>1. kept =>
          job' = [req |-> job.req, source |-> job.source, eff |-> job.eff, file |-> None]
    BY <1>1, JobFields
  <2>2. QED
    BY <2>1 DEF IsJob
<1>5. <<>> \in Text
  BY DEF Text
<1>6. /\ session' \in [toks : Text, valid : BOOLEAN]
      /\ IsJob(job') /\ job'.req = job.req /\ job'.eff \in Text
  <2>1. CASE Hits(job.req.prompt) = {}
    BY <1>1, <1>4, <2>1 DEF LoadDisk, Typed
  <2>2. CASE Hits(job.req.prompt) # {}
    <3> DEFINE k == Best(job.req.prompt)
    <3>1. k \in Hits(job.req.prompt)
      BY <1>1, <1>2, <2>2, BestIsHit DEF Disks
    <3>2. k \in DOMAIN disk /\ k \in Text /\ disk[k] \in Text /\ Len(k) \in Nat
      BY <1>2, <3>1 DEF Hits, Disks, Text
    <3> HIDE DEF k
    <3>3. disk[k] \o From(job.req.prompt, Len(k)) \in Text
      BY <1>1, <3>2, Parts, AgreedTexts
    <3>4. CASE /\ session' = [toks |-> disk[k], valid |-> TRUE]
               /\ job' = [req |-> job.req, source |-> "disk", file |-> k,
                          eff |-> disk[k] \o From(job.req.prompt, Len(k))]
      BY <3>2, <3>3, <3>4 DEF IsJob
    <3>5. CASE session' = [toks |-> <<>>, valid |-> FALSE] /\ kept
      BY <1>1, <1>4, <1>5, <3>5
    <3>6. QED
      BY <2>2, <3>4, <3>5 DEF LoadDisk, k
  <2>3. QED
    BY <2>1, <2>2
<1>7. QED
  BY <1>1, <1>3, <1>6 DEF Typed, bindings, counts, IsJob

\* Where a job ends, only the session, the disk, the bindings and the answers
\* may be other than before.
LEMMA TypedEnd ==
  ASSUME Typed, EndJob, UNCHANGED <<queued, counts>>,
         session' \in [toks : Text, valid : BOOLEAN], Disks(disk'),
         ClearAll \/ UNCHANGED bindings, answers' \subseteq Answer
  PROVE  Typed'
  BY DEF Typed, EndJob, ClearAll, bindings, counts, Disks

LEMMA TypedPrefilled ==
  ASSUME Typed, Prefilled
  PROVE  Typed'
<1>1. job.eff \in Text /\ session.toks \in Text /\ Disks(disk)
  BY DEF Typed, Prefilled, Disks
<1>2. Disks(disk')
  BY <1>1, OnTheWayType DEF Prefilled
<1>3. session' \in [toks : Text, valid : BOOLEAN]
  BY <1>1 DEF Prefilled
<1>4. /\ responses' \in {responses, None} /\ anthropic' \in {anthropic, None}
      /\ thinking' \in {thinking, None}
  BY DEF Prefilled, ForgetOthers
<1>5. pc = "prefill" /\ pc' = "decode" /\ UNCHANGED <<answers, queued, job, counts>>
  BY DEF Prefilled
<1>6. QED
  BY <1>2, <1>3, <1>4, <1>5 DEF Typed, counts, Disks

LEMMA TypedStops ==
  ASSUME Typed, pc = "prefill", NEW f \in Frontiers(job.eff), NEW v \in BOOLEAN,
         StopsAt(f, v)
  PROVE  session' \in [toks : Text, valid : BOOLEAN] /\ Disks(disk')
<1>1. job.eff \in Text /\ session.toks \in Text /\ Disks(disk)
  BY DEF Typed, Disks
<1>2. f \in Text
  BY <1>1, OnTheWayType
<1>3. PICK d \in StoredOnTheWay(f) :
        IF job.source = "disk"
        THEN /\ session' = [toks |-> <<>>, valid |-> FALSE]
             /\ disk' = Restrict(d, DOMAIN d \ {job.file})
        ELSE /\ session' = [toks |-> f, valid |-> v /\ f # <<>>]
             /\ disk' = d
  BY DEF StopsAt
<1>4. Disks(d)
  BY <1>1, <1>2, <1>3, OnTheWayType
<1>5. Restrict(d, DOMAIN d \ {job.file}) \in Shrink(d)
  BY DEF Shrink
<1>6. <<>> \in Text
  BY DEF Text
<1> DEFINE u == v /\ f # <<>>
<1>7. u \in BOOLEAN
  OBVIOUS
<1> HIDE DEF u
<1>8. CASE job.source = "disk"
  <2>1. session' = [toks |-> <<>>, valid |-> FALSE]
    BY <1>3, <1>8
  <2>2. disk' = Restrict(d, DOMAIN d \ {job.file})
    BY <1>3, <1>8
  <2>3. Disks(disk')
    BY <1>4, <1>5, <2>2, StoreType
  <2>4. QED
    BY <1>6, <2>1, <2>3
<1>9. CASE job.source # "disk"
  <2>1. session' = [toks |-> f, valid |-> u] /\ disk' = d
    BY <1>3, <1>9 DEF u
  <2>2. QED
    BY <1>2, <1>4, <1>7, <2>1
<1>10. QED
  BY <1>8, <1>9

LEMMA TypedPrefillEnds ==
  ASSUME Typed, PrefillFails \/ PrefillCancelled
  PROVE  Typed'
<1>1. job.eff \in Text /\ session.toks \in Text /\ Disks(disk) /\ pc = "prefill"
  BY DEF Typed, PrefillFails, PrefillCancelled, Disks
<1>2. session' \in [toks : Text, valid : BOOLEAN] /\ Disks(disk')
  <2>1. CASE \E f \in Frontiers(job.eff) : \E v \in BOOLEAN : StopsAt(f, v)
    BY <1>1, <2>1, TypedStops
  <2>2. CASE session' = [toks |-> job.eff, valid |-> TRUE] /\ disk' \in StoredOnTheWay(job.eff)
    BY <1>1, <2>2, OnTheWayType
  <2>3. QED
    BY <2>1, <2>2 DEF PrefillFails, PrefillCancelled
<1>3. /\ EndJob /\ UNCHANGED <<answers, queued, counts>>
      /\ ClearAll \/ UNCHANGED bindings
  BY DEF PrefillFails, PrefillCancelled
<1>4. answers' \subseteq Answer
  BY <1>3 DEF Typed
<1>5. QED
  BY <1>2, <1>3, <1>4, TypedEnd

LEMMA TypedGenerate ==
  ASSUME Typed, NEW x \in env.say, NEW call \in BOOLEAN, NEW g \in Sampled(x, call),
         Generate(g, call)
  PROVE  Typed'
<1>1. IsJob(job) /\ job.req \in Req /\ job.eff \in Text /\ session.toks \in Text
  BY DEF Typed, Generate, IsJob
<1>2. g \in Text
  BY Setting, SampledType DEF Typed
<1>3. job' = [req |-> job.req, source |-> job.source, eff |-> job.eff,
              file |-> [said |-> g, call |-> call]]
  BY <1>1, JobFields DEF Generate
<1>4. session.toks \o g \in Text
  BY <1>1, <1>2, AgreedTexts
<1>5. session' \in [toks : Text, valid : BOOLEAN]
  BY <1>4 DEF Generate, Typed
<1>6. pc' = "publish" /\ UNCHANGED <<bindings, disk, answers, queued, counts>>
  BY DEF Generate
<1>7. /\ IsJob(job') /\ job'.req = job.req /\ job'.eff = job.eff
      /\ job'.file \in [said : Text, call : BOOLEAN]
  BY <1>2, <1>3 DEF IsJob
<1>8. QED
  BY <1>1, <1>5, <1>6, <1>7 DEF Typed, bindings, counts, IsJob

LEMMA TypedStopSequence ==
  ASSUME Typed, NEW x \in env.say, StopSequence(x)
  PROVE  Typed'
<1>1. IsJob(job) /\ job.req \in Req /\ job.eff \in Text
  BY DEF Typed, StopSequence, IsJob
<1>2. <<x>> \in Text /\ <<>> \in Text
  <2>1. <<x>> \in Text
    BY Setting DEF Typed
  <2>2. <<>> \in Text
    BY DEF Text
  <2>3. QED
    BY <2>1, <2>2
<1>3. job' = [req |-> job.req, source |-> job.source, eff |-> job.eff,
              file |-> [said |-> <<x>>, call |-> FALSE]]
  BY <1>1, JobFields DEF StopSequence
<1>4. session' \in [toks : Text, valid : BOOLEAN]
  BY <1>2 DEF StopSequence
<1>5. pc' = "publish" /\ UNCHANGED <<bindings, disk, answers, queued, counts>>
  BY DEF StopSequence
<1>6. /\ IsJob(job') /\ job'.req = job.req /\ job'.eff = job.eff
      /\ job'.file \in [said : Text, call : BOOLEAN]
  BY <1>2, <1>3 DEF IsJob
<1>7. QED
  BY <1>1, <1>4, <1>5, <1>6 DEF Typed, bindings, counts, IsJob

LEMMA TypedTruncated ==
  ASSUME Typed, NEW x \in env.say, Truncated(x)
  PROVE  Typed'
<1>1. /\ job.req.api \in Api /\ job.req.prompt \in Text /\ session.toks \in Text
      /\ x \in Token /\ Disks(disk)
  BY Setting DEF Typed, Truncated, Req, Disks
<1>2. Append(session.toks, x) \in Text /\ Append(job.req.prompt, x) \in Text
  BY <1>1 DEF Text
<1>3. session' \in [toks : Text, valid : BOOLEAN]
  BY <1>2 DEF Truncated, Typed
<1>4. answers' \subseteq Answer
  <2>1. [api |-> job.req.api, text |-> Append(job.req.prompt, x), id |-> None] \in Answer
    BY <1>1, <1>2 DEF Answer
  <2>2. QED
    BY <2>1 DEF Truncated, Typed
<1>5. EndJob /\ ClearAll /\ UNCHANGED <<disk, queued, counts>>
  BY DEF Truncated
<1>6. QED
  BY <1>1, <1>3, <1>4, <1>5, TypedEnd DEF Disks

LEMMA TypedCancelled ==
  ASSUME Typed, CancelledInDecode
  PROVE  Typed'
<1>1. EndJob /\ ClearAll /\ UNCHANGED <<session, disk, answers, queued, counts>>
  BY DEF CancelledInDecode
<1>2. session' \in [toks : Text, valid : BOOLEAN] /\ Disks(disk') /\ answers' \subseteq Answer
  BY <1>1 DEF Typed, Disks
<1>3. QED
  BY <1>1, <1>2, TypedEnd

\* The transcript and the canonical form of an answer are the prompt and what
\* was said, as far as both sides agree.
LEMMA Transcripts ==
  ASSUME NEW j, j = job, job.req \in Req, job.file \in [said : Text, call : BOOLEAN]
  PROVE  /\ Transcript \in Text /\ Transcript # <<>>
         /\ Agreed(Transcript) = Agreed(job.req.prompt) \o Agreed(job.file.said)
         /\ CanonicalForm(job.file.call) \in Text
         /\ CanonicalForm(job.file.call) # <<>> =>
              /\ job.file.call /\ job.req.api # "responses"
              /\ Agreed(CanonicalForm(job.file.call))
                   = Agreed(job.req.prompt) \o Agreed(job.file.said)
<1> DEFINE p == job.req.prompt
           g == job.file.said
           v == Visible(g)
           w == IF env.exact THEN v ELSE Agreed(v)
           c == Canonical(g)
<1>1. p \in Text /\ p # <<>> /\ g \in Text
  BY DEF Req
<1>2. v \in Text /\ Agreed(v) = Agreed(g) /\ c \in Text /\ Agreed(c) = Agreed(g)
  BY <1>1, AgreedTexts
<1>3. w \in Text /\ Agreed(w) = Agreed(g)
  <2> HIDE DEF v
  <2>1. Agreed(v) \in Text /\ Agreed(Agreed(v)) = Agreed(v)
    BY <1>2, AgreedTexts
  <2>2. QED
    BY <1>2, <2>1
<1>4. Transcript = p \o w
  BY DEF Transcript
<1>5. CanonicalForm(job.file.call) =
        IF job.file.call /\ job.req.api # "responses" /\ ~env.exact THEN p \o c ELSE <<>>
  BY DEF CanonicalForm
<1> HIDE DEF p, w, c
<1>6. p \o w \in Text /\ p \o w # <<>> /\ Agreed(p \o w) = Agreed(p) \o Agreed(w)
  <2>1. p \o w # <<>>
    BY <1>1, <1>3 DEF Text
  <2>2. QED
    BY <1>1, <1>3, <2>1, AgreedTexts
<1>7. p \o c \in Text /\ Agreed(p \o c) = Agreed(p) \o Agreed(c)
  BY <1>1, <1>2, AgreedTexts
<1>8. <<>> \in Text
  BY DEF Text
<1>9. QED
  BY <1>2, <1>3, <1>4, <1>5, <1>6, <1>7, <1>8 DEF p

LEMMA RememberType ==
  ASSUME session.toks \in Text, NEW v \in Text, NEW id \in Nat \cup {None}
  PROVE  Remember(v, id) \in Binding
<1>1. Pos \in Nat
  BY DEF Pos, Text
<1>2. QED
  BY <1>1 DEF Remember, Binding, Text

LEMMA TypedPublish ==
  ASSUME Typed, Publish
  PROVE  Typed'
<1> DEFINE call == job.file.call
           id == IF call THEN job.req.no ELSE None
           f == [text |-> Transcript, id |-> id, canonical |-> CanonicalForm(call)]
<1>1. /\ IsJob(job) /\ job.req \in Req /\ job.eff \in Text /\ session.toks \in Text
      /\ job.file \in [said : Text, call : BOOLEAN]
  BY DEF Typed, Publish, IsJob
<1>2. id \in Nat \cup {None}
  BY <1>1 DEF Req
<1>3. Transcript \in Text /\ CanonicalForm(call) \in Text
  BY <1>1, Transcripts
<1>4. job' = [req |-> job.req, source |-> job.source, eff |-> job.eff, file |-> f]
  <2>1. job' = [job EXCEPT !.file = f]
    BY DEF Publish
  <2> HIDE DEF f
  <2>2. QED
    BY <1>1, <2>1, JobFields
<1>5. <<>> \in Text
  BY DEF Text
<1>6. /\ Remember(Transcript, id) \in Binding /\ Remember(<<>>, id) \in Binding
      /\ Remember(Transcript, None) \in Binding
  <2> HIDE DEF id
  <2>1. QED
    BY <1>1, <1>2, <1>3, <1>5, RememberType
<1>7. /\ responses' \in {Remember(Transcript, id), responses}
      /\ anthropic' \in {Remember(<<>>, id), None, anthropic}
      /\ thinking' \in {Remember(Transcript, None), None}
  BY DEF Publish
<1>8. /\ responses' \in Binding \cup {None} /\ anthropic' \in Binding \cup {None}
      /\ thinking' \in Binding \cup {None}
  <2> HIDE DEF id
  <2>1. QED
    BY <1>6, <1>7 DEF Typed
<1>9. pc' = "send" /\ UNCHANGED <<session, disk, answers, queued, counts>>
  BY DEF Publish
<1>10. f \in [text : Text, id : Nat \cup {None}, canonical : Text]
  BY <1>2, <1>3
<1> HIDE DEF f
<1>11. IsJob(job') /\ job'.req = job.req /\ job'.eff = job.eff /\ job'.file = f
  BY <1>4 DEF IsJob
<1>12. QED
  BY <1>1, <1>8, <1>9, <1>10, <1>11 DEF Typed, counts, IsJob

LEMMA CanonicalDone ==
  ASSUME NEW j, IsJob(j), j.file \in [text : Text, id : Nat \cup {None}, canonical : Text]
  PROVE  [j EXCEPT !.file.canonical = <<>>]
           = [req |-> j.req, source |-> j.source, eff |-> j.eff,
              file |-> [text |-> j.file.text, id |-> j.file.id, canonical |-> <<>>]]
<1>1. PICK a, b, c, d :
        j = [req |-> a, source |-> b, eff |-> c, file |-> d]
  BY DEF IsJob
<1>2. PICK t, i, k : d = [text |-> t, id |-> i, canonical |-> k]
  BY <1>1
<1>3. /\ j.req = a /\ j.source = b /\ j.eff = c /\ j.file = d
      /\ j.file.text = t /\ j.file.id = i
  BY <1>1, <1>2
<1>4. [j EXCEPT !.file.canonical = <<>>]
        = [req |-> a, source |-> b, eff |-> c, file |-> [d EXCEPT !.canonical = <<>>]]
  BY <1>1
<1>5. [d EXCEPT !.canonical = <<>>] = [text |-> t, id |-> i, canonical |-> <<>>]
  BY <1>2
<1>6. QED
  BY <1>3, <1>4, <1>5

\* The texts a session is rebuilt to: the canonical one, or a checkpoint and
\* what follows it.
Rebuilt(c) ==
  {c} \cup {disk[k] \o From(c, Len(k)) : k \in {Best(c)} \cap Hits(c)}

LEMMA RebuiltType ==
  ASSUME NEW c \in Text, Disks(disk), NEW eff \in Rebuilt(c)
  PROVE  eff \in Text
<1>1. CASE eff = c
  BY <1>1
<1>2. CASE eff # c
  <2>1. PICK k \in Hits(c) : eff = disk[k] \o From(c, Len(k))
    BY <1>2 DEF Rebuilt
  <2>2. disk[k] \in Text /\ k \in Text /\ Len(k) \in Nat
    BY <2>1 DEF Hits, Disks, Text
  <2>3. From(c, Len(k)) \in Text
    BY <2>2, Parts
  <2>4. QED
    BY <2>1, <2>2, <2>3, AgreedTexts
<1>3. QED
  BY <1>1, <1>2

LEMMA CanonicalizeStep ==
  ASSUME Typed, Canonicalize
  PROVE  \E eff \in Rebuilt(job.file.canonical) :
           \/ session' = [toks |-> eff, valid |-> TRUE] /\ UNCHANGED broken
           \/ /\ \E n \in 0 .. Len(eff) - 1, v \in BOOLEAN :
                   session' = [toks |-> SubSeq(eff, 1, n), valid |-> v /\ n > 0]
              /\ broken' = TRUE
  BY DEF Canonicalize, Rebuilt

LEMMA TypedCanonicalize ==
  ASSUME Typed, Canonicalize
  PROVE  Typed'
<1> DEFINE c == job.file.canonical
           f == [text |-> job.file.text, id |-> job.file.id, canonical |-> <<>>]
<1>1. /\ IsJob(job) /\ job.req \in Req /\ job.eff \in Text
      /\ job.file \in [text : Text, id : Nat \cup {None}, canonical : Text]
      /\ Disks(disk)
  BY DEF Typed, Canonicalize, IsJob, Disks
<1>2. job' = [req |-> job.req, source |-> job.source, eff |-> job.eff, file |-> f]
  BY <1>1, CanonicalDone DEF Canonicalize
<1>3. <<>> \in Text
  BY DEF Text
<1>4. f \in [text : Text, id : Nat \cup {None}, canonical : Text]
  BY <1>1, <1>3
<1>5. c \in Text
  BY <1>1
<1>6. session' \in [toks : Text, valid : BOOLEAN]
  <2>1. PICK eff \in Rebuilt(c) :
           \/ session' = [toks |-> eff, valid |-> TRUE]
           \/ \E n \in 0 .. Len(eff) - 1, v \in BOOLEAN :
                session' = [toks |-> SubSeq(eff, 1, n), valid |-> v /\ n > 0]
    BY CanonicalizeStep
  <2>2. eff \in Text /\ Len(eff) \in Nat
    <3>1. eff \in Text
      BY <1>1, <1>5, RebuiltType
    <3>2. QED
      BY <3>1 DEF Text
  <2>3. ASSUME NEW n \in 0 .. Len(eff) - 1, NEW v \in BOOLEAN,
               session' = [toks |-> SubSeq(eff, 1, n), valid |-> v /\ n > 0]
        PROVE  session' \in [toks : Text, valid : BOOLEAN]
    <3>1. SubSeq(eff, 1, n) \in Text
      BY <2>2, Parts
    <3> DEFINE u == v /\ n > 0
    <3>2. u \in BOOLEAN
      OBVIOUS
    <3>3. session' = [toks |-> SubSeq(eff, 1, n), valid |-> u]
      BY <2>3
    <3> HIDE DEF u
    <3>4. QED
      BY <3>1, <3>2, <3>3
  <2>4. CASE session' = [toks |-> eff, valid |-> TRUE]
    BY <2>2, <2>4
  <2>5. QED
    BY <2>1, <2>3, <2>4
<1>7. pc' = pc /\ pc = "send" /\ UNCHANGED <<bindings, disk, answers, queued, counts>>
  BY DEF Canonicalize
<1> HIDE DEF f
<1>8. IsJob(job') /\ job'.req = job.req /\ job'.eff = job.eff /\ job'.file = f
  BY <1>2 DEF IsJob
<1>9. QED
  BY <1>1, <1>4, <1>6, <1>7, <1>8 DEF Typed, bindings, counts, IsJob

LEMMA TypedSend ==
  ASSUME Typed, Send
  PROVE  Typed'
<1>1. /\ job.req.api \in Api /\ job.file.text \in Text
      /\ job.file.id \in Nat \cup {None}
  BY DEF Typed, Send, Req
<1>2. [api |-> job.req.api, text |-> job.file.text, id |-> job.file.id] \in Answer
  BY <1>1 DEF Answer
<1>3. answers' \subseteq Answer
  BY <1>2 DEF Send, Typed
<1>4. /\ EndJob /\ UNCHANGED <<session, disk, queued, counts>>
      /\ ClearAll \/ UNCHANGED bindings
  BY DEF Send
<1>5. session' \in [toks : Text, valid : BOOLEAN] /\ Disks(disk')
  BY <1>4 DEF Typed, Disks
<1>6. QED
  BY <1>3, <1>4, <1>5, TypedEnd

LEMMA TypedInit ==
  ASSUME BindingInit
  PROVE  Typed
<1>1. <<>> \in Text /\ DOMAIN <<>> = {}
  BY DEF Text
<1>2. session \in [toks : Text, valid : BOOLEAN]
  BY <1>1 DEF BindingInit
<1>3. disk = <<>> /\ DOMAIN disk = {}
  BY DEF BindingInit
<1>4. QED
  BY <1>2, <1>3 DEF BindingInit, Typed

LEMMA TypedStep ==
  ASSUME Typed, [BindingNext]_vars
  PROVE  Typed'
<1>1. CASE UNCHANGED vars
  BY <1>1 DEF Typed, vars, bindings, counts
<1>2. ASSUME NEW api \in env.apis, NEW p \in env.opening, NEW tools \in BOOLEAN,
             Open(api, p, tools)
      PROVE  Typed'
  BY <1>2, TypedOpen
<1>3. ASSUME NEW a \in answers, NEW x \in env.say, NEW whole \in BOOLEAN,
             NEW tools \in BOOLEAN, Follow(a, x, whole, tools)
      PROVE  Typed'
  BY <1>3, TypedFollow
<1>4. CASE Refuse
  BY <1>4 DEF Refuse, Typed, bindings, counts
<1>5. CASE Start
  BY <1>5, TypedStart
<1>6. CASE StoreCurrent
  BY <1>6, TypedStoreCurrent
<1>7. CASE LoadDisk
  BY <1>7, TypedLoadDisk
<1>8. CASE Prefilled
  BY <1>8, TypedPrefilled
<1>9. CASE PrefillFails \/ PrefillCancelled
  BY <1>9, TypedPrefillEnds
<1>10. ASSUME NEW x \in env.say, NEW call \in BOOLEAN, NEW g \in Sampled(x, call),
              Generate(g, call)
       PROVE  Typed'
  BY <1>10, TypedGenerate
<1>11. ASSUME NEW x \in env.say, StopSequence(x) \/ Truncated(x)
       PROVE  Typed'
  BY <1>11, TypedStopSequence, TypedTruncated
<1>12. CASE CancelledInDecode
  BY <1>12, TypedCancelled
<1>13. CASE Publish
  BY <1>13, TypedPublish
<1>14. CASE Canonicalize
  BY <1>14, TypedCanonicalize
<1>15. CASE Send
  BY <1>15, TypedSend
<1>16. QED
  BY <1>1, <1>2, <1>3, <1>4, <1>5, <1>6, <1>7, <1>8, <1>9, <1>10, <1>11, <1>12, <1>13,
     <1>14, <1>15 DEF BindingNext, Answering

(***************************************************************************)
(* What the slot keeps (LiveInv). The two properties follow from an        *)
(* agreement of all the places that hold a conversation: the session, its  *)
(* bindings, the checkpoints on disk, the answers with the clients and the *)
(* requests they send next. That the agreement is of texts without         *)
(* reasoning and without the spelling of tool calls is what AgreedTexts is *)
(* about.                                                                  *)
(***************************************************************************)

\* Frames: what a step leaves, holds after it as before.
LEMMA NumberedFrame ==
  ASSUME Numbered, UNCHANGED <<answers, queued, jobs>>, Live' \subseteq Live,
         pc' # "idle" => pc # "idle" /\ job'.req = job.req
  PROVE  Numbered'
<1>1. queued' # None => queued'.no <= jobs'
  BY DEF Numbered
<1>2. pc' # "idle" => job'.req.no <= jobs' /\ (queued' # None => job'.req.no < queued'.no)
  BY DEF Numbered
<1>3. ASSUME NEW a \in answers', a.id # None
      PROVE  /\ a.id <= jobs'
             /\ queued' # None => a.id < queued'.no
             /\ pc' # "idle" => a.id < job'.req.no
             /\ \A b \in Live' : b.id = a.id => Agreed(b.of) = Agreed(a.text)
  BY <1>3 DEF Numbered
<1>4. QED
  BY <1>1, <1>2, <1>3 DEF Numbered

LEMMA RecalledFrame ==
  ASSUME NEW r, Recalled(r), answers \subseteq answers'
  PROVE  Recalled(r)'
  BY DEF Recalled

LEMMA QueuedFrame ==
  ASSUME queued # None => Recalled(queued), queued' \in {queued, None},
         answers \subseteq answers'
  PROVE  (queued # None => Recalled(queued))'
<1>1. CASE queued' = None
  BY <1>1
<1>2. CASE queued' = queued /\ queued # None
  BY <1>2 DEF Recalled
<1>3. QED
  BY <1>1, <1>2

LEMMA LiveShrinks ==
  ASSUME responses' \in {responses, None}, anthropic' \in {anthropic, None},
         thinking' \in {thinking, None}
  PROVE  Live' \subseteq Live
  BY DEF Live

LEMMA FiledTexts ==
  /\ \A d, e : Filed(d) /\ e \in Shrink(d) => Filed(e)
  /\ \A d, key, toks :
       Filed(d) /\ Agreed(toks) = Agreed(key) => Filed(Store(d, key, toks))
<1>1. ASSUME NEW d, NEW e, Filed(d), e \in Shrink(d) PROVE Filed(e)
  <2>1. PICK S \in SUBSET DOMAIN d : e = [x \in S |-> d[x]]
    BY <1>1 DEF Shrink, Restrict
  <2>2. QED
    BY <1>1, <2>1 DEF Filed
<1>2. ASSUME NEW d, NEW key, NEW toks, Filed(d), Agreed(toks) = Agreed(key)
      PROVE  Filed(Store(d, key, toks))
  BY <1>2 DEF Filed, Store
<1>3. QED
  BY <1>1, <1>2

LEMMA OnTheWayFiled ==
  ASSUME NEW eff, Filed(disk)
  PROVE  \A d \in StoredOnTheWay(eff) : Filed(d)
  BY FiledTexts DEF StoredOnTheWay

LEMMA SlotFrame ==
  ASSUME LiveFollow, Serves, UNCHANGED <<session, bindings, job, pc>>
  PROVE  LiveFollow' /\ Serves'
<1>1. Live' = Live /\ Pos' = Pos
  BY DEF Live, Pos, bindings
<1>2. \A b \in Live : Follows(b) => Follows(b)'
  BY <1>1 DEF Follows
<1>3. LiveFollow'
  BY <1>1, <1>2 DEF LiveFollow, bindings
<1>4. Serves'
  BY <1>1 DEF Serves
<1>5. QED
  BY <1>3, <1>4

LEMMA AgreeRequest ==
  ASSUME Typed, Agree, NEW r \in Req, NewRequest(r), r.no = jobs + 1, Recalled(r)
  PROVE  Agree'
<1>1. /\ queued = None /\ queued' = r /\ jobs' = r.no /\ jobs \in Nat
      /\ UNCHANGED <<session, bindings, disk, answers, job, pc>>
  BY DEF NewRequest, Typed, counts
<1>2. KeysAgree'
  BY <1>1 DEF Agree, KeysAgree
<1>3. Numbered'
  <2>1. Live' = Live
    BY <1>1 DEF Live, bindings
  <2>2. pc # "idle" => job.req.no \in Nat
    BY DEF Typed, Req
  <2>3. \A a \in answers : a.id # None => a.id \in Nat
    BY DEF Typed, Answer
  <2>4. r.no <= jobs' /\ jobs <= jobs' /\ jobs < r.no /\ r.no \in Nat
    BY <1>1
  <2>5. Numbered
    BY DEF Agree
  <2>6. pc' # "idle" => job'.req.no <= jobs' /\ (queued' # None => job'.req.no < queued'.no)
    BY <1>1, <2>2, <2>4, <2>5 DEF Numbered
  <2>7. ASSUME NEW a \in answers', a.id # None
        PROVE  /\ a.id <= jobs'
               /\ queued' # None => a.id < queued'.no
               /\ pc' # "idle" => a.id < job'.req.no
               /\ \A b \in Live' : b.id = a.id => Agreed(b.of) = Agreed(a.text)
    <3>1. a.id \in Nat /\ a.id <= jobs
      BY <1>1, <2>3, <2>5, <2>7 DEF Numbered
    <3>2. a.id <= jobs' /\ a.id < r.no
      BY <1>1, <2>4, <3>1
    <3>3. /\ pc' # "idle" => a.id < job'.req.no
          /\ \A b \in Live' : b.id = a.id => Agreed(b.of) = Agreed(a.text)
      BY <1>1, <2>1, <2>5, <2>7 DEF Numbered
    <3>4. QED
      BY <1>1, <3>2, <3>3
  <2>8. QED
    BY <1>1, <2>4, <2>6, <2>7 DEF Numbered
<1>4. Recalled(r)'
  BY <1>1, RecalledFrame
<1>5. (queued # None => Recalled(queued))'
  BY <1>1, <1>4 DEF Recalled
<1>6. LiveFollow' /\ Serves'
  BY <1>1, SlotFrame DEF Agree
<1>7. QED
  BY <1>2, <1>3, <1>5, <1>6 DEF Agree

LEMMA AgreeOpen ==
  ASSUME Typed, Agree, NEW api \in env.apis, NEW p \in env.opening, NEW tools \in BOOLEAN,
         Open(api, p, tools)
  PROVE  Agree'
<1> DEFINE r == [api |-> api, prompt |-> p, whole |-> TRUE, id |-> None,
                 suffix |-> <<>>, tools |-> tools, no |-> jobs + 1]
<1>1. api \in Api /\ p \in Text \ {<<>>} /\ jobs + 1 \in Nat /\ <<>> \in Text
  BY Setting DEF Typed, Text
<1>2. r \in Req
  BY <1>1 DEF Req
<1>3. Recalled(r) /\ r.no = jobs + 1
  BY DEF Recalled
<1>4. NewRequest(r)
  BY DEF Open
<1> HIDE DEF r
<1>5. QED
  BY <1>2, <1>3, <1>4, AgreeRequest

LEMMA AgreeFollow ==
  ASSUME Typed, Agree, NEW a \in answers, NEW x \in env.say, NEW whole \in BOOLEAN,
         NEW tools \in BOOLEAN, Follow(a, x, whole, tools)
  PROVE  Agree'
<1>1. a.api \in Api /\ a.text \in Text /\ a.id \in Nat \cup {None} /\ <<x>> \in Text
      /\ jobs + 1 \in Nat
  BY Setting DEF Typed, Answer
<1>2. PICK text \in Replays(a.text) :
        NewRequest([api |-> a.api, prompt |-> text \o <<x>>, whole |-> whole,
                    id |-> IF a.api = "chat" THEN None ELSE a.id,
                    suffix |-> <<x>>, tools |-> tools, no |-> jobs + 1])
  BY DEF Follow
<1>3. text \in Text /\ Agreed(text) = Agreed(a.text)
  BY <1>1, AgreedTexts DEF Replays
<1> DEFINE p == text \o <<x>>
           i == IF a.api = "chat" THEN None ELSE a.id
           r == [api |-> a.api, prompt |-> p, whole |-> whole, id |-> i,
                 suffix |-> <<x>>, tools |-> tools, no |-> jobs + 1]
<1>4. p \in Text /\ p # <<>>
  <2>1. p # <<>>
    BY <1>1, <1>3 DEF Text
  <2>2. QED
    BY <1>1, <1>3, <2>1, AgreedTexts
<1>5. Agreed(p) = Agreed(a.text) \o Agreed(<<x>>)
  <2> DEFINE y == <<x>>
  <2>1. y \in Text /\ p = text \o y
    BY <1>1
  <2> HIDE DEF y, p
  <2>2. Agreed(p) = Agreed(text) \o Agreed(y)
    BY <1>3, <2>1, AgreedTexts
  <2>3. QED
    BY <1>3, <2>2 DEF y
<1>6. i \in {None, a.id} /\ i \in Nat \cup {None} /\ Len(<<x>>) = 1
  BY <1>1
<1> HIDE DEF p, i
<1>7. r \in Req
  BY <1>1, <1>4, <1>6 DEF Req
<1>8. Recalled(r) /\ r.no = jobs + 1
  BY <1>5, <1>6 DEF Recalled
<1>9. NewRequest(r)
  BY <1>2 DEF p, i
<1> HIDE DEF r
<1>10. QED
  BY <1>7, <1>8, <1>9, AgreeRequest

LEMMA AgreeRefuse ==
  ASSUME Typed, Agree, Refuse
  PROVE  Agree'
<1>1. queued' = None /\ UNCHANGED <<session, bindings, disk, answers, job, pc, jobs>>
  BY DEF Refuse, counts
<1>2. KeysAgree'
  BY <1>1 DEF Agree, KeysAgree
<1>3. Live' = Live
  BY <1>1 DEF Live, bindings
<1>4. Numbered'
  BY <1>1, <1>3 DEF Agree, Numbered
<1>5. LiveFollow' /\ Serves'
  BY <1>1, SlotFrame DEF Agree
<1>6. QED
  BY <1>1, <1>2, <1>4, <1>5 DEF Agree


\* Whichever way the session comes to hold it, what is prefilled is the
\* request's own transcript, as far as both sides agree.
LEMMA EffectiveAgrees ==
  ASSUME Typed, Agree, pc = "idle", queued # None, Source(queued) # "refused"
  PROVE  /\ Agreed(Effective(queued, Source(queued))) = Agreed(queued.prompt)
         /\ Source(queued) \in {"visible", "call"} => queued.api = "responses"
         /\ Source(queued) = "anthropic call" => queued.api = "anthropic"
<1> DEFINE r == queued
           s == Source(r)
<1>1. /\ r \in Req /\ session.toks \in Text /\ r.prompt \in Text /\ r.suffix \in Text
      /\ Rendered(r) \in Text
  BY DEF Typed, Req, Rendered
<1>2. \A b \in Binding : b.visible \in Text /\ Len(b.visible) \in Nat
  BY DEF Binding, Text
<1>3. \A b \in Live : Follows(b)
  BY DEF Agree, LiveFollow
<1>4. \A b \in {responses, thinking} : Pos > 0 /\ SeesPrefix(b, r) =>
        /\ b \in Binding /\ b \in Live
        /\ b.visible # <<>> /\ IsStrictPrefix(b.visible, Rendered(r))
        /\ Agreed(b.visible) = Agreed(session.toks)
  <2>1. ASSUME NEW b \in {responses, thinking}, Pos > 0, SeesPrefix(b, r)
        PROVE  /\ b \in Binding /\ b \in Live
               /\ b.visible # <<>> /\ IsStrictPrefix(b.visible, Rendered(r))
               /\ Agreed(b.visible) = Agreed(session.toks)
    <3>1. b # None /\ b \in Live /\ b \in Binding
      BY <2>1 DEF SeesPrefix, Live, Typed
    <3>2. Follows(b)
      BY <1>3, <3>1
    <3>3. QED
      BY <2>1, <3>1, <3>2 DEF SeesPrefix, Follows
  <2>2. QED
    BY <2>1
<1>5. \A b \in {responses, thinking} : Pos > 0 /\ SeesPrefix(b, r) =>
        /\ r.whole
        /\ From(r.prompt, Len(b.visible)) \in Text
        /\ Agreed(session.toks \o From(r.prompt, Len(b.visible))) = Agreed(r.prompt)
  <2>1. ASSUME NEW b \in {responses, thinking}, Pos > 0, SeesPrefix(b, r)
        PROVE  /\ r.whole
               /\ From(r.prompt, Len(b.visible)) \in Text
               /\ Agreed(session.toks \o From(r.prompt, Len(b.visible))) = Agreed(r.prompt)
    <3>1. /\ b.visible \in Text /\ b.visible # <<>>
          /\ IsPrefix(b.visible, Rendered(r)) /\ b.visible # Rendered(r)
          /\ Agreed(b.visible) = Agreed(session.toks)
      BY <1>2, <1>4, <2>1 DEF IsStrictPrefix
    <3>2. r.whole
      <4>1. SUFFICES ASSUME ~r.whole PROVE FALSE
        OBVIOUS
      <4>2. Rendered(r) = r.suffix /\ Len(r.suffix) = 1
        BY <4>1 DEF Rendered, Agree, Recalled
      <4>3. Len(b.visible) = 1 /\ r.suffix \in Text
        BY <1>1, <3>1, <4>2 DEF IsPrefix, Text
      <4>4. b.visible = r.suffix
        <5>1. SubSeq(b.visible, 1, 1) = b.visible /\ SubSeq(r.suffix, 1, 1) = r.suffix
          BY <3>1, <4>2, <4>3 DEF Text
        <5>2. QED
          BY <3>1, <4>2, <4>3, <5>1 DEF IsPrefix
      <4>5. QED
        BY <3>1, <4>2, <4>4
    <3>3. Rendered(r) = r.prompt
      BY <3>2 DEF Rendered
    <3> DEFINE f == From(r.prompt, Len(b.visible))
    <3>4. f \in Text /\ r.prompt = b.visible \o f
      BY <1>1, <3>1, <3>3, PrefixAndRest
    <3> HIDE DEF f
    <3>5. /\ Agreed(r.prompt) = Agreed(b.visible) \o Agreed(f)
          /\ Agreed(session.toks \o f) = Agreed(session.toks) \o Agreed(f)
      BY <1>1, <3>1, <3>4, AgreedTexts
    <3>6. Agreed(session.toks \o f) = Agreed(r.prompt)
      BY <3>1, <3>5
    <3>7. QED
      BY <3>2, <3>4, <3>6 DEF f
  <2>2. QED
    BY <2>1
<1>6. \A api \in {"responses", "anthropic"} : AnswersCall(api, r) =>
        Agreed(session.toks \o r.suffix) = Agreed(r.prompt) /\ r.api = api
  <2>1. ASSUME NEW api \in {"responses", "anthropic"}, AnswersCall(api, r)
        PROVE  Agreed(session.toks \o r.suffix) = Agreed(r.prompt) /\ r.api = api
    <3> DEFINE b == Bound(api)
    <3>1. r.api = api /\ r.id # None /\ b # None /\ b.id = r.id
      BY <2>1 DEF AnswersCall, BoundId
    <3>2. b \in Live
      BY <3>1 DEF Bound, Live
    <3> HIDE DEF b
    <3>3. Agreed(b.of) = Agreed(session.toks)
      BY <1>3, <3>2 DEF Follows
    <3>4. PICK a \in answers :
            a.id = r.id /\ Agreed(r.prompt) = Agreed(a.text) \o Agreed(r.suffix)
      BY <3>1 DEF Agree, Recalled
    <3>5. Agreed(b.of) = Agreed(a.text)
      BY <3>1, <3>2, <3>4 DEF Agree, Numbered
    <3>6. Agreed(session.toks \o r.suffix) = Agreed(session.toks) \o Agreed(r.suffix)
      BY <1>1, AgreedTexts
    <3>7. QED
      BY <3>1, <3>3, <3>4, <3>5, <3>6
  <2>2. QED
    BY <2>1
<1>7. /\ s = "visible" => Pos > 0 /\ r.api = "responses" /\ SeesPrefix(responses, r)
      /\ s = "call" => AnswersCall("responses", r)
      /\ s = "anthropic call" => AnswersCall("anthropic", r)
      /\ s = "thinking" => Pos > 0 /\ SeesPrefix(thinking, r)
  BY DEF Source
<1> HIDE DEF s
<1>8. CASE s = "visible"
  <2>1. Rendered(r) = r.prompt
    BY <1>5, <1>7, <1>8 DEF Rendered
  <2>2. Effective(r, s) = session.toks \o From(r.prompt, Len(responses.visible))
    BY <1>8, <2>1 DEF Effective
  <2>3. QED
    BY <1>5, <1>7, <1>8, <2>2 DEF s
<1>9. CASE s = "thinking"
  <2>1. Effective(r, s) = session.toks \o From(r.prompt, Len(thinking.visible))
    BY <1>9 DEF Effective
  <2>2. QED
    BY <1>5, <1>7, <1>9, <2>1 DEF s
<1>10. CASE s \in {"call", "anthropic call"}
  <2>1. Effective(r, s) = session.toks \o r.suffix
    BY <1>10 DEF Effective
  <2>2. QED
    BY <1>6, <1>7, <1>10, <2>1 DEF s
<1>11. CASE s \notin {"visible", "thinking", "call", "anthropic call"}
  <2>1. Effective(r, s) = r.prompt
    BY <1>11 DEF Effective
  <2>2. QED
    BY <1>11, <2>1 DEF s
<1>12. QED
  BY <1>8, <1>9, <1>10, <1>11


LEMMA AgreeStart ==
  ASSUME Typed, Agree, Start
  PROVE  Agree'
<1> DEFINE s == Source(queued)
           e == Effective(queued, s)
<1>1. pc = "idle" /\ queued # None /\ s # "refused"
  BY DEF Start
<1>2. /\ Agreed(e) = Agreed(queued.prompt)
      /\ s \in {"visible", "call"} => queued.api = "responses"
      /\ s = "anthropic call" => queued.api = "anthropic"
  BY <1>1, EffectiveAgrees
<1>3. job' = [req |-> queued, source |-> s, eff |-> e, file |-> None]
  BY DEF Start
<1>4. /\ pc' \in {"miss", "prefill"} /\ queued' = None
      /\ UNCHANGED <<bindings, disk, answers, jobs>>
      /\ pc' = "miss" => session' = session
  BY DEF Start, counts
<1> HIDE DEF s, e
<1>5. job'.req = queued /\ job'.eff = e /\ job'.source = s
  BY <1>3
<1>6. KeysAgree'
  BY <1>4 DEF Agree, KeysAgree
<1>7. Live' = Live
  BY <1>4 DEF Live, bindings
<1>8. Numbered'
  BY <1>1, <1>4, <1>5, <1>7 DEF Agree, Numbered
<1>9. LiveFollow'
  <2>1. pc' = "miss" => \A b \in Live : Follows(b)'
    BY <1>1, <1>4 DEF Agree, LiveFollow, Follows, Pos
  <2>2. thinking' = thinking
    BY <1>4 DEF bindings
  <2>3. pc' \notin {"idle", "send", "decode", "publish"}
    BY <1>4
  <2>4. thinking' # None => thinking'.visible # <<>>
    BY <2>2 DEF Agree, LiveFollow
  <2>5. QED
    BY <1>7, <2>1, <2>3, <2>4 DEF LiveFollow
<1>10. Serves'
  <2>1. pc' \notin {"decode", "publish", "send"}
    BY <1>4
  <2>2. QED
    BY <1>2, <1>5, <2>1 DEF Serves
<1>11. QED
  BY <1>4, <1>6, <1>8, <1>9, <1>10 DEF Agree

LEMMA AgreeStoreCurrent ==
  ASSUME Typed, Agree, StoreCurrent
  PROVE  Agree'
<1>1. IsJob(job)
  BY DEF Typed, StoreCurrent, IsJob
<1>2. job' = [req |-> job.req, source |-> job.source, eff |-> job.eff, file |-> "stored"]
  BY <1>1, JobFields DEF StoreCurrent
<1>3. pc' = pc /\ pc = "miss" /\ UNCHANGED <<session, bindings, answers, queued, jobs>>
  BY DEF StoreCurrent, counts
<1>4. job'.req = job.req /\ job'.eff = job.eff /\ job'.source = job.source
  BY <1>2
<1>5. Pos > 0 => Agreed(CurrentKey) = Agreed(session.toks)
  <2>1. \A b \in Live : Follows(b)
    BY <1>3 DEF Agree, LiveFollow
  <2>2. thinking # None => thinking.visible # <<>>
    BY DEF Agree, LiveFollow
  <2>3. QED
    BY <2>1, <2>2 DEF CurrentKey, Follows, Live
<1>6. KeysAgree'
  <2>1. CASE Pos > 0 /\ session.valid
    <3>1. PICK d \in Shrink(disk) : disk' \in {d, Store(d, CurrentKey, session.toks)}
      BY <2>1 DEF StoreCurrent
    <3>2. Filed(d)
      BY <3>1, FiledTexts DEF Agree, KeysAgree
    <3>3. Filed(Store(d, CurrentKey, session.toks))
      BY <1>5, <2>1, <3>2, FiledTexts
    <3>4. QED
      BY <3>1, <3>2, <3>3 DEF KeysAgree
  <2>2. CASE ~(Pos > 0 /\ session.valid)
    BY <2>2 DEF StoreCurrent, Agree, KeysAgree
  <2>3. QED
    BY <2>1, <2>2
<1>7. Live' = Live /\ Pos' = Pos
  BY <1>3 DEF Live, bindings, Pos
<1>8. Numbered'
  BY <1>3, <1>4, <1>7, NumberedFrame DEF Agree
<1>9. (queued # None => Recalled(queued))'
  BY <1>3, QueuedFrame DEF Agree
<1>10. LiveFollow'
  BY <1>3, <1>7 DEF Agree, LiveFollow, Follows, bindings
<1>11. Serves'
  BY <1>3, <1>4 DEF Agree, Serves
<1>12. QED
  BY <1>6, <1>8, <1>9, <1>10, <1>11 DEF Agree

\* A checkpoint and what follows its text.
LEMMA FromCheckpoint ==
  ASSUME Disks(disk), Filed(disk), NEW p \in Text, NEW k \in Hits(p)
  PROVE  Agreed(disk[k] \o From(p, Len(k))) = Agreed(p)
<1> DEFINE f == From(p, Len(k))
<1>1. k \in DOMAIN disk /\ k \in Text /\ disk[k] \in Text /\ IsPrefix(k, p)
  BY DEF Hits, Disks
<1>2. f \in Text /\ p = k \o f
  BY <1>1, PrefixAndRest
<1>3. Agreed(disk[k]) = Agreed(k)
  BY <1>1 DEF Filed
<1> HIDE DEF f
<1>4. Agreed(k \o f) = Agreed(k) \o Agreed(f) /\ Agreed(disk[k] \o f) = Agreed(disk[k]) \o Agreed(f)
  BY <1>1, <1>2, AgreedTexts
<1>5. QED
  BY <1>2, <1>3, <1>4 DEF f

LEMMA AgreeLoadDisk ==
  ASSUME Typed, Agree, LoadDisk
  PROVE  Agree'
<1>1. IsJob(job) /\ job.req.prompt \in Text
  BY DEF Typed, LoadDisk, IsJob, Req
<1>2. Disks(disk) /\ Filed(disk)
  BY DEF Typed, Disks, Agree, KeysAgree
<1>3. pc = "miss" /\ pc' = "prefill" /\ UNCHANGED <<bindings, disk, answers, queued, jobs>>
  BY DEF LoadDisk, counts
<1> DEFINE kept == job' = [job EXCEPT !.file = None]
<1>4. kept => job'.req = job.req /\ job'.eff = job.eff /\ job'.source = job.source
  <2>1. kept =>
          job' = [req |-> job.req, source |-> job.source, eff |-> job.eff, file |-> None]
    BY <1>1, JobFields
  <2>2. QED
    BY <2>1
<1>5. /\ job'.req = job.req
      /\ \/ job'.eff = job.eff /\ job'.source = job.source
         \/ Agreed(job'.eff) = Agreed(job.req.prompt) /\ job'.source = "disk"
  <2>1. CASE kept
    BY <1>4, <2>1
  <2>2. CASE ~kept
    <3> DEFINE k == Best(job.req.prompt)
    <3>1. /\ Hits(job.req.prompt) # {}
          /\ job' = [req |-> job.req, source |-> "disk", file |-> k,
                     eff |-> disk[k] \o From(job.req.prompt, Len(k))]
      BY <2>2 DEF LoadDisk
    <3>2. k \in Hits(job.req.prompt)
      BY <1>1, <1>2, <3>1, BestIsHit DEF Disks
    <3> HIDE DEF k
    <3>3. Agreed(disk[k] \o From(job.req.prompt, Len(k))) = Agreed(job.req.prompt)
      BY <1>1, <1>2, <3>2, FromCheckpoint
    <3>4. QED
      BY <3>1, <3>3
  <2>3. QED
    BY <2>1, <2>2
<1>6. KeysAgree'
  BY <1>3 DEF Agree, KeysAgree
<1>7. Live' = Live
  BY <1>3 DEF Live, bindings
<1>8. Numbered'
  BY <1>3, <1>5, <1>7, NumberedFrame DEF Agree
<1>9. (queued # None => Recalled(queued))'
  BY <1>3, QueuedFrame DEF Agree
<1>10. LiveFollow'
  BY <1>3 DEF Agree, LiveFollow, bindings
<1>11. Serves'
  <2>1. /\ Agreed(job.eff) = Agreed(job.req.prompt)
        /\ job.source \in {"visible", "call"} => job.req.api = "responses"
        /\ job.source = "anthropic call" => job.req.api = "anthropic"
    BY <1>3 DEF Agree, Serves
  <2>2. QED
    BY <1>3, <1>5, <2>1 DEF Serves
<1>12. QED
  BY <1>6, <1>8, <1>9, <1>10, <1>11 DEF Agree

LEMMA AgreePrefilled ==
  ASSUME Typed, Agree, Prefilled
  PROVE  Agree'
<1>1. pc = "prefill" /\ pc' = "decode" /\ UNCHANGED <<answers, queued, job, jobs>>
  BY DEF Prefilled, counts
<1>2. session' = [toks |-> job.eff, valid |-> TRUE]
  BY DEF Prefilled
<1>3. KeysAgree'
  BY OnTheWayFiled DEF Prefilled, Agree, KeysAgree
<1>4. Live' \subseteq Live
  BY LiveShrinks DEF Prefilled, ForgetOthers
<1>5. Numbered'
  BY <1>1, <1>4, NumberedFrame DEF Agree
<1>6. (queued # None => Recalled(queued))'
  BY <1>1, QueuedFrame DEF Agree
<1>7. /\ Agreed(job.eff) = Agreed(job.req.prompt)
      /\ job.source \in {"visible", "call"} => job.req.api = "responses"
      /\ job.source = "anthropic call" => job.req.api = "anthropic"
  BY <1>1 DEF Agree, Serves
<1>8. Serves'
  BY <1>1, <1>2, <1>7 DEF Serves
<1>9. LiveFollow'
  <2>1. /\ responses' # None => job.source \in {"visible", "call"}
        /\ anthropic' # None => job.source = "anthropic call"
        /\ thinking' \in {thinking, None}
    BY DEF Prefilled, ForgetOthers
  <2>2. thinking' # None => thinking'.visible # <<>>
    BY <2>1 DEF Agree, LiveFollow
  <2>3. QED
    BY <1>1, <1>7, <2>1, <2>2 DEF LiveFollow
<1>10. QED
  BY <1>3, <1>5, <1>6, <1>8, <1>9 DEF Agree

\* Where a job ends without bindings, nothing is left to agree but the disk.
LEMMA AgreeCleared ==
  ASSUME Typed, Agree, EndJob, ClearAll, UNCHANGED <<queued, jobs>>, Filed(disk'),
         answers \subseteq answers', \A a \in answers' : a \in answers \/ a.id = None
  PROVE  Agree'
<1>1. pc' = "idle" /\ Live' = {} /\ thinking' = None /\ responses' = None /\ anthropic' = None
  BY DEF EndJob, ClearAll, Live
<1>2. KeysAgree'
  BY DEF KeysAgree
<1>3. Numbered'
  BY <1>1 DEF Agree, Numbered
<1>4. (queued # None => Recalled(queued))'
  BY QueuedFrame DEF Agree
<1>5. LiveFollow' /\ Serves'
  BY <1>1 DEF LiveFollow, Serves
<1>6. QED
  BY <1>2, <1>3, <1>4, <1>5 DEF Agree

LEMMA AgreeStops ==
  ASSUME Filed(disk), NEW f, NEW v, StopsAt(f, v)
  PROVE  Filed(disk')
<1>1. PICK d \in StoredOnTheWay(f) : disk' \in {d, Restrict(d, DOMAIN d \ {job.file})}
  BY DEF StopsAt
<1>2. Filed(d)
  BY <1>1, OnTheWayFiled
<1>3. Restrict(d, DOMAIN d \ {job.file}) \in Shrink(d)
  BY DEF Shrink
<1>4. QED
  BY <1>1, <1>2, <1>3, FiledTexts

LEMMA AgreePrefillCancelled ==
  ASSUME Typed, Agree, PrefillCancelled
  PROVE  Agree'
<1>1. Filed(disk)
  BY DEF Agree, KeysAgree
<1>2. Filed(disk')
  BY <1>1, AgreeStops, OnTheWayFiled DEF PrefillCancelled
<1>3. EndJob /\ ClearAll /\ UNCHANGED <<answers, queued, jobs>>
  BY DEF PrefillCancelled, counts
<1>4. QED
  BY <1>2, <1>3, AgreeCleared

LEMMA AgreeTruncated ==
  ASSUME Typed, Agree, NEW x \in env.say, Truncated(x)
  PROVE  Agree'
<1>1. Filed(disk')
  BY DEF Agree, KeysAgree, Truncated
<1>2. answers \subseteq answers' /\ \A a \in answers' : a \in answers \/ a.id = None
  BY DEF Truncated
<1>3. EndJob /\ ClearAll /\ UNCHANGED <<queued, jobs>>
  BY DEF Truncated, counts
<1>4. QED
  BY <1>1, <1>2, <1>3, AgreeCleared

LEMMA AgreeCancelled ==
  ASSUME Typed, Agree, CancelledInDecode
  PROVE  Agree'
<1>1. Filed(disk') /\ EndJob /\ ClearAll /\ UNCHANGED <<answers, queued, jobs>>
  BY DEF Agree, KeysAgree, CancelledInDecode, counts
<1>2. QED
  BY <1>1, AgreeCleared

\* The steps that sample an answer.
LEMMA AgreeSampled ==
  ASSUME Typed, Agree, pc = "decode", pc' = "publish", IsJob(job), NEW f,
         job' = [job EXCEPT !.file = f], UNCHANGED <<bindings, disk, answers, queued, jobs>>,
         \/ session'.toks = <<>> /\ ~f.call
         \/ /\ Len(session'.toks) > 0
            /\ Agreed(session'.toks) = Agreed(job.req.prompt) \o Agreed(f.said)
  PROVE  Agree'
<1>1. job' = [req |-> job.req, source |-> job.source, eff |-> job.eff, file |-> f]
  BY JobFields
<1>2. job'.req = job.req /\ job'.file = f
  BY <1>1
<1>3. KeysAgree'
  BY DEF Agree, KeysAgree
<1>4. Live' = Live
  BY DEF Live, bindings
<1>5. Numbered'
  BY <1>2, <1>4, NumberedFrame DEF Agree
<1>6. (queued # None => Recalled(queued))'
  BY QueuedFrame DEF Agree
<1>7. LiveFollow'
  BY <1>2 DEF Agree, LiveFollow, bindings
<1>8. Serves'
  BY <1>2 DEF Serves, Pos
<1>9. QED
  BY <1>3, <1>5, <1>6, <1>7, <1>8 DEF Agree

LEMMA AgreeGenerate ==
  ASSUME Typed, Agree, NEW x \in env.say, NEW call \in BOOLEAN, NEW g \in Sampled(x, call),
         Generate(g, call)
  PROVE  Agree'
<1> DEFINE f == [said |-> g, call |-> call]
<1>1. /\ IsJob(job) /\ session.toks \in Text /\ session \in [toks : Text, valid : BOOLEAN]
      /\ pc = "decode" /\ pc' = "publish"
      /\ UNCHANGED <<bindings, disk, answers, queued, jobs>>
      /\ job' = [job EXCEPT !.file = f]
  BY DEF Typed, Generate, IsJob, counts
<1>2. g \in Text /\ g # <<>> /\ Len(g) > 0
  BY Setting, SampledType DEF Typed
<1>3. session'.toks = session.toks \o g
  BY <1>1 DEF Generate
<1>4. Len(session.toks \o g) > 0
  BY <1>1, <1>2 DEF Text
<1>5. Agreed(session.toks \o g) = Agreed(session.toks) \o Agreed(g)
  BY <1>1, <1>2, AgreedTexts
<1>6. Agreed(session.toks) = Agreed(job.req.prompt)
  BY <1>1 DEF Agree, Serves
<1>7. f.said = g /\ f.call = call
  OBVIOUS
<1> HIDE DEF f
<1>8. /\ Len(session'.toks) > 0
      /\ Agreed(session'.toks) = Agreed(job.req.prompt) \o Agreed(f.said)
  BY <1>3, <1>4, <1>5, <1>6, <1>7
<1>9. QED
  BY <1>1, <1>8, AgreeSampled

LEMMA AgreeStopSequence ==
  ASSUME Typed, Agree, NEW x \in env.say, StopSequence(x)
  PROVE  Agree'
<1> DEFINE f == [said |-> <<x>>, call |-> FALSE]
<1>1. /\ IsJob(job) /\ pc = "decode" /\ pc' = "publish"
      /\ UNCHANGED <<bindings, disk, answers, queued, jobs>>
      /\ job' = [job EXCEPT !.file = f]
      /\ session'.toks = <<>>
  BY DEF Typed, StopSequence, IsJob, counts
<1>2. ~f.call
  OBVIOUS
<1> HIDE DEF f
<1>3. QED
  BY <1>1, <1>2, AgreeSampled

LEMMA AgreePublish ==
  ASSUME Typed, Agree, Publish
  PROVE  Agree'
<1> DEFINE call == job.file.call
           id == IF call THEN job.req.no ELSE None
           c == CanonicalForm(call)
           t == Transcript
           f == [text |-> t, id |-> id, canonical |-> c]
<1>1. /\ IsJob(job) /\ job.req \in Req /\ session.toks \in Text
      /\ job.file \in [said : Text, call : BOOLEAN] /\ job.req.no \in Nat
  BY DEF Typed, Publish, IsJob, Req
<1>2. /\ pc = "publish" /\ pc' = "send"
      /\ UNCHANGED <<session, disk, answers, queued, jobs>>
      /\ job' = [job EXCEPT !.file = f]
  BY DEF Publish, counts
<1>3. /\ t # <<>>
      /\ Agreed(t) = Agreed(job.req.prompt) \o Agreed(job.file.said)
      /\ c # <<>> =>
           call /\ Agreed(c) = Agreed(job.req.prompt) \o Agreed(job.file.said)
  BY <1>1, Transcripts
<1>4. job' = [req |-> job.req, source |-> job.source, eff |-> job.eff, file |-> f]
  <2> HIDE DEF f
  <2>1. QED
    BY <1>1, <1>2, JobFields
<1>5. /\ job'.req = job.req /\ job'.file.text = t /\ job'.file.id = id
      /\ job'.file.canonical = c
  BY <1>4
<1>6. Pos' = Pos
  BY <1>2 DEF Pos
<1>7. \/ session.toks = <<>> /\ ~call
      \/ /\ Pos > 0
         /\ Agreed(session.toks) = Agreed(job.req.prompt) \o Agreed(job.file.said)
  BY <1>2 DEF Agree, Serves
<1>8. session.toks = <<>> => Pos = 0
  BY DEF Pos
<1>9. /\ responses' \in {Remember(t, id), None}
      /\ anthropic' \in {Remember(<<>>, id), None}
      /\ thinking' \in {Remember(t, None), None}
  BY <1>2 DEF Publish, Agree, LiveFollow
<1>10. id \in {job.req.no, None} /\ (id # None => call)
  OBVIOUS
<1> HIDE DEF id, c, f, t
<1>11. \A b \in Live' : /\ b \in {Remember(t, id), Remember(<<>>, id), Remember(t, None)}
                        /\ b.of = session.toks /\ b.visible \in {t, <<>>} /\ b.id \in {id, None}
  BY <1>9 DEF Live, Remember
<1>12. \A b \in Live' : Follows(b)'
  <2>1. ASSUME NEW b \in Live' PROVE Follows(b)'
    <3>1. b.of = session'.toks /\ b.visible \in {t, <<>>}
      BY <1>2, <1>11
    <3>2. Pos > 0 => Agreed(t) = Agreed(session.toks)
      BY <1>3, <1>7, <1>8
    <3>3. QED
      BY <1>2, <1>6, <3>1, <3>2 DEF Follows
  <2>2. QED
    BY <2>1
<1>13. KeysAgree'
  BY <1>2 DEF Agree, KeysAgree
<1>14. Numbered'
  <2>1. Numbered /\ (\A a \in answers : a.id # None => a.id \in Nat)
    BY DEF Agree, Typed, Answer
  <2>2. ASSUME NEW a \in answers', a.id # None
        PROVE  /\ a.id <= jobs'
               /\ queued' # None => a.id < queued'.no
               /\ pc' # "idle" => a.id < job'.req.no
               /\ \A b \in Live' : b.id = a.id => Agreed(b.of) = Agreed(a.text)
    <3>1. /\ a.id <= jobs' /\ (queued' # None => a.id < queued'.no)
          /\ a.id < job.req.no /\ a.id \in Nat
      BY <1>2, <2>1, <2>2 DEF Numbered
    <3>2. \A b \in Live' : b.id # a.id
      BY <1>1, <1>10, <1>11, <2>2, <3>1
    <3>3. QED
      BY <1>5, <3>1, <3>2
  <2>3. QED
    BY <1>2, <1>5, <2>1, <2>2 DEF Numbered
<1>15. (queued # None => Recalled(queued))'
  BY <1>2, QueuedFrame DEF Agree
<1>16. LiveFollow'
  <2>1. thinking' # None => thinking'.visible # <<>>
    BY <1>3, <1>9 DEF Remember
  <2>2. QED
    BY <1>2, <1>12, <2>1 DEF LiveFollow
<1>17. Serves'
  <2>1. id # None => id = job.req.no /\ Agreed(t) = Agreed(session.toks)
    BY <1>3, <1>7, <1>10
  <2>2. c # <<>> => Pos > 0 /\ Agreed(c) = Agreed(session.toks)
    BY <1>3, <1>7
  <2>3. QED
    BY <1>2, <1>5, <1>6, <2>1, <2>2 DEF Serves
<1>18. QED
  BY <1>13, <1>14, <1>15, <1>16, <1>17 DEF Agree

LEMMA AgreeCanonicalize ==
  ASSUME Typed, Agree, Canonicalize, broken' # TRUE
  PROVE  Agree'
<1> DEFINE c == job.file.canonical
           f == [text |-> job.file.text, id |-> job.file.id, canonical |-> <<>>]
<1>1. /\ IsJob(job) /\ Disks(disk) /\ Filed(disk) /\ pc = "send" /\ c # <<>>
      /\ job.file \in [text : Text, id : Nat \cup {None}, canonical : Text]
  BY DEF Typed, Canonicalize, IsJob, Disks, Agree, KeysAgree, KeepsSampled
<1>2. c \in Text /\ Agreed(c) = Agreed(session.toks)
  BY <1>1 DEF Agree, Serves
<1>3. job' = [req |-> job.req, source |-> job.source, eff |-> job.eff, file |-> f]
  BY <1>1, CanonicalDone DEF Canonicalize
<1>4. pc' = pc /\ UNCHANGED <<bindings, disk, answers, queued, jobs>>
  BY DEF Canonicalize, counts
<1>5. PICK eff \in Rebuilt(c) : session' = [toks |-> eff, valid |-> TRUE]
  BY CanonicalizeStep
<1>6. Agreed(eff) = Agreed(c)
  <2>1. CASE eff = c
    BY <2>1
  <2>2. CASE eff # c
    <3>1. PICK k \in Hits(c) : eff = disk[k] \o From(c, Len(k))
      BY <2>2 DEF Rebuilt
    <3>2. QED
      BY <1>1, <1>2, <3>1, FromCheckpoint
  <2>3. QED
    BY <2>1, <2>2
<1>7. session'.toks = eff /\ Agreed(session'.toks) = Agreed(session.toks)
  BY <1>2, <1>5, <1>6
<1>8. /\ job'.req = job.req /\ job'.file.text = job.file.text /\ job'.file.id = job.file.id
      /\ job'.file.canonical = <<>>
  BY <1>3
<1>9. Live' = Live /\ thinking' = thinking
  BY <1>4 DEF Live, bindings
<1>10. Pos > 0
  BY <1>1 DEF Agree, Serves
<1>11. KeysAgree'
  BY <1>4 DEF Agree, KeysAgree
<1>12. Numbered'
  BY <1>4, <1>8, <1>9, NumberedFrame DEF Agree
<1>13. (queued # None => Recalled(queued))'
  BY <1>4, QueuedFrame DEF Agree
<1>14. LiveFollow'
  <2>1. \A b \in Live' : Follows(b)'
    BY <1>1, <1>7, <1>9, <1>10 DEF Agree, LiveFollow, Follows
  <2>2. QED
    BY <1>1, <1>4, <1>9, <2>1 DEF Agree, LiveFollow
<1>15. Serves'
  BY <1>1, <1>4, <1>7, <1>8 DEF Agree, Serves
<1>16. QED
  BY <1>11, <1>12, <1>13, <1>14, <1>15 DEF Agree

LEMMA AgreeSend ==
  ASSUME Typed, Agree, Send
  PROVE  Agree'
<1>1. Filed(disk')
  BY DEF Agree, KeysAgree, Send
<1>2. CASE ClearAll /\ UNCHANGED answers
  BY <1>1, <1>2, AgreeCleared DEF Send, counts
<1>3. CASE ~(ClearAll /\ UNCHANGED answers)
  <2> DEFINE n == [api |-> job.req.api, text |-> job.file.text, id |-> job.file.id]
  <2>1. /\ pc = "send" /\ pc' = "idle"
        /\ UNCHANGED <<session, bindings, disk, queued, jobs>>
        /\ answers' = answers \cup {n}
    BY <1>3 DEF Send, EndJob, counts
  <2>2. Live' = Live /\ Pos' = Pos /\ thinking' = thinking
    BY <2>1 DEF Live, Pos, bindings
  <2>3. KeysAgree'
    BY <2>1 DEF Agree, KeysAgree
  <2>4. n.id = job.file.id /\ n.text = job.file.text
    OBVIOUS
  <2> HIDE DEF n
  <2>5. \A b \in Live : Follows(b)
    BY <2>1 DEF Agree, LiveFollow
  <2>6. n.id # None => n.id = job.req.no /\ Agreed(n.text) = Agreed(session.toks)
    BY <2>1, <2>4 DEF Agree, Serves
  <2>7. Numbered'
    <3>1. ASSUME NEW a \in answers', a.id # None
          PROVE  /\ a.id <= jobs'
                 /\ queued' # None => a.id < queued'.no
                 /\ \A b \in Live' : b.id = a.id => Agreed(b.of) = Agreed(a.text)
      <4>1. CASE a \in answers
        BY <2>1, <2>2, <3>1, <4>1 DEF Agree, Numbered
      <4>2. CASE a = n
        BY <2>1, <2>2, <2>5, <2>6, <3>1, <4>2 DEF Agree, Numbered, Follows
      <4>3. QED
        BY <2>1, <4>1, <4>2
    <3>2. queued' # None => queued'.no <= jobs'
      BY <2>1 DEF Agree, Numbered
    <3>3. QED
      BY <2>1, <3>1, <3>2 DEF Numbered
  <2>8. (queued # None => Recalled(queued))'
    BY <2>1, QueuedFrame DEF Agree
  <2>9. LiveFollow'
    <3>1. \A b \in Live' : Follows(b)'
      BY <2>1, <2>2, <2>5 DEF Follows
    <3>2. QED
      BY <2>1, <2>2, <3>1 DEF Agree, LiveFollow
  <2>10. Serves'
    BY <2>1 DEF Serves
  <2>11. QED
    BY <2>3, <2>7, <2>8, <2>9, <2>10 DEF Agree
<1>4. QED
  BY <1>2, <1>3

LEMMA AgreeStep ==
  ASSUME Typed, Agree, [BindingNext]_vars, broken' # TRUE
  PROVE  Agree'
<1>1. CASE UNCHANGED vars
  <2>1. UNCHANGED <<session, bindings, disk, answers, queued, job, pc, jobs>>
    BY <1>1 DEF vars, counts
  <2>2. KeysAgree'
    BY <2>1 DEF Agree, KeysAgree
  <2>3. Live' \subseteq Live
    BY <2>1 DEF Live, bindings
  <2>4. Numbered'
    BY <2>1, <2>3, NumberedFrame DEF Agree
  <2>5. (queued # None => Recalled(queued))'
    BY <2>1, QueuedFrame DEF Agree
  <2>6. LiveFollow' /\ Serves'
    BY <2>1, SlotFrame DEF Agree
  <2>7. QED
    BY <2>2, <2>4, <2>5, <2>6 DEF Agree
<1>2. ASSUME NEW api \in env.apis, NEW p \in env.opening, NEW tools \in BOOLEAN,
             Open(api, p, tools)
      PROVE  Agree'
  BY <1>2, AgreeOpen
<1>3. ASSUME NEW a \in answers, NEW x \in env.say, NEW whole \in BOOLEAN,
             NEW tools \in BOOLEAN, Follow(a, x, whole, tools)
      PROVE  Agree'
  BY <1>3, AgreeFollow
<1>4. CASE Refuse
  BY <1>4, AgreeRefuse
<1>5. CASE Start
  BY <1>5, AgreeStart
<1>6. CASE StoreCurrent
  BY <1>6, AgreeStoreCurrent
<1>7. CASE LoadDisk
  BY <1>7, AgreeLoadDisk
<1>8. CASE Prefilled
  BY <1>8, AgreePrefilled
<1>9. CASE PrefillFails
  BY <1>9 DEF PrefillFails
<1>10. CASE PrefillCancelled
  BY <1>10, AgreePrefillCancelled
<1>11. ASSUME NEW x \in env.say, NEW call \in BOOLEAN, NEW g \in Sampled(x, call),
              Generate(g, call)
       PROVE  Agree'
  BY <1>11, AgreeGenerate
<1>12. ASSUME NEW x \in env.say, StopSequence(x) \/ Truncated(x)
       PROVE  Agree'
  BY <1>12, AgreeStopSequence, AgreeTruncated
<1>13. CASE CancelledInDecode
  BY <1>13, AgreeCancelled
<1>14. CASE Publish
  BY <1>14, AgreePublish
<1>15. CASE Canonicalize
  BY <1>15, AgreeCanonicalize
<1>16. CASE Send
  BY <1>16, AgreeSend
<1>17. QED
  BY <1>1, <1>2, <1>3, <1>4, <1>5, <1>6, <1>7, <1>8, <1>9, <1>10, <1>11, <1>12, <1>13,
     <1>14, <1>15, <1>16 DEF BindingNext, Answering

\* A failure is not forgotten.
LEMMA BrokenStays ==
  ASSUME Typed, broken = TRUE, [BindingNext]_vars
  PROVE  broken' = TRUE
<1>1. CASE UNCHANGED vars
  BY <1>1 DEF vars
<1>2. ASSUME NEW r, NewRequest(r) PROVE broken' = TRUE
  BY <1>2 DEF NewRequest
<1>3. CASE \E api \in env.apis, p \in env.opening, tools \in BOOLEAN : Open(api, p, tools)
  BY <1>2, <1>3 DEF Open
<1>4. CASE \E a \in answers, x \in env.say, whole, tools \in BOOLEAN : Follow(a, x, whole, tools)
  BY <1>2, <1>4 DEF Follow
<1>5. CASE Refuse \/ Start \/ StoreCurrent \/ LoadDisk
  BY <1>5 DEF Refuse, Start, StoreCurrent, LoadDisk
<1>6. CASE Prefilled \/ PrefillFails \/ PrefillCancelled
  BY <1>6 DEF Prefilled, PrefillFails, PrefillCancelled
<1>7. CASE Answering \/ CancelledInDecode
  BY <1>7 DEF Answering, Generate, StopSequence, Truncated, CancelledInDecode
<1>8. CASE Publish \/ Send
  BY <1>8 DEF Publish, Send
<1>9. CASE Canonicalize
  BY <1>9, CanonicalizeStep
<1>10. QED
  BY <1>1, <1>3, <1>4, <1>5, <1>6, <1>7, <1>8, <1>9 DEF BindingNext

\* Only the publication of an answer leads to its sending, and a Responses
\* answer is bound there and keeps the session as it is.
LEMMA ContinuesStep ==
  ASSUME Typed, Continues, [BindingNext]_vars
  PROVE  Continues'
<1> DEFINE still == pc' = pc /\ UNCHANGED <<session, bindings, job>>
<1>1. CASE still
  BY <1>1 DEF Continues, Pos, bindings
<1>2. CASE pc' # "send"
  BY <1>2 DEF Continues
<1>3. CASE Publish
  <2> DEFINE c == CanonicalForm(job.file.call)
             id == IF job.file.call THEN job.req.no ELSE None
             f == [text |-> Transcript, id |-> id, canonical |-> c]
  <2>1. IsJob(job) /\ job.req \in Req /\ job.file \in [said : Text, call : BOOLEAN]
        /\ session.toks \in Text
    BY <1>3 DEF Typed, Publish, IsJob
  <2>2. job' = [job EXCEPT !.file = f] /\ session' = session
        /\ (job.req.api = "responses" => responses' = Remember(Transcript, id))
    BY <1>3 DEF Publish
  <2>3. job.req.api = "responses" => c = <<>>
    BY DEF CanonicalForm
  <2>4. Remember(Transcript, id) \in Binding
    <3>1. Transcript \in Text
      BY <2>1, Transcripts
    <3>2. id \in Nat \cup {None}
      BY <2>1 DEF Req
    <3>3. QED
      BY <2>1, <3>1, <3>2, RememberType
  <2>5. Remember(Transcript, id).pos = Pos
    BY DEF Remember
  <2>6. job' = [req |-> job.req, source |-> job.source, eff |-> job.eff, file |-> f]
    <3> HIDE DEF f
    <3>1. QED
      BY <2>1, <2>2, JobFields
  <2>7. job'.req = job.req /\ job'.file.canonical = c
    BY <2>6
  <2> HIDE DEF c, id, f
  <2>8. QED
    BY <2>2, <2>3, <2>4, <2>5, <2>7, LiveAssumption DEF Continues, Pos
<1>4. CASE Canonicalize
  <2>1. pc = "send" /\ job.file.canonical # <<>> /\ IsJob(job)
        /\ job.file \in [text : Text, id : Nat \cup {None}, canonical : Text]
    BY <1>4 DEF Canonicalize, KeepsSampled, Typed, IsJob
  <2>2. job.req.api # "responses"
    BY <2>1 DEF Continues
  <2>3. job'.req = job.req
    BY <1>4, <2>1, CanonicalDone DEF Canonicalize
  <2>4. QED
    BY <2>2, <2>3 DEF Continues
<1>5. ASSUME NEW r, NewRequest(r) PROVE still
  BY <1>5 DEF NewRequest
<1>6. CASE \E api \in env.apis, p \in env.opening, tools \in BOOLEAN : Open(api, p, tools)
  BY <1>1, <1>5, <1>6 DEF Open
<1>7. CASE \E a \in answers, x \in env.say, whole, tools \in BOOLEAN : Follow(a, x, whole, tools)
  BY <1>1, <1>5, <1>7 DEF Follow
<1>8. CASE Refuse \/ Start \/ StoreCurrent \/ LoadDisk
  BY <1>2, <1>8 DEF Refuse, Start, StoreCurrent, LoadDisk
<1>9. CASE Prefilled \/ PrefillFails \/ PrefillCancelled
  BY <1>2, <1>9 DEF Prefilled, PrefillFails, PrefillCancelled, EndJob
<1>10. CASE Answering \/ CancelledInDecode \/ Send
  BY <1>2, <1>10 DEF Answering, Generate, StopSequence, Truncated, CancelledInDecode, Send, EndJob
<1>11. CASE UNCHANGED vars
  BY <1>1, <1>11 DEF vars
<1>12. QED
  BY <1>3, <1>4, <1>6, <1>7, <1>8, <1>9, <1>10, <1>11 DEF BindingNext

LEMMA LiveInitially ==
  ASSUME BindingInit
  PROVE  LiveInv
<1>1. Typed
  BY TypedInit
<1>2. /\ pc = "idle" /\ queued = None /\ answers = {} /\ Live = {} /\ thinking = None
      /\ DOMAIN disk = {}
  <2>1. disk = <<>> /\ DOMAIN <<>> = {}
    BY DEF BindingInit
  <2>2. QED
    BY <2>1 DEF BindingInit, Live
<1>3. Agree
  BY <1>2 DEF Agree, KeysAgree, Filed, Numbered, LiveFollow, Serves
<1>4. Continues
  BY <1>2 DEF Continues
<1>5. QED
  BY <1>1, <1>3, <1>4 DEF LiveInv

\* In every state the slot is typed, an answer that is being sent over the
\* Responses protocol is bound at the session's position, and, unless a prefill
\* failed half way, checkpoints, bindings, answers and the session agree on the
\* conversation they hold (generate_job_inner and the bindings it publishes).
THEOREM LiveInvariant == BindingSpec => []LiveInv
<1>1. BindingInit => LiveInv
  BY LiveInitially
<1>2. LiveInv /\ [BindingNext]_vars => LiveInv'
  <2>1. SUFFICES ASSUME LiveInv, [BindingNext]_vars PROVE LiveInv'
    OBVIOUS
  <2>2. Typed' /\ Continues'
    BY <2>1, TypedStep, ContinuesStep DEF LiveInv
  <2>3. broken' = TRUE \/ Agree'
    <3>1. Typed
      BY <2>1 DEF LiveInv
    <3>2. CASE broken = TRUE
      BY <2>1, <3>1, <3>2, BrokenStays
    <3>3. CASE Agree
      BY <2>1, <3>1, <3>3, AgreeStep
    <3>4. QED
      BY <2>1, <3>2, <3>3 DEF LiveInv
  <2>4. QED
    BY <2>2, <2>3 DEF LiveInv
<1>3. QED
  BY <1>1, <1>2, PTL DEF BindingSpec

\* Every variable of a slot has its type, in every phase of a request.
THEOREM LiveTypeCorrect == BindingSpec => []Typed
<1>1. LiveInv => Typed
  BY DEF LiveInv
<1>2. QED
  BY <1>1, LiveInvariant, PTL

\* Whichever way the session came to hold it, an answer is sampled after the
\* transcript of its own request, unless a prefill failed half way before.
THEOREM AnswersItsRequestCorrect == BindingSpec => []AnswersItsRequest
<1>1. LiveInv => AnswersItsRequest
  BY DEF LiveInv, Agree, Serves, AnswersItsRequest
<1>2. QED
  BY <1>1, LiveInvariant, PTL

\* A binding at the session's position was made of the conversation the session
\* holds: a continuation by it cannot land in another conversation.
THEOREM BindingFollowsSessionCorrect == BindingSpec => []BindingFollowsSession
<1>1. LiveInv => BindingFollowsSession
  BY DEF LiveInv, Agree, LiveFollow, Live, Follows, BindingFollowsSession
<1>2. QED
  BY <1>1, LiveInvariant, PTL

\* An answer to a Responses client, sent and not cut short, leaves the session
\* where its binding says: canonicalization does not move the session behind
\* the binding (should_canonicalize_tool_checkpoint).
THEOREM AnswerIsContinuableCorrect == BindingSpec => AnswerIsContinuable
<1> DEFINE A == (pc = "send" /\ pc' = "idle" /\ job.req.api = "responses" /\ answers' # answers)
                  => responses' # None /\ responses'.pos = Len(session'.toks)
<1>1. LiveInv /\ [BindingNext]_vars => [A]_vars
  <2>1. SUFFICES ASSUME LiveInv, BindingNext, pc = "send", pc' = "idle",
                        job.req.api = "responses", answers' # answers
                 PROVE  responses' # None /\ responses'.pos = Len(session'.toks)
    OBVIOUS
  <2>2. Send
    BY <2>1 DEF BindingNext, Open, Follow, NewRequest, Refuse, Start, StoreCurrent, LoadDisk,
      Prefilled, PrefillFails, PrefillCancelled, Answering, Generate, StopSequence, Truncated,
      CancelledInDecode, Publish, Canonicalize
  <2>3. UNCHANGED <<session, bindings>>
    BY <2>1, <2>2 DEF Send
  <2>4. QED
    BY <2>1, <2>3 DEF LiveInv, Continues, Pos, bindings
<1>2. QED
  BY <1>1, LiveInvariant, PTL DEF BindingSpec, AnswerIsContinuable

=============================================================================
