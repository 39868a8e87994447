-------------------------- MODULE RunControlProofs --------------------------
(* Theorems about RunControl, for any runs, threads, lanes and bounds. *)
EXTENDS RunControl, TLAPS

-----------------------------------------------------------------------------
(* Type correctness. *)

(* The tables of the machines lead to states of the machines. *)
LEMMA TableTypes ==
  /\ \A p \in DOMAIN VerifiedNext :
       p # "dequeuing" /\ VerifiedNext[p] \in Leased
  /\ \A p \in DOMAIN ReadNext :
       p # "dequeuing" /\ ReadNext[p].write \in Leased /\ ReadNext[p].skip \in Leased
  /\ \A p \in DOMAIN CompletedNext :
       p # "dequeuing" /\ CompletedNext[p] \in Leased
  BY DEF VerifiedNext, ReadNext, CompletedNext, Leased

LEMMA NotHolding == "dequeuing" \notin Holding
  BY DEF Holding, Leased, Returning

(* Nothing fails in a lane that is between two jobs. *)
LEMMA ErrorTypes == \A p : <<"dequeuing", p>> \notin OnError
  BY DEF OnError

(* Every store command keeps the types of the keyspace. *)
LEMMA StoreCommandTypes ==
  ASSUME StoreTypeOK, NEW r \in Runs
  PROVE  /\ AtomicEnqueueRun(r) => StoreTypeOK'
         /\ DeliverJob(r) => StoreTypeOK'
         /\ AcknowledgeJob(r) => StoreTypeOK'
         /\ ClearActiveIfMatches(r) => StoreTypeOK'
         /\ CountRetryLater(r) => StoreTypeOK'
         /\ DeadLetter(r) => StoreTypeOK'
         /\ ExpireLease(r) => StoreTypeOK'
         /\ ExpireFinalize(r) => StoreTypeOK'
         /\ \A a \in Answer : WriteFinalizing(r, a) => StoreTypeOK'
         /\ \A s \in Terminal : WriteTerminal(r, s) => StoreTypeOK'
         /\ \A o \in {"started", "sent"} : WriteOutbox(r, o) => StoreTypeOK'
<1> USE StoreAssumption DEF StoreTypeOK
<1>1. AtomicEnqueueRun(r) => StoreTypeOK'
  BY DEF AtomicEnqueueRun, Live
<1>2. DeliverJob(r) => StoreTypeOK'
  BY DEF DeliverJob
<1>3. AcknowledgeJob(r) => StoreTypeOK'
  BY DEF AcknowledgeJob
<1>4. ClearActiveIfMatches(r) => StoreTypeOK'
  BY DEF ClearActiveIfMatches
<1>5. CountRetryLater(r) => StoreTypeOK'
  BY DEF CountRetryLater
<1>6. DeadLetter(r) => StoreTypeOK'
  BY DEF DeadLetter, Terminal
<1>7. ExpireLease(r) => StoreTypeOK'
  BY DEF ExpireLease
<1>8. ExpireFinalize(r) => StoreTypeOK'
  BY DEF ExpireFinalize
<1>9. ASSUME NEW a \in Answer PROVE WriteFinalizing(r, a) => StoreTypeOK'
  BY DEF WriteFinalizing, Live
<1>10. ASSUME NEW s \in Terminal PROVE WriteTerminal(r, s) => StoreTypeOK'
  BY DEF WriteTerminal
<1>11. ASSUME NEW o \in {"started", "sent"} PROVE WriteOutbox(r, o) => StoreTypeOK'
  BY DEF WriteOutbox
<1> QED
  BY <1>1, <1>2, <1>3, <1>4, <1>5, <1>6, <1>7, <1>8, <1>9, <1>10, <1>11

LEMMA LaneCommandTypes ==
  ASSUME StoreTypeOK, NEW r \in Runs, NEW w \in Workers
  PROVE  /\ \A s : ClaimRunLease(w, r, s) => StoreTypeOK'
         /\ ReleaseRunLease(w, r) => StoreTypeOK'
         /\ AcquireFinalize(w, r) => StoreTypeOK'
         /\ CompleteFinalize(w, r) => StoreTypeOK'
<1> USE StoreAssumption DEF StoreTypeOK
<1>1. ASSUME NEW s PROVE ClaimRunLease(w, r, s) => StoreTypeOK'
  BY DEF ClaimRunLease, Live
<1>2. ReleaseRunLease(w, r) => StoreTypeOK'
  BY DEF ReleaseRunLease
<1>3. AcquireFinalize(w, r) => StoreTypeOK'
  BY DEF AcquireFinalize
<1>4. CompleteFinalize(w, r) => StoreTypeOK'
  BY DEF CompleteFinalize
<1> QED
  BY <1>1, <1>2, <1>3, <1>4

LEMMA StoreUnchanged == StoreTypeOK /\ UNCHANGED storeVars => StoreTypeOK'
  BY DEF StoreTypeOK, storeVars

(* A lane that goes on keeps its run, a lane that is done lets go of it. *)
LEMMA LaneTypes ==
  ASSUME LaneTypeOK, NEW w \in Workers
  PROVE  /\ \A p \in (Holding \cup Unleased) \ {"dequeuing"} :
              pc[w] # "dequeuing" /\ Goto(w, p) => LaneTypeOK'
         /\ Finish(w) => LaneTypeOK'
         /\ pc[w] # "dequeuing" => run[w] \in Runs
         /\ UNCHANGED laneVars => LaneTypeOK'
<1> USE StoreAssumption DEF LaneTypeOK
<1>1. ASSUME NEW p \in (Holding \cup Unleased) \ {"dequeuing"}, pc[w] # "dequeuing", Goto(w, p)
      PROVE  LaneTypeOK'
  BY <1>1 DEF Goto
<1>2. Finish(w) => LaneTypeOK'
  BY DEF Finish, NotLoaded, Unleased
<1>3. pc[w] # "dequeuing" => run[w] \in Runs
  OBVIOUS
<1>4. UNCHANGED laneVars => LaneTypeOK'
  BY DEF laneVars
<1> QED
  BY <1>1, <1>2, <1>3, <1>4

LEMMA TypeInit == Init => TypeOK
  BY StoreAssumption, RunControlAssumption
  DEF Init, StoreInit, TypeOK, StoreTypeOK, LaneTypeOK, NotLoaded, Unleased

(* What no action of a lane touches, or only in its own way. *)
RestTypeOK ==
  /\ posted \in [Runs -> 0..2]
  /\ windowOpen \in [Runs -> BOOLEAN]
  /\ clearing \in SUBSET Runs
  /\ doomed \in SUBSET Runs
  /\ faults \in 0..MaxFaults

LEMMA RestUnchanged ==
  RestTypeOK /\ UNCHANGED <<discordVars, handlerVars, faults>> => RestTypeOK'
  BY DEF RestTypeOK, discordVars, handlerVars

LEMMA LaneStepTypes ==
  ASSUME TypeOK, NEW w \in Workers, LaneStep(w)
  PROVE  TypeOK'
<1>1. StoreTypeOK /\ LaneTypeOK /\ RestTypeOK
  BY DEF TypeOK, RestTypeOK
<1>2. SUFFICES StoreTypeOK' /\ LaneTypeOK' /\ RestTypeOK'
  BY DEF TypeOK, RestTypeOK
<1>3. ASSUME pc[w] # "dequeuing" PROVE run[w] \in Runs
  BY <1>1, <1>3, LaneTypes
<1>4. CASE LoadRun(w)
  <2>1. StoreTypeOK' /\ RestTypeOK'
    BY <1>4, <1>1, StoreUnchanged, RestUnchanged DEF LoadRun
  <2>2. LaneTypeOK'
    BY <1>4, <1>1, <1>3 DEF LoadRun, LaneTypeOK, StoreTypeOK, Holding, Leased, Returning, Unleased
  <2> QED
    BY <2>1, <2>2
<1>5. CASE LoadActiveRunId(w)
  <2>1. pc[w] # "dequeuing" /\ run[w] \in Runs
    BY <1>5, <1>3 DEF LoadActiveRunId
  <2>2. StoreTypeOK'
    BY <1>5, <2>1, <1>1, StoreUnchanged DEF LoadActiveRunId
  <2>3. LaneTypeOK'
    BY <1>5, <2>1, <1>1, LaneTypes DEF LoadActiveRunId, Holding, Leased, Returning, Unleased
  <2>4. RestTypeOK'
    BY <1>5, <1>1, RestUnchanged DEF LoadActiveRunId
  <2> QED
    BY <2>2, <2>3, <2>4
<1>6. CASE EnsureOwnership(w)
  <2>1. pc[w] # "dequeuing" /\ run[w] \in Runs
    BY <1>6, <1>3, TableTypes DEF EnsureOwnership
  <2>2. StoreTypeOK'
    BY <1>6, <2>1, <1>1, StoreUnchanged DEF EnsureOwnership
  <2>3. LaneTypeOK'
    BY <1>6, <2>1, <1>1, LaneTypes, TableTypes, NotHolding DEF EnsureOwnership, Holding, Returning
  <2>4. RestTypeOK'
    BY <1>6, <1>1, RestUnchanged DEF EnsureOwnership
  <2> QED
    BY <2>2, <2>3, <2>4
<1>7. CASE Execute(w)
  <2>1. pc[w] # "dequeuing" /\ run[w] \in Runs
    BY <1>7, <1>3 DEF Execute
  <2>2. StoreTypeOK'
    BY <1>7, <2>1, <1>1, StoreUnchanged DEF Execute
  <2>3. LaneTypeOK'
    BY <1>7, <2>1, <1>1, LaneTypes DEF Execute, Holding, Leased, Returning, Unleased
  <2>4. RestTypeOK'
    BY <1>7, <1>1, RestUnchanged DEF Execute
  <2> QED
    BY <2>2, <2>3, <2>4
<1>8. CASE AbortExecution(w)
  <2>1. pc[w] # "dequeuing" /\ run[w] \in Runs
    BY <1>8, <1>3 DEF AbortExecution
  <2>2. StoreTypeOK'
    BY <1>8, <2>1, <1>1, StoreUnchanged DEF AbortExecution
  <2>3. LaneTypeOK'
    BY <1>8, <2>1, <1>1, LaneTypes DEF AbortExecution, Holding, Leased, Returning, Unleased
  <2>4. RestTypeOK'
    BY <1>8, <1>1, RestUnchanged DEF AbortExecution
  <2> QED
    BY <2>2, <2>3, <2>4
<1>9. CASE ReadStatus(w)
  <2>1. pc[w] # "dequeuing" /\ run[w] \in Runs
    BY <1>9, <1>3, TableTypes DEF ReadStatus
  <2>2. StoreTypeOK'
    BY <1>9, <2>1, <1>1, StoreUnchanged DEF ReadStatus
  <2>3. LaneTypeOK'
    BY <1>9, <2>1, <1>1, LaneTypes, TableTypes, NotHolding DEF ReadStatus, Holding, Returning
  <2>4. RestTypeOK'
    BY <1>9, <1>1, RestUnchanged DEF ReadStatus
  <2> QED
    BY <2>2, <2>3, <2>4
<1>10. CASE SettleSurface(w)
  <2>1. pc[w] # "dequeuing" /\ run[w] \in Runs
    BY <1>10, <1>3 DEF SettleSurface
  <2>2. StoreTypeOK'
    BY <1>10, <2>1, <1>1, StoreUnchanged DEF SettleSurface
  <2>3. LaneTypeOK'
    BY <1>10, <2>1, <1>1, LaneTypes DEF SettleSurface, Holding, Leased, Returning, Unleased
  <2>4. RestTypeOK'
    BY <1>10, <1>1, RestUnchanged DEF SettleSurface
  <2> QED
    BY <2>2, <2>3, <2>4
<1>11. CASE CheckTerminal(w)
  <2>1. pc[w] # "dequeuing" /\ run[w] \in Runs
    BY <1>11, <1>3 DEF CheckTerminal
  <2>2. StoreTypeOK'
    BY <1>11, <2>1, <1>1, StoreUnchanged DEF CheckTerminal
  <2>3. LaneTypeOK'
    BY <1>11, <2>1, <1>1, LaneTypes DEF CheckTerminal, Holding, Leased, Returning, Unleased
  <2>4. RestTypeOK'
    BY <1>11, <1>1, RestUnchanged DEF CheckTerminal
  <2> QED
    BY <2>2, <2>3, <2>4
<1>12. CASE PatchRunFinalizing(w)
  <2>1. pc[w] # "dequeuing" /\ run[w] \in Runs
    BY <1>12, <1>3 DEF PatchRunFinalizing
  <2>2. StoreTypeOK'
    BY <1>12, <2>1, <1>1, StoreUnchanged, StoreCommandTypes, LaneCommandTypes, RunControlAssumption DEF PatchRunFinalizing, Answer
  <2>3. LaneTypeOK'
    BY <1>12, <2>1, <1>1, LaneTypes DEF PatchRunFinalizing, Holding, Leased, Returning, Unleased
  <2>4. RestTypeOK'
    BY <1>12, <1>1, RestUnchanged DEF PatchRunFinalizing
  <2> QED
    BY <2>2, <2>3, <2>4
<1>13. CASE MarkTerminal(w)
  <2>1. pc[w] # "dequeuing" /\ run[w] \in Runs
    BY <1>13, <1>3 DEF MarkTerminal
  <2>2. StoreTypeOK'
    BY <1>13, <2>1, <1>1, StoreUnchanged, StoreCommandTypes, LaneCommandTypes DEF MarkTerminal, Terminal
  <2>3. LaneTypeOK'
    BY <1>13, <2>1, <1>1, LaneTypes DEF MarkTerminal, Holding, Leased, Returning, Unleased
  <2>4. RestTypeOK'
    BY <1>13, <1>1, RestUnchanged DEF MarkTerminal
  <2> QED
    BY <2>2, <2>3, <2>4
<1>14. CASE ClaimSuccess(w)
  <2>1. pc[w] # "dequeuing" /\ run[w] \in Runs
    BY <1>14, <1>3 DEF ClaimSuccess
  <2>2. StoreTypeOK'
    BY <1>14, <2>1, <1>1, StoreUnchanged, StoreCommandTypes, LaneCommandTypes DEF ClaimSuccess
  <2>3. LaneTypeOK'
    BY <1>14, <2>1, <1>1, LaneTypes DEF ClaimSuccess, Holding, Leased, Returning, Unleased
  <2>4. RestTypeOK'
    BY <1>14, <1>1, RestUnchanged DEF ClaimSuccess
  <2> QED
    BY <2>2, <2>3, <2>4
<1>15. CASE ClaimFailure(w)
  <2>1. pc[w] # "dequeuing" /\ run[w] \in Runs
    BY <1>15, <1>3 DEF ClaimFailure
  <2>2. StoreTypeOK'
    BY <1>15, <2>1, <1>1, StoreUnchanged, StoreCommandTypes, LaneCommandTypes DEF ClaimFailure
  <2>3. LaneTypeOK'
    BY <1>15, <2>1, <1>1, LaneTypes DEF ClaimFailure, Holding, Leased, Returning, Unleased
  <2>4. RestTypeOK'
    BY <1>15, <1>1, RestUnchanged DEF ClaimFailure
  <2> QED
    BY <2>2, <2>3, <2>4
<1>16. CASE Complete(w)
  <2>1. pc[w] # "dequeuing" /\ run[w] \in Runs
    BY <1>16, <1>3, TableTypes DEF Complete
  <2>2. StoreTypeOK'
    BY <1>16, <2>1, <1>1, StoreUnchanged, StoreCommandTypes, LaneCommandTypes DEF Complete
  <2>3. LaneTypeOK'
    BY <1>16, <2>1, <1>1, LaneTypes, TableTypes, NotHolding DEF Complete, Holding, Returning
  <2>4. RestTypeOK'
    BY <1>16, <1>1, RestUnchanged DEF Complete
  <2> QED
    BY <2>2, <2>3, <2>4
<1>17. CASE OpenOutbox(w)
  <2>1. pc[w] # "dequeuing" /\ run[w] \in Runs
    BY <1>17, <1>3 DEF OpenOutbox
  <2>2. StoreTypeOK'
    BY <1>17, <2>1, <1>1, StoreUnchanged, StoreCommandTypes, LaneCommandTypes DEF OpenOutbox
  <2>3. LaneTypeOK'
    BY <1>17, <2>1, <1>1, LaneTypes DEF OpenOutbox, Holding, Leased, Returning, Unleased
  <2>4. RestTypeOK'
    BY <1>17, <1>1, RestUnchanged DEF OpenOutbox
  <2> QED
    BY <2>2, <2>3, <2>4
<1>18. CASE RecordMessageId(w)
  <2>1. pc[w] # "dequeuing" /\ run[w] \in Runs
    BY <1>18, <1>3 DEF RecordMessageId
  <2>2. StoreTypeOK'
    BY <1>18, <2>1, <1>1, StoreUnchanged, StoreCommandTypes, LaneCommandTypes DEF RecordMessageId
  <2>3. LaneTypeOK'
    BY <1>18, <2>1, <1>1, LaneTypes DEF RecordMessageId, Holding, Leased, Returning, Unleased
  <2>4. RestTypeOK'
    BY <1>18, <1>1, RestUnchanged DEF RecordMessageId
  <2> QED
    BY <2>2, <2>3, <2>4
<1>19. CASE ClearActivePointer(w)
  <2>1. pc[w] # "dequeuing" /\ run[w] \in Runs
    BY <1>19, <1>3 DEF ClearActivePointer
  <2>2. StoreTypeOK'
    BY <1>19, <2>1, <1>1, StoreUnchanged, StoreCommandTypes, LaneCommandTypes DEF ClearActivePointer
  <2>3. LaneTypeOK'
    BY <1>19, <2>1, <1>1, LaneTypes DEF ClearActivePointer, Holding, Leased, Returning, Unleased
  <2>4. RestTypeOK'
    BY <1>19, <1>1, RestUnchanged DEF ClearActivePointer
  <2> QED
    BY <2>2, <2>3, <2>4
<1>20. CASE ReleaseLease(w)
  <2>1. pc[w] # "dequeuing" /\ run[w] \in Runs
    BY <1>20, <1>3 DEF ReleaseLease
  <2>2. StoreTypeOK'
    BY <1>20, <2>1, <1>1, StoreUnchanged, StoreCommandTypes, LaneCommandTypes DEF ReleaseLease
  <2>3. LaneTypeOK'
    BY <1>20, <2>1, <1>1, LaneTypes DEF ReleaseLease, Holding, Leased, Returning, Unleased
  <2>4. RestTypeOK'
    BY <1>20, <1>1, RestUnchanged DEF ReleaseLease
  <2> QED
    BY <2>2, <2>3, <2>4
<1>21. CASE SendAnswer(w)
  <2>1. pc[w] # "dequeuing" /\ run[w] \in Runs
    BY <1>21, <1>3 DEF SendAnswer
  <2>2. StoreTypeOK'
    BY <1>21, <2>1, <1>1, StoreUnchanged DEF SendAnswer
  <2>3. LaneTypeOK'
    BY <1>21, <2>1, <1>1, LaneTypes DEF SendAnswer, Holding, Leased, Returning, Unleased
  <2>4. RestTypeOK'
    BY <1>21, <2>1, <1>1 DEF SendAnswer, RestTypeOK, handlerVars
  <2> QED
    BY <2>2, <2>3, <2>4
<1>22. CASE ClaimLease(w)
  <2>1. pc[w] # "dequeuing" /\ run[w] \in Runs
    BY <1>22, <1>3 DEF ClaimLease
  <2>2. StoreTypeOK'
    BY <1>22, <2>1, <1>1, StoreUnchanged, StoreCommandTypes, LaneCommandTypes DEF ClaimLease
  <2>3. LaneTypeOK'
    BY <1>22, <2>1, <1>1, LaneTypes DEF ClaimLease, Holding, Leased, Returning, Unleased
  <2>4. RestTypeOK'
    BY <1>22, <1>1, RestUnchanged DEF ClaimLease
  <2> QED
    BY <2>2, <2>3, <2>4
<1>23. CASE RecordRetryLater(w)
  <2>1. pc[w] # "dequeuing" /\ run[w] \in Runs
    BY <1>23, <1>3 DEF RecordRetryLater
  <2>2. StoreTypeOK'
    BY <1>23, <2>1, <1>1, StoreUnchanged, StoreCommandTypes, LaneCommandTypes DEF RecordRetryLater
  <2>3. LaneTypeOK'
    BY <1>23, <2>1, <1>1, LaneTypes DEF RecordRetryLater, Holding, Leased, Returning, Unleased
  <2>4. RestTypeOK'
    BY <1>23, <1>1, RestUnchanged DEF RecordRetryLater
  <2> QED
    BY <2>2, <2>3, <2>4
<1>24. CASE ReleaseAfterFailure(w)
  <2>1. pc[w] # "dequeuing" /\ run[w] \in Runs
    BY <1>24, <1>3 DEF ReleaseAfterFailure
  <2>2. StoreTypeOK'
    BY <1>24, <2>1, <1>1, StoreUnchanged, StoreCommandTypes, LaneCommandTypes DEF ReleaseAfterFailure
  <2>3. LaneTypeOK'
    BY <1>24, <2>1, <1>1, LaneTypes DEF ReleaseAfterFailure, Holding, Leased, Returning, Unleased
  <2>4. RestTypeOK'
    BY <1>24, <1>1, RestUnchanged DEF ReleaseAfterFailure
  <2> QED
    BY <2>2, <2>3, <2>4
<1>25. CASE Acknowledge(w)
  <2>1. pc[w] # "dequeuing" /\ run[w] \in Runs
    BY <1>25, <1>3 DEF Acknowledge
  <2>2. StoreTypeOK'
    BY <1>25, <2>1, <1>1, StoreUnchanged, StoreCommandTypes, LaneCommandTypes DEF Acknowledge
  <2>3. LaneTypeOK'
    BY <1>25, <2>1, <1>1, LaneTypes DEF Acknowledge, Holding, Leased, Returning, Unleased
  <2>4. RestTypeOK'
    BY <1>25, <1>1, RestUnchanged DEF Acknowledge
  <2> QED
    BY <2>2, <2>3, <2>4
<1> QED
  BY <1>4, <1>5, <1>6, <1>7, <1>8, <1>9, <1>10, <1>11, <1>12, <1>13, <1>14, <1>15, <1>16, <1>17, <1>18, <1>19, <1>20, <1>21, <1>22, <1>23, <1>24, <1>25 DEF LaneStep


LEMMA TypeStep == TypeOK /\ [Next]_vars => TypeOK'
<1> SUFFICES ASSUME TypeOK, [Next]_vars PROVE TypeOK'
  OBVIOUS
<1> USE StoreAssumption, RunControlAssumption
<1>1. StoreTypeOK /\ LaneTypeOK /\ RestTypeOK
  BY DEF TypeOK, RestTypeOK
<1>2. SUFFICES StoreTypeOK' /\ LaneTypeOK' /\ RestTypeOK'
  BY DEF TypeOK, RestTypeOK
<1>3. CASE UNCHANGED vars
  BY <1>1, <1>3 DEF vars, storeVars, laneVars, discordVars, handlerVars, StoreTypeOK, LaneTypeOK, RestTypeOK
<1>4. ASSUME NEW w \in Workers, NEW r \in Runs, TakeJob(w, r)
      PROVE  StoreTypeOK' /\ LaneTypeOK' /\ RestTypeOK'
  <2>1. StoreTypeOK'
    BY <1>1, <1>4, StoreCommandTypes DEF TakeJob
  <2>2. LaneTypeOK'
    BY <1>1, <1>4 DEF TakeJob, LaneTypeOK, Unleased
  <2>3. RestTypeOK'
    BY <1>1, <1>4, RestUnchanged DEF TakeJob
  <2> QED
    BY <2>1, <2>2, <2>3
<1>5. ASSUME NEW w \in Workers, LaneStep(w)
      PROVE  StoreTypeOK' /\ LaneTypeOK' /\ RestTypeOK'
  BY <1>5, LaneStepTypes DEF TypeOK, RestTypeOK
<1>6. ASSUME NEW r \in Runs, BotStep(r) \/ TimeStep(r)
      PROVE  StoreTypeOK' /\ LaneTypeOK' /\ RestTypeOK'
  <2>1. StoreTypeOK'
    BY <1>1, <1>6, StoreCommandTypes, StoreUnchanged
    DEF BotStep, TimeStep, Enqueue, ObserveStalePointer, ClearStalePointer, ReconcileReads,
        ReconcileInterrupts, OrphanLeaseExpires, HeldLeaseExpires, FinalizeClaimExpires,
        NonceWindowCloses, Terminal
  <2>2. UNCHANGED laneVars
    BY <1>6
    DEF BotStep, TimeStep, Enqueue, ObserveStalePointer, ClearStalePointer, ReconcileReads,
        ReconcileInterrupts, OrphanLeaseExpires, HeldLeaseExpires, FinalizeClaimExpires,
        NonceWindowCloses
  <2>3. LaneTypeOK'
    BY <1>1, <2>2 DEF LaneTypeOK, laneVars
  <2>4. RestTypeOK'
    <3>1. CASE BotStep(r)
      BY <1>1, <3>1
      DEF BotStep, Enqueue, ObserveStalePointer, ClearStalePointer, ReconcileReads,
          ReconcileInterrupts, RestTypeOK, discordVars, handlerVars
    <3>2. CASE HeldLeaseExpires(r)
      BY <1>1, <3>2 DEF HeldLeaseExpires, RestTypeOK, discordVars, handlerVars
    <3>3. CASE NonceWindowCloses(r)
      BY <1>1, <3>3 DEF NonceWindowCloses, RestTypeOK, handlerVars
    <3>4. CASE OrphanLeaseExpires(r) \/ FinalizeClaimExpires(r)
      BY <1>1, <3>4, RestUnchanged DEF OrphanLeaseExpires, FinalizeClaimExpires
    <3> QED
      BY <1>6, <3>1, <3>2, <3>3, <3>4 DEF TimeStep
  <2> QED
    BY <2>1, <2>3, <2>4
<1>7. ASSUME NEW w \in Workers, Crash(w) \/ CommandFails(w)
      PROVE  StoreTypeOK' /\ LaneTypeOK' /\ RestTypeOK'
  <2>1. StoreTypeOK'
    BY <1>1, <1>7, StoreUnchanged DEF Crash, CommandFails
  <2>2. LaneTypeOK'
    BY <1>1, <1>7, LaneTypes, NotHolding, ErrorTypes DEF Crash, CommandFails
  <2>3. RestTypeOK'
    BY <1>1, <1>7 DEF Crash, CommandFails, RestTypeOK, discordVars, handlerVars
  <2> QED
    BY <2>1, <2>2, <2>3
<1> QED
  BY <1>3, <1>4, <1>5, <1>6, <1>7 DEF Next

(* The store, the lanes and the handlers keep their types, for every number of *)
(* runs, threads and lanes.                                                    *)
THEOREM TypeCorrect == Spec => []TypeOK
<1>1. Init => TypeOK
  BY TypeInit
<1>2. TypeOK /\ [Next]_vars => TypeOK'
  BY TypeStep
<1> QED
  BY <1>1, <1>2, PTL DEF Spec

-----------------------------------------------------------------------------
(* Settlement, also under stalls.  The argument: once a run is settled it is  *)
(* settled in the history whatever a zombie does to its hash, and a pointer   *)
(* or a job is only ever given up by someone who knows that.                  *)

\* Where a lane works on a run that has been settled.
SettledAt ==
  {"completingUncertain", "clearingActivePointer", "releasing",
   "acknowledging", "skippingStaleJob", "acking", "ackingDeadLetter"}

\* Only an accepted run is settled, retried, delivered or handled.
AcceptedOnly ==
  /\ \A r \in Runs : status[r] = "absent" =>
       r \notin settled /\ retryLaterCount[r] = 0 /\ job[r] = "none"
  /\ \A w \in Workers : pc[w] # "dequeuing" => status[run[w]] # "absent"

\* Only a settled run gives up its pointer.
UnpointedIsSettled ==
  \A r \in Runs : status[r] = "absent" \/ IsActive(r) \/ r \in settled

Settlement ==
  /\ AcceptedOnly
  /\ \A r \in Runs : status[r] \in Terminal => r \in settled
  /\ UnpointedIsSettled
  /\ \A w \in Workers : pc[w] \in SettledAt => run[w] \in settled
  /\ clearing \subseteq settled
  /\ AckedWasSettled
  /\ ExhaustedRunFreesThread

\* Where a lane is sure of the answer it is about to post.
AnsweredAt ==
  {"successClaim", "recordingFinalizeAttempt", "postVerify", "outboxOpen", "outboxSend",
   "outboxRecord", "surfaceIdle"}

\* A settled run is live again only after a zombie's HSET, which has a result.
Answering ==
  /\ \A r \in settled : status[r] \in Live => result[r] # "none"
  /\ \A w \in Workers :
       /\ pc[w] \in AnsweredAt => result[run[w]] # "none"
       /\ pc[w] = "successVerify" => result[run[w]] # "none" \/ run[w] \in settled
       /\ seen[w].result # "none" => pc[w] # "dequeuing" /\ result[run[w]] # "none"
  /\ AnswerIsDurable

(* Where a failed command takes a lane that keeps its job: the lane holds its   *)
(* lease before, and goes to a place where it relies on nothing.                *)
LEMMA ErrorMoves ==
  ASSUME NEW p, NEW q \in Holding, <<p, q>> \in OnError
  PROVE  /\ p \in Holding
         /\ q \in {"recordingRetryLater", "failureVerify", "releasingAfterFailure", "checkingTerminal"}
  BY DEF OnError, Holding, Leased, Returning

LEMMA SettlementStep == TypeOK /\ Settlement /\ [Next]_vars => Settlement'
<1> SUFFICES ASSUME TypeOK, Settlement, [Next]_vars PROVE Settlement'
  OBVIOUS
<1> USE StoreAssumption, RunControlAssumption DEF TypeOK, StoreTypeOK, LaneTypeOK, Live, Terminal, IsActive, Settlement, AcceptedOnly, UnpointedIsSettled, SettledAt, AckedWasSettled, ExhaustedRunFreesThread, Holding, Leased, Returning, Unleased
<1>1. CASE UNCHANGED vars
  BY <1>1 DEF vars, storeVars, laneVars, discordVars, handlerVars
<1>2. ASSUME NEW w \in Workers, NEW r \in Runs, TakeJob(w, r) PROVE Settlement'
  BY <1>2 DEF TakeJob, DeliverJob, storeVars, laneVars, discordVars, handlerVars
<1>3. ASSUME NEW w \in Workers, LoadRun(w) PROVE Settlement'
  BY <1>3 DEF LoadRun, storeVars, laneVars, discordVars, handlerVars
<1>4. ASSUME NEW w \in Workers, LoadActiveRunId(w) PROVE Settlement'
  BY <1>4 DEF LoadActiveRunId, Goto, storeVars, laneVars, discordVars, handlerVars
<1>5. ASSUME NEW w \in Workers, ClaimLease(w) PROVE Settlement'
  <2>1. CASE ClaimRunLease(w, run[w], seen[w].status)
    BY <1>5, <2>1 DEF ClaimLease, ClaimRunLease, CanClaim, HasPersistedResult, Goto, storeVars, laneVars, discordVars, handlerVars
  <2>2. CASE Finish(w) /\ UNCHANGED storeVars
    BY <1>5, <2>2 DEF ClaimLease, Finish, NotLoaded, storeVars, laneVars, discordVars, handlerVars
  <2> QED
    BY <1>5, <2>1, <2>2 DEF ClaimLease
<1>6. ASSUME NEW w \in Workers, EnsureOwnership(w) PROVE Settlement'
  BY <1>6 DEF EnsureOwnership, Goto, Owns, VerifiedNext, storeVars, laneVars, discordVars, handlerVars
<1>7. ASSUME NEW w \in Workers, Execute(w) PROVE Settlement'
  BY <1>7 DEF Execute, Goto, storeVars, laneVars, discordVars, handlerVars
<1>8. ASSUME NEW w \in Workers, AbortExecution(w) PROVE Settlement'
  BY <1>8 DEF AbortExecution, Goto, storeVars, laneVars, discordVars, handlerVars
<1>9. ASSUME NEW w \in Workers, ReadStatus(w) PROVE Settlement'
  BY <1>9 DEF ReadStatus, Goto, PreserveTerminal, ReadNext, storeVars, laneVars, discordVars, handlerVars
<1>10. ASSUME NEW w \in Workers, PatchRunFinalizing(w) PROVE Settlement'
  BY <1>10 DEF PatchRunFinalizing, Goto, WriteFinalizing, storeVars, laneVars, discordVars, handlerVars
<1>11. ASSUME NEW w \in Workers, MarkTerminal(w) PROVE Settlement'
  BY <1>11 DEF MarkTerminal, Goto, WriteTerminal, storeVars, laneVars, discordVars, handlerVars
<1>12. ASSUME NEW w \in Workers, ClaimSuccess(w) PROVE Settlement'
  BY <1>12 DEF ClaimSuccess, Goto, AcquireFinalize, storeVars, laneVars, discordVars, handlerVars
<1>13. ASSUME NEW w \in Workers, ClaimFailure(w) PROVE Settlement'
  BY <1>13 DEF ClaimFailure, Goto, AcquireFinalize, storeVars, laneVars, discordVars, handlerVars
<1>14. ASSUME NEW w \in Workers, Complete(w) PROVE Settlement'
  BY <1>14 DEF Complete, Goto, CompleteFinalize, CompletedNext, storeVars, laneVars, discordVars, handlerVars
<1>15. ASSUME NEW w \in Workers, OpenOutbox(w) PROVE Settlement'
  BY <1>15 DEF OpenOutbox, Goto, WriteOutbox, storeVars, laneVars, discordVars, handlerVars
<1>16. ASSUME NEW w \in Workers, SendAnswer(w) PROVE Settlement'
  BY <1>16 DEF SendAnswer, Goto, storeVars, laneVars, discordVars, handlerVars
<1>17. ASSUME NEW w \in Workers, RecordMessageId(w) PROVE Settlement'
  BY <1>17 DEF RecordMessageId, Goto, WriteOutbox, storeVars, laneVars, discordVars, handlerVars
<1>18. ASSUME NEW w \in Workers, SettleSurface(w) PROVE Settlement'
  BY <1>18 DEF SettleSurface, Goto, storeVars, laneVars, discordVars, handlerVars
<1>19. ASSUME NEW w \in Workers, ClearActivePointer(w) PROVE Settlement'
  BY <1>19 DEF ClearActivePointer, Goto, ClearActiveIfMatches, storeVars, laneVars, discordVars, handlerVars
<1>20. ASSUME NEW w \in Workers, ReleaseLease(w) PROVE Settlement'
  BY <1>20 DEF ReleaseLease, Goto, ReleaseRunLease, storeVars, laneVars, discordVars, handlerVars
<1>21. ASSUME NEW w \in Workers, CheckTerminal(w) PROVE Settlement'
  BY <1>21 DEF CheckTerminal, Goto, storeVars, laneVars, discordVars, handlerVars
<1>22. ASSUME NEW w \in Workers, RecordRetryLater(w) PROVE Settlement'
  <2> DEFINE r == run[w]
  <2>1. r \in Runs
    BY <1>22 DEF RecordRetryLater
  <2>2. CASE UNCHANGED storeVars /\ Finish(w)
    BY <1>22, <2>1, <2>2 DEF RecordRetryLater, Finish, NotLoaded, storeVars, laneVars, discordVars, handlerVars
  <2>3. CASE Owns(w, r) /\ CountRetryLater(r) /\ Finish(w)
    BY <1>22, <2>1, <2>3 DEF RecordRetryLater, Finish, NotLoaded, Owns, CountRetryLater, ExhaustsRetries, storeVars, laneVars, discordVars, handlerVars
  <2>4. CASE Owns(w, r) /\ DeadLetter(r) /\ Goto(w, "ackingDeadLetter")
    BY <1>22, <2>1, <2>4 DEF RecordRetryLater, Goto, Owns, DeadLetter, storeVars, laneVars, discordVars, handlerVars
  <2> QED
    BY <1>22, <2>2, <2>3, <2>4 DEF RecordRetryLater
<1>23. ASSUME NEW w \in Workers, ReleaseAfterFailure(w) PROVE Settlement'
  BY <1>23 DEF ReleaseAfterFailure, Finish, NotLoaded, ReleaseRunLease, storeVars, laneVars, discordVars, handlerVars
<1>24. ASSUME NEW w \in Workers, Acknowledge(w) PROVE Settlement'
  BY <1>24 DEF Acknowledge, Finish, NotLoaded, AcknowledgeJob, storeVars, laneVars, discordVars, handlerVars
<1>25. ASSUME NEW r \in Runs, Enqueue(r) PROVE Settlement'
  BY <1>25 DEF Enqueue, AtomicEnqueueRun, storeVars, laneVars, discordVars, handlerVars
<1>26. ASSUME NEW r \in Runs, ObserveStalePointer(r) PROVE Settlement'
  BY <1>26 DEF ObserveStalePointer, storeVars, laneVars, discordVars, handlerVars
<1>27. ASSUME NEW r \in Runs, ClearStalePointer(r) PROVE Settlement'
  BY <1>27 DEF ClearStalePointer, ClearActiveIfMatches, storeVars, laneVars, discordVars, handlerVars
<1>28. ASSUME NEW r \in Runs, ReconcileReads(r) PROVE Settlement'
  BY <1>28 DEF ReconcileReads, storeVars, laneVars, discordVars, handlerVars
<1>29. ASSUME NEW r \in Runs, ReconcileInterrupts(r) PROVE Settlement'
  BY <1>29 DEF ReconcileInterrupts, WriteTerminal, storeVars, laneVars, discordVars, handlerVars
<1>30. ASSUME NEW r \in Runs, OrphanLeaseExpires(r) PROVE Settlement'
  BY <1>30 DEF OrphanLeaseExpires, ExpireLease, storeVars, laneVars, discordVars, handlerVars
<1>31. ASSUME NEW r \in Runs, HeldLeaseExpires(r) PROVE Settlement'
  BY <1>31 DEF HeldLeaseExpires, ExpireLease, storeVars, laneVars, discordVars, handlerVars
<1>32. ASSUME NEW r \in Runs, FinalizeClaimExpires(r) PROVE Settlement'
  BY <1>32 DEF FinalizeClaimExpires, ExpireFinalize, storeVars, laneVars, discordVars, handlerVars
<1>33. ASSUME NEW r \in Runs, NonceWindowCloses(r) PROVE Settlement'
  BY <1>33 DEF NonceWindowCloses, storeVars, laneVars, discordVars, handlerVars
<1>34. ASSUME NEW w \in Workers, Crash(w) PROVE Settlement'
  BY <1>34 DEF Crash, Finish, NotLoaded, storeVars, laneVars, discordVars, handlerVars
<1>35. ASSUME NEW w \in Workers, CommandFails(w) PROVE Settlement'
  <2>1. CASE Finish(w)
    BY <1>35, <2>1 DEF CommandFails, Finish, NotLoaded, storeVars, discordVars, handlerVars
  <2>2. ASSUME NEW p \in Holding, <<pc[w], p>> \in OnError, Goto(w, p) PROVE Settlement'
    <3>1. /\ pc[w] \in Holding
          /\ p \in {"recordingRetryLater", "failureVerify", "releasingAfterFailure", "checkingTerminal"}
      BY <2>2, ErrorMoves
    <3> QED
      BY <1>35, <2>2, <3>1 DEF CommandFails, Goto, storeVars, discordVars, handlerVars
  <2> QED
    BY <1>35, <2>1, <2>2 DEF CommandFails
<1> QED
  BY <1>1, <1>2, <1>3, <1>4, <1>5, <1>6, <1>7, <1>8, <1>9, <1>10, <1>11, <1>12, <1>13, <1>14, <1>15, <1>16, <1>17, <1>18, <1>19, <1>20, <1>21, <1>22, <1>23, <1>24, <1>25, <1>26, <1>27, <1>28, <1>29, <1>30, <1>31, <1>32, <1>33, <1>34, <1>35 DEF Next, LaneStep, BotStep, TimeStep

LEMMA AnsweringStep == TypeOK /\ Settlement /\ Answering /\ [Next]_vars => Answering'
<1> SUFFICES ASSUME TypeOK, Settlement /\ Answering, [Next]_vars PROVE Answering'
  OBVIOUS
<1> USE StoreAssumption, RunControlAssumption DEF TypeOK, StoreTypeOK, LaneTypeOK, Settlement, AcceptedOnly, Live, Terminal, Answer, Answering, AnsweredAt, AnswerIsDurable, Holding, Leased, Returning, Unleased
<1>1. CASE UNCHANGED vars
  BY <1>1 DEF vars, storeVars, laneVars, discordVars, handlerVars
<1>2. ASSUME NEW w \in Workers, NEW r \in Runs, TakeJob(w, r) PROVE Answering'
  BY <1>2 DEF TakeJob, DeliverJob, storeVars, laneVars, discordVars, handlerVars
<1>3. ASSUME NEW w \in Workers, LoadRun(w) PROVE Answering'
  BY <1>3 DEF LoadRun, storeVars, laneVars, discordVars, handlerVars
<1>4. ASSUME NEW w \in Workers, LoadActiveRunId(w) PROVE Answering'
  BY <1>4 DEF LoadActiveRunId, Goto, storeVars, laneVars, discordVars, handlerVars
<1>5. ASSUME NEW w \in Workers, ClaimLease(w) PROVE Answering'
  <2>1. CASE ClaimRunLease(w, run[w], seen[w].status)
    BY <1>5, <2>1 DEF ClaimLease, ClaimRunLease, CanClaim, HasPersistedResult, Goto, storeVars, laneVars, discordVars, handlerVars
  <2>2. CASE Finish(w) /\ UNCHANGED storeVars
    BY <1>5, <2>2 DEF ClaimLease, Finish, NotLoaded, storeVars, laneVars, discordVars, handlerVars
  <2> QED
    BY <1>5, <2>1, <2>2 DEF ClaimLease
<1>6. ASSUME NEW w \in Workers, EnsureOwnership(w) PROVE Answering'
  BY <1>6 DEF EnsureOwnership, Goto, Owns, VerifiedNext, storeVars, laneVars, discordVars, handlerVars
<1>7. ASSUME NEW w \in Workers, Execute(w) PROVE Answering'
  BY <1>7 DEF Execute, Goto, storeVars, laneVars, discordVars, handlerVars
<1>8. ASSUME NEW w \in Workers, AbortExecution(w) PROVE Answering'
  BY <1>8 DEF AbortExecution, Goto, storeVars, laneVars, discordVars, handlerVars
<1>9. ASSUME NEW w \in Workers, ReadStatus(w) PROVE Answering'
  BY <1>9 DEF ReadStatus, Goto, PreserveTerminal, ReadNext, storeVars, laneVars, discordVars, handlerVars
<1>10. ASSUME NEW w \in Workers, PatchRunFinalizing(w) PROVE Answering'
  BY <1>10 DEF PatchRunFinalizing, Goto, WriteFinalizing, storeVars, laneVars, discordVars, handlerVars
<1>11. ASSUME NEW w \in Workers, MarkTerminal(w) PROVE Answering'
  BY <1>11 DEF MarkTerminal, Goto, WriteTerminal, storeVars, laneVars, discordVars, handlerVars
<1>12. ASSUME NEW w \in Workers, ClaimSuccess(w) PROVE Answering'
  BY <1>12 DEF ClaimSuccess, Goto, AcquireFinalize, storeVars, laneVars, discordVars, handlerVars
<1>13. ASSUME NEW w \in Workers, ClaimFailure(w) PROVE Answering'
  BY <1>13 DEF ClaimFailure, Goto, AcquireFinalize, storeVars, laneVars, discordVars, handlerVars
<1>14. ASSUME NEW w \in Workers, Complete(w) PROVE Answering'
  BY <1>14 DEF Complete, Goto, CompleteFinalize, CompletedNext, storeVars, laneVars, discordVars, handlerVars
<1>15. ASSUME NEW w \in Workers, OpenOutbox(w) PROVE Answering'
  BY <1>15 DEF OpenOutbox, Goto, WriteOutbox, storeVars, laneVars, discordVars, handlerVars
<1>16. ASSUME NEW w \in Workers, SendAnswer(w) PROVE Answering'
  BY <1>16 DEF SendAnswer, Goto, storeVars, laneVars, discordVars, handlerVars
<1>17. ASSUME NEW w \in Workers, RecordMessageId(w) PROVE Answering'
  BY <1>17 DEF RecordMessageId, Goto, WriteOutbox, storeVars, laneVars, discordVars, handlerVars
<1>18. ASSUME NEW w \in Workers, SettleSurface(w) PROVE Answering'
  BY <1>18 DEF SettleSurface, Goto, storeVars, laneVars, discordVars, handlerVars
<1>19. ASSUME NEW w \in Workers, ClearActivePointer(w) PROVE Answering'
  BY <1>19 DEF ClearActivePointer, Goto, ClearActiveIfMatches, storeVars, laneVars, discordVars, handlerVars
<1>20. ASSUME NEW w \in Workers, ReleaseLease(w) PROVE Answering'
  BY <1>20 DEF ReleaseLease, Goto, ReleaseRunLease, storeVars, laneVars, discordVars, handlerVars
<1>21. ASSUME NEW w \in Workers, CheckTerminal(w) PROVE Answering'
  BY <1>21 DEF CheckTerminal, Goto, storeVars, laneVars, discordVars, handlerVars
<1>22. ASSUME NEW w \in Workers, RecordRetryLater(w) PROVE Answering'
  <2> DEFINE r == run[w]
  <2>1. r \in Runs
    BY <1>22 DEF RecordRetryLater
  <2>2. CASE UNCHANGED storeVars /\ Finish(w)
    BY <1>22, <2>1, <2>2 DEF RecordRetryLater, Finish, NotLoaded, storeVars, laneVars, discordVars, handlerVars
  <2>3. CASE Owns(w, r) /\ CountRetryLater(r) /\ Finish(w)
    BY <1>22, <2>1, <2>3 DEF RecordRetryLater, Finish, NotLoaded, Owns, CountRetryLater, ExhaustsRetries, storeVars, laneVars, discordVars, handlerVars
  <2>4. CASE Owns(w, r) /\ DeadLetter(r) /\ Goto(w, "ackingDeadLetter")
    BY <1>22, <2>1, <2>4 DEF RecordRetryLater, Goto, Owns, DeadLetter, storeVars, laneVars, discordVars, handlerVars
  <2> QED
    BY <1>22, <2>2, <2>3, <2>4 DEF RecordRetryLater
<1>23. ASSUME NEW w \in Workers, ReleaseAfterFailure(w) PROVE Answering'
  BY <1>23 DEF ReleaseAfterFailure, Finish, NotLoaded, ReleaseRunLease, storeVars, laneVars, discordVars, handlerVars
<1>24. ASSUME NEW w \in Workers, Acknowledge(w) PROVE Answering'
  BY <1>24 DEF Acknowledge, Finish, NotLoaded, AcknowledgeJob, storeVars, laneVars, discordVars, handlerVars
<1>25. ASSUME NEW r \in Runs, Enqueue(r) PROVE Answering'
  BY <1>25 DEF Enqueue, AtomicEnqueueRun, storeVars, laneVars, discordVars, handlerVars
<1>26. ASSUME NEW r \in Runs, ObserveStalePointer(r) PROVE Answering'
  BY <1>26 DEF ObserveStalePointer, storeVars, laneVars, discordVars, handlerVars
<1>27. ASSUME NEW r \in Runs, ClearStalePointer(r) PROVE Answering'
  BY <1>27 DEF ClearStalePointer, ClearActiveIfMatches, storeVars, laneVars, discordVars, handlerVars
<1>28. ASSUME NEW r \in Runs, ReconcileReads(r) PROVE Answering'
  BY <1>28 DEF ReconcileReads, storeVars, laneVars, discordVars, handlerVars
<1>29. ASSUME NEW r \in Runs, ReconcileInterrupts(r) PROVE Answering'
  BY <1>29 DEF ReconcileInterrupts, WriteTerminal, storeVars, laneVars, discordVars, handlerVars
<1>30. ASSUME NEW r \in Runs, OrphanLeaseExpires(r) PROVE Answering'
  BY <1>30 DEF OrphanLeaseExpires, ExpireLease, storeVars, laneVars, discordVars, handlerVars
<1>31. ASSUME NEW r \in Runs, HeldLeaseExpires(r) PROVE Answering'
  BY <1>31 DEF HeldLeaseExpires, ExpireLease, storeVars, laneVars, discordVars, handlerVars
<1>32. ASSUME NEW r \in Runs, FinalizeClaimExpires(r) PROVE Answering'
  BY <1>32 DEF FinalizeClaimExpires, ExpireFinalize, storeVars, laneVars, discordVars, handlerVars
<1>33. ASSUME NEW r \in Runs, NonceWindowCloses(r) PROVE Answering'
  BY <1>33 DEF NonceWindowCloses, storeVars, laneVars, discordVars, handlerVars
<1>34. ASSUME NEW w \in Workers, Crash(w) PROVE Answering'
  BY <1>34 DEF Crash, Finish, NotLoaded, storeVars, laneVars, discordVars, handlerVars
<1>35. ASSUME NEW w \in Workers, CommandFails(w) PROVE Answering'
  <2>1. CASE Finish(w)
    BY <1>35, <2>1 DEF CommandFails, Finish, NotLoaded, storeVars, discordVars, handlerVars
  <2>2. ASSUME NEW p \in Holding, <<pc[w], p>> \in OnError, Goto(w, p) PROVE Answering'
    <3>1. /\ pc[w] \in Holding
          /\ p \in {"recordingRetryLater", "failureVerify", "releasingAfterFailure", "checkingTerminal"}
      BY <2>2, ErrorMoves
    <3> QED
      BY <1>35, <2>2, <3>1 DEF CommandFails, Goto, storeVars, discordVars, handlerVars
  <2> QED
    BY <1>35, <2>1, <2>2 DEF CommandFails
<1> QED
  BY <1>1, <1>2, <1>3, <1>4, <1>5, <1>6, <1>7, <1>8, <1>9, <1>10, <1>11, <1>12, <1>13, <1>14, <1>15, <1>16, <1>17, <1>18, <1>19, <1>20, <1>21, <1>22, <1>23, <1>24, <1>25, <1>26, <1>27, <1>28, <1>29, <1>30, <1>31, <1>32, <1>33, <1>34, <1>35 DEF Next, LaneStep, BotStep, TimeStep

LEMMA SettlementInit == Init => Settlement /\ Answering
  BY StoreAssumption, RunControlAssumption
  DEF Init, StoreInit, Settlement, AcceptedOnly, UnpointedIsSettled, SettledAt, AckedWasSettled,
      ExhaustedRunFreesThread, Answering, AnsweredAt, AnswerIsDurable, NotLoaded, Live, Terminal

LEMMA SettlementInvariant == Spec => [](TypeOK /\ Settlement /\ Answering)
<1>1. Init => TypeOK /\ Settlement /\ Answering
  BY TypeInit, SettlementInit
<1>2. TypeOK /\ Settlement /\ Answering /\ [Next]_vars => (TypeOK /\ Settlement /\ Answering)'
  BY TypeStep, SettlementStep, AnsweringStep
<1> QED
  BY <1>1, <1>2, PTL DEF Spec

(* Whatever stalls, crashes or fails, a job is acknowledged only after its run *)
(* has been settled.                                                           *)
THEOREM AckedJobsWereSettled == Spec => []AckedWasSettled
<1>1. Settlement => AckedWasSettled
  BY DEF Settlement
<1> QED
  BY <1>1, SettlementInvariant, PTL

(* A run that used up its retries is settled and its thread is free. *)
THEOREM DeadLetterFreesThread == Spec => []ExhaustedRunFreesThread
<1>1. Settlement => ExhaustedRunFreesThread
  BY DEF Settlement
<1> QED
  BY <1>1, SettlementInvariant, PTL

(* Nothing is posted that recovery could not find in the run hash. *)
THEOREM PostedIsDurable == Spec => []AnswerIsDurable
<1>1. Answering => AnswerIsDurable
  BY DEF Answering
<1> QED
  BY <1>1, SettlementInvariant, PTL

=============================================================================
