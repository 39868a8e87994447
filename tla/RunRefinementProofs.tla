------------------------ MODULE RunRefinementProofs ------------------------
(* While no live lane stalls, RunControl implements RunLifecycle.              *)
EXTENDS RunExclusionProofs

\* The outbox is opened before the first send, and a send only happens while
\* the nonce of an earlier one is still known to Discord.
Posting ==
  /\ \A r \in Runs : outbox[r] = "none" => windowOpen[r] /\ posted[r] = 0
  /\ \A w \in Workers : pc[w] = "outboxSend" => windowOpen[run[w]] /\ outbox[run[w]] # "none"
  /\ AnswerPostedOnce

LEMMA PostingStep ==
  ASSUME ~Stalls, TypeOK, Exclusion, Posting, [Next]_vars
  PROVE  Posting'
<1> USE StoreAssumption, RunControlAssumption DEF TypeOK, StoreTypeOK, LaneTypeOK, Live, Terminal, Posting, AnswerPostedOnce, Holding, Leased, Returning, Unleased
<1>1. CASE UNCHANGED vars
  BY <1>1 DEF vars, storeVars, laneVars, discordVars, handlerVars
<1>2. ASSUME NEW w \in Workers, NEW r \in Runs, TakeJob(w, r) PROVE Posting'
  BY <1>2 DEF TakeJob, DeliverJob, storeVars, laneVars, discordVars, handlerVars
<1>3. ASSUME NEW w \in Workers, LoadRun(w) PROVE Posting'
  BY <1>3 DEF LoadRun, storeVars, laneVars, discordVars, handlerVars
<1>4. ASSUME NEW w \in Workers, LoadActiveRunId(w) PROVE Posting'
  BY <1>4 DEF LoadActiveRunId, Goto, storeVars, laneVars, discordVars, handlerVars
<1>5. ASSUME NEW w \in Workers, ClaimLease(w) PROVE Posting'
  BY <1>5 DEF ClaimLease, ClaimRunLease, CanClaim, HasPersistedResult, Goto, Finish, NotLoaded, storeVars, laneVars, discordVars, handlerVars
<1>6. ASSUME NEW w \in Workers, EnsureOwnership(w) PROVE Posting'
  BY <1>6 DEF EnsureOwnership, Goto, Owns, VerifiedNext, storeVars, laneVars, discordVars, handlerVars
<1>7. ASSUME NEW w \in Workers, Execute(w) PROVE Posting'
  BY <1>7 DEF Execute, Goto, storeVars, laneVars, discordVars, handlerVars
<1>8. ASSUME NEW w \in Workers, AbortExecution(w) PROVE Posting'
  BY <1>8 DEF AbortExecution, Goto, storeVars, laneVars, discordVars, handlerVars
<1>9. ASSUME NEW w \in Workers, ReadStatus(w) PROVE Posting'
  BY <1>9 DEF ReadStatus, Goto, PreserveTerminal, ReadNext, storeVars, laneVars, discordVars, handlerVars
<1>10. ASSUME NEW w \in Workers, PatchRunFinalizing(w) PROVE Posting'
  BY <1>10 DEF PatchRunFinalizing, Goto, WriteFinalizing, storeVars, laneVars, discordVars, handlerVars
<1>11. ASSUME NEW w \in Workers, MarkTerminal(w) PROVE Posting'
  BY <1>11 DEF MarkTerminal, Goto, WriteTerminal, storeVars, laneVars, discordVars, handlerVars
<1>12. ASSUME NEW w \in Workers, ClaimSuccess(w) PROVE Posting'
  BY <1>12 DEF ClaimSuccess, Goto, AcquireFinalize, storeVars, laneVars, discordVars, handlerVars
<1>13. ASSUME NEW w \in Workers, ClaimFailure(w) PROVE Posting'
  BY <1>13 DEF ClaimFailure, Goto, AcquireFinalize, storeVars, laneVars, discordVars, handlerVars
<1>14. ASSUME NEW w \in Workers, Complete(w) PROVE Posting'
  BY <1>14 DEF Complete, Goto, CompleteFinalize, CompletedNext, storeVars, laneVars, discordVars, handlerVars
<1>15. ASSUME NEW w \in Workers, OpenOutbox(w) PROVE Posting'
  BY <1>15 DEF Exclusion, LiveAt, OpenOutbox, Goto, WriteOutbox, storeVars, laneVars, discordVars, handlerVars
<1>16. ASSUME NEW w \in Workers, SendAnswer(w) PROVE Posting'
  BY <1>16 DEF SendAnswer, Goto, storeVars, laneVars, discordVars, handlerVars
<1>17. ASSUME NEW w \in Workers, RecordMessageId(w) PROVE Posting'
  BY <1>17 DEF RecordMessageId, Goto, WriteOutbox, storeVars, laneVars, discordVars, handlerVars
<1>18. ASSUME NEW w \in Workers, SettleSurface(w) PROVE Posting'
  BY <1>18 DEF SettleSurface, Goto, storeVars, laneVars, discordVars, handlerVars
<1>19. ASSUME NEW w \in Workers, ClearActivePointer(w) PROVE Posting'
  BY <1>19 DEF ClearActivePointer, Goto, ClearActiveIfMatches, storeVars, laneVars, discordVars, handlerVars
<1>20. ASSUME NEW w \in Workers, ReleaseLease(w) PROVE Posting'
  BY <1>20 DEF ReleaseLease, Goto, ReleaseRunLease, storeVars, laneVars, discordVars, handlerVars
<1>21. ASSUME NEW w \in Workers, CheckTerminal(w) PROVE Posting'
  BY <1>21 DEF CheckTerminal, Goto, storeVars, laneVars, discordVars, handlerVars
<1>22. ASSUME NEW w \in Workers, RecordRetryLater(w) PROVE Posting'
  BY <1>22 DEF RecordRetryLater, Goto, Finish, Owns, CountRetryLater, ExhaustsRetries, DeadLetter, storeVars, laneVars, discordVars, handlerVars
<1>23. ASSUME NEW w \in Workers, ReleaseAfterFailure(w) PROVE Posting'
  BY <1>23 DEF ReleaseAfterFailure, Finish, NotLoaded, ReleaseRunLease, storeVars, laneVars, discordVars, handlerVars
<1>24. ASSUME NEW w \in Workers, Acknowledge(w) PROVE Posting'
  BY <1>24 DEF Acknowledge, Finish, NotLoaded, AcknowledgeJob, storeVars, laneVars, discordVars, handlerVars
<1>25. ASSUME NEW r \in Runs, Enqueue(r) PROVE Posting'
  BY <1>25 DEF Enqueue, AtomicEnqueueRun, storeVars, laneVars, discordVars, handlerVars
<1>26. ASSUME NEW r \in Runs, ObserveStalePointer(r) PROVE Posting'
  BY <1>26 DEF ObserveStalePointer, storeVars, laneVars, discordVars, handlerVars
<1>27. ASSUME NEW r \in Runs, ClearStalePointer(r) PROVE Posting'
  BY <1>27 DEF ClearStalePointer, ClearActiveIfMatches, storeVars, laneVars, discordVars, handlerVars
<1>28. ASSUME NEW r \in Runs, ReconcileReads(r) PROVE Posting'
  BY <1>28 DEF ReconcileReads, storeVars, laneVars, discordVars, handlerVars
<1>29. ASSUME NEW r \in Runs, ReconcileInterrupts(r) PROVE Posting'
  BY <1>29 DEF ReconcileInterrupts, WriteTerminal, storeVars, laneVars, discordVars, handlerVars
<1>30. ASSUME NEW r \in Runs, OrphanLeaseExpires(r) PROVE Posting'
  BY <1>30 DEF OrphanLeaseExpires, ExpireLease, storeVars, laneVars, discordVars, handlerVars
<1>31. ASSUME NEW r \in Runs, HeldLeaseExpires(r) PROVE Posting'
  BY <1>31 DEF HeldLeaseExpires, ExpireLease, storeVars, laneVars, discordVars, handlerVars
<1>32. ASSUME NEW r \in Runs, FinalizeClaimExpires(r) PROVE Posting'
  BY <1>32 DEF FinalizeClaimExpires, ExpireFinalize, storeVars, laneVars, discordVars, handlerVars
<1>33. ASSUME NEW r \in Runs, NonceWindowCloses(r) PROVE Posting'
  BY <1>33 DEF NonceWindowCloses, storeVars, laneVars, discordVars, handlerVars
<1>34. ASSUME NEW w \in Workers, Crash(w) PROVE Posting'
  BY <1>34 DEF Crash, Finish, NotLoaded, storeVars, laneVars, discordVars, handlerVars
<1>35. ASSUME NEW w \in Workers, CommandFails(w) PROVE Posting'
  <2>1. CASE Finish(w)
    BY <1>35, <2>1 DEF CommandFails, Finish, NotLoaded, storeVars, discordVars, handlerVars
  <2>2. ASSUME NEW p \in Holding, <<pc[w], p>> \in OnError, Goto(w, p) PROVE Posting'
    <3>1. /\ pc[w] \in Holding
          /\ p \in {"recordingRetryLater", "failureVerify", "releasingAfterFailure", "checkingTerminal"}
      BY <2>2, ErrorMoves
    <3> QED
      BY <1>35, <2>2, <3>1 DEF CommandFails, Goto, storeVars, discordVars, handlerVars
  <2> QED
    BY <1>35, <2>1, <2>2 DEF CommandFails
<1> QED
  BY <1>1, <1>2, <1>3, <1>4, <1>5, <1>6, <1>7, <1>8, <1>9, <1>10, <1>11, <1>12, <1>13, <1>14, <1>15, <1>16, <1>17, <1>18, <1>19, <1>20, <1>21, <1>22, <1>23, <1>24, <1>25, <1>26, <1>27, <1>28, <1>29, <1>30, <1>31, <1>32, <1>33, <1>34, <1>35 DEF Next, LaneStep, BotStep, TimeStep

LEMMA PostingInit == Init => Posting
  BY StoreAssumption DEF Init, StoreInit, Posting, AnswerPostedOnce

LEMMA PostingInvariant ==
  ASSUME ~Stalls
  PROVE  Spec => [](TypeOK /\ Settlement /\ Exclusion /\ Posting)
<1>1. Init => TypeOK /\ Settlement /\ Exclusion /\ Posting
  BY TypeInit, SettlementInit, ExclusionInit, PostingInit
<1>2. TypeOK /\ Settlement /\ Exclusion /\ Posting /\ [Next]_vars
        => (TypeOK /\ Settlement /\ Exclusion /\ Posting)'
  BY TypeStep, SettlementStep, ExclusionStep, PostingStep
<1> QED
  BY <1>1, <1>2, PTL DEF Spec

-----------------------------------------------------------------------------
(* The refinement.  Every step either changes the phase, the pointer or the    *)
(* answers of one run, as one action of RunLifecycle does, or none of them.    *)

PhaseOf == [r \in Runs |-> Phase(r)]

LEMMA LifecycleInit == Init => Lifecycle!Init
  BY DEF Init, StoreInit, Lifecycle!Init, Phase

(* What a step does to the phases when it writes at most one status. *)
LEMMA PhaseStep ==
  ASSUME TypeOK, NEW r \in Runs, NEW s, status' = [status EXCEPT ![r] = s]
  PROVE  /\ s \in Terminal => PhaseOf' = [PhaseOf EXCEPT ![r] = "settled"]
         /\ s \in Live => PhaseOf' = [PhaseOf EXCEPT ![r] = "open"]
<1>1. ASSUME NEW q \in Runs, q # r PROVE Phase(q)' = Phase(q)
  BY <1>1 DEF Phase, TypeOK, StoreTypeOK
<1>2. status'[r] = s
  BY DEF TypeOK, StoreTypeOK
<1>3. s \in Terminal => Phase(r)' = "settled"
  BY <1>2 DEF Phase, Terminal, Live
<1>4. s \in Live => Phase(r)' = "open"
  BY <1>2 DEF Phase, Live
<1> QED
  BY <1>1, <1>3, <1>4 DEF PhaseOf

LEMMA SamePhase == UNCHANGED status => UNCHANGED PhaseOf
  BY DEF PhaseOf, Phase

MapsTo == [Lifecycle!Next]_(Lifecycle!lifecycleVars)

LEMMA Stutters == UNCHANGED <<status, active, posted>> => MapsTo
  BY SamePhase DEF MapsTo, Lifecycle!lifecycleVars, PhaseOf

(* A write of a live status to a live run is a stutter, the write of a terminal *)
(* status to a live run settles it.                                             *)
LEMMA StatusWrites ==
  ASSUME TypeOK, NEW r \in Runs, status[r] \in Live, UNCHANGED <<active, posted>>,
         NEW s \in Live \cup Terminal, status' = [status EXCEPT ![r] = s]
  PROVE  MapsTo
<1>1. PhaseOf[r] = "open" /\ PhaseOf = [PhaseOf EXCEPT ![r] = "open"]
  BY DEF PhaseOf, Phase, Live
<1>2. CASE s \in Live
  <2>1. UNCHANGED PhaseOf
    BY <1>1, <1>2, PhaseStep
  <2> QED
    BY <2>1 DEF MapsTo, Lifecycle!lifecycleVars, PhaseOf
<1>3. CASE s \in Terminal
  <2>1. PhaseOf' = [PhaseOf EXCEPT ![r] = "settled"]
    BY <1>3, PhaseStep
  <2>2. Lifecycle!Settle(r)
    BY <1>1, <2>1 DEF Lifecycle!Settle, PhaseOf
  <2> QED
    BY <2>2 DEF MapsTo, Lifecycle!Next
<1> QED
  BY <1>2, <1>3

(* Clearing the pointer of a settled run frees its thread, or does nothing. *)
LEMMA PointerClears ==
  ASSUME TypeOK, NEW r \in Runs, status[r] \in Terminal, ClearActiveIfMatches(r), UNCHANGED posted
  PROVE  MapsTo
<1>1. UNCHANGED PhaseOf
  BY SamePhase DEF ClearActiveIfMatches
<1>2. PhaseOf[r] = "settled"
  BY DEF PhaseOf, Phase, Terminal, Live
<1>3. CASE IsActive(r)
  <2>1. Lifecycle!Free(r)
    BY <1>1, <1>2, <1>3 DEF Lifecycle!Free, ClearActiveIfMatches, IsActive, PhaseOf
  <2> QED
    BY <2>1 DEF MapsTo, Lifecycle!Next
<1>4. CASE ~IsActive(r)
  BY <1>4, Stutters DEF ClearActiveIfMatches
<1> QED
  BY <1>3, <1>4

LEMMA EnqueueAccepts ==
  ASSUME TypeOK, NEW r \in Runs, Enqueue(r)
  PROVE  MapsTo
<1>1. PhaseOf[r] = "absent"
  BY DEF PhaseOf, Phase, Enqueue, AtomicEnqueueRun
<1>2. PhaseOf' = [PhaseOf EXCEPT ![r] = "open"]
  BY PhaseStep DEF Enqueue, AtomicEnqueueRun, Live
<1>3. Lifecycle!Accept(r)
  BY <1>1, <1>2 DEF Lifecycle!Accept, Enqueue, AtomicEnqueueRun, discordVars, PhaseOf
<1> QED
  BY <1>3 DEF MapsTo, Lifecycle!Next

LEMMA DeadLetterSettles ==
  ASSUME TypeOK, NEW r \in Runs, status[r] \in Live, DeadLetter(r), UNCHANGED posted
  PROVE  MapsTo
<1>1. PhaseOf[r] = "open"
  BY DEF PhaseOf, Phase, Live
<1>2. PhaseOf' = [PhaseOf EXCEPT ![r] = "settled"]
  BY PhaseStep DEF DeadLetter, Terminal
<1>3. Lifecycle!SettleAndFree(r)
  BY <1>1, <1>2 DEF Lifecycle!SettleAndFree, DeadLetter, PhaseOf
<1> QED
  BY <1>3 DEF MapsTo, Lifecycle!Next

LEMMA SendPosts ==
  ASSUME TypeOK, Exclusion, Posting, NEW w \in Workers, SendAnswer(w)
  PROVE  MapsTo
<1>1. run[w] \in Runs /\ status[run[w]] \in Live /\ windowOpen[run[w]]
  BY StoreAssumption DEF SendAnswer, TypeOK, LaneTypeOK, Exclusion, LiveAt, Posting
<1>2. UNCHANGED PhaseOf /\ UNCHANGED <<status, active>>
  BY SamePhase DEF SendAnswer, storeVars
<1>3. PhaseOf[run[w]] = "open"
  BY <1>1 DEF PhaseOf, Phase, Live
<1>4. CASE posted[run[w]] = 0
  <2>1. posted' = [posted EXCEPT ![run[w]] = 1]
    BY <1>4 DEF SendAnswer
  <2>2. Lifecycle!Post(run[w])
    BY <1>1, <1>2, <1>3, <1>4, <2>1 DEF Lifecycle!Post, PhaseOf
  <2> QED
    BY <1>1, <2>2 DEF MapsTo, Lifecycle!Next
<1>5. CASE posted[run[w]] # 0
  BY <1>1, <1>2, <1>5, Stutters DEF SendAnswer, TypeOK
<1> QED
  BY <1>4, <1>5

LEMMA LifecycleStep ==
  ASSUME ~Stalls, TypeOK, Settlement, Exclusion, Posting, [Next]_vars
  PROVE  MapsTo
<1>1. CASE UNCHANGED vars
  BY <1>1, Stutters DEF vars, storeVars, discordVars
<1>2. ASSUME NEW w \in Workers, NEW r \in Runs, TakeJob(w, r) PROVE MapsTo
  BY <1>2, Stutters DEF TakeJob, DeliverJob, discordVars
<1>3. ASSUME NEW w \in Workers, LaneStep(w) PROVE MapsTo
  <2>1. ASSUME pc[w] # "dequeuing" PROVE run[w] \in Runs
    BY <2>1, StoreAssumption DEF TypeOK, LaneTypeOK
  <2>2. CASE \/ LoadRun(w) \/ LoadActiveRunId(w) \/ EnsureOwnership(w) \/ Execute(w)
             \/ AbortExecution(w) \/ ReadStatus(w) \/ SettleSurface(w) \/ CheckTerminal(w)
    BY <2>2, Stutters
    DEF LoadRun, LoadActiveRunId, EnsureOwnership, Execute, AbortExecution, ReadStatus,
        SettleSurface, CheckTerminal, storeVars, discordVars
  <2>3. CASE \/ ClaimSuccess(w) \/ ClaimFailure(w) \/ Complete(w) \/ OpenOutbox(w)
             \/ RecordMessageId(w) \/ ReleaseLease(w) \/ ReleaseAfterFailure(w) \/ Acknowledge(w)
    BY <2>3, Stutters
    DEF ClaimSuccess, ClaimFailure, Complete, OpenOutbox, RecordMessageId, ReleaseLease,
        ReleaseAfterFailure, Acknowledge, AcquireFinalize, CompleteFinalize, WriteOutbox,
        ReleaseRunLease, AcknowledgeJob, storeVars, discordVars
  <2>4. CASE ClaimLease(w)
    <3>1. CASE ClaimRunLease(w, run[w], seen[w].status)
      <4>1. PICK s \in Live : status' = [status EXCEPT ![run[w]] = s]
        BY <3>1 DEF ClaimRunLease, Live
      <4> QED
        BY <2>1, <2>4, <3>1, <4>1, StatusWrites
        DEF ClaimLease, ClaimRunLease, CanClaim, discordVars
    <3>2. CASE UNCHANGED storeVars
      BY <2>4, <3>2, Stutters DEF ClaimLease, storeVars, discordVars
    <3> QED
      BY <2>4, <3>1, <3>2 DEF ClaimLease
  <2>5. CASE PatchRunFinalizing(w)
    <3>1. status[run[w]] \in Live
      BY <2>5 DEF PatchRunFinalizing, Exclusion, LiveAt
    <3> QED
      BY <2>1, <2>5, <3>1, StatusWrites
      DEF PatchRunFinalizing, WriteFinalizing, Live, discordVars
  <2>6. CASE MarkTerminal(w)
    <3>1. PICK s \in Terminal : WriteTerminal(run[w], s)
      BY <2>6 DEF MarkTerminal, Terminal
    <3>2. run[w] \in Runs /\ UNCHANGED <<active, posted>>
      BY <2>1, <2>6, <3>1 DEF MarkTerminal, WriteTerminal, discordVars
    <3>3. CASE status[run[w]] \in Live
      BY <3>1, <3>2, <3>3, StatusWrites DEF WriteTerminal
    <3>4. CASE status[run[w]] \in Terminal
      <4>1. PhaseOf = [PhaseOf EXCEPT ![run[w]] = "settled"]
        BY <3>2, <3>4 DEF PhaseOf, Phase, Terminal, Live
      <4>2. UNCHANGED PhaseOf
        BY <3>1, <3>2, <4>1, PhaseStep DEF WriteTerminal
      <4> QED
        BY <3>2, <4>2 DEF MapsTo, Lifecycle!lifecycleVars, PhaseOf
    <3>5. status[run[w]] # "absent"
      BY <2>6 DEF MarkTerminal, Settlement, AcceptedOnly
    <3> QED
      BY <3>2, <3>3, <3>4, <3>5 DEF TypeOK, StoreTypeOK
  <2>7. CASE SendAnswer(w)
    BY <2>7, SendPosts
  <2>8. CASE ClearActivePointer(w)
    <3>1. status[run[w]] \in Terminal
      BY <2>8 DEF ClearActivePointer, Exclusion, SettledAt
    <3> QED
      BY <2>1, <2>8, <3>1, PointerClears DEF ClearActivePointer, discordVars
  <2>9. CASE RecordRetryLater(w)
    <3>1. run[w] \in Runs /\ UNCHANGED posted
      BY <2>1, <2>9 DEF RecordRetryLater, discordVars
    <3>2. CASE Owns(w, run[w]) /\ DeadLetter(run[w])
      BY <3>1, <3>2, DeadLetterSettles DEF Owns
    <3>3. CASE ~(Owns(w, run[w]) /\ DeadLetter(run[w]))
      BY <2>9, <3>1, <3>3, Stutters DEF RecordRetryLater, CountRetryLater, storeVars
    <3> QED
      BY <3>2, <3>3
  <2> QED
    BY <1>3, <2>2, <2>3, <2>4, <2>5, <2>6, <2>7, <2>8, <2>9 DEF LaneStep
<1>4. ASSUME NEW r \in Runs, BotStep(r) PROVE MapsTo
  <2>1. CASE Enqueue(r)
    BY <2>1, EnqueueAccepts
  <2>2. CASE ObserveStalePointer(r) \/ ReconcileReads(r)
    BY <2>2, Stutters DEF ObserveStalePointer, ReconcileReads, storeVars, discordVars
  <2>3. CASE ClearStalePointer(r)
    BY <2>3, PointerClears DEF ClearStalePointer, Exclusion, discordVars
  <2>4. CASE ReconcileInterrupts(r)
    BY <2>4 DEF ReconcileInterrupts, Exclusion
  <2> QED
    BY <1>4, <2>1, <2>2, <2>3, <2>4 DEF BotStep
<1>5. ASSUME NEW r \in Runs, TimeStep(r) PROVE MapsTo
  BY <1>5, Stutters
  DEF TimeStep, OrphanLeaseExpires, HeldLeaseExpires, FinalizeClaimExpires, NonceWindowCloses,
      ExpireLease, ExpireFinalize, storeVars, discordVars
<1>6. ASSUME NEW w \in Workers, Crash(w) \/ CommandFails(w) PROVE MapsTo
  BY <1>6, Stutters DEF Crash, CommandFails, storeVars, discordVars
<1> QED
  BY <1>1, <1>2, <1>3, <1>4, <1>5, <1>6 DEF Next

(* Without stalls the whole run-control plane, with its queue, leases, claims,  *)
(* outbox, retries, crashes and reconciliation, does what RunLifecycle says.    *)
THEOREM RunControlImplementsLifecycle ==
  ASSUME ~Stalls
  PROVE  Spec => RefinesLifecycle
<1>1. Init => Lifecycle!Init
  BY LifecycleInit
<1>2. TypeOK /\ Settlement /\ Exclusion /\ Posting /\ [Next]_vars
        => [Lifecycle!Next]_(Lifecycle!lifecycleVars)
  BY LifecycleStep DEF MapsTo
<1> QED
  BY <1>1, <1>2, PostingInvariant, PTL DEF Spec, RefinesLifecycle, Lifecycle!Spec

=============================================================================
