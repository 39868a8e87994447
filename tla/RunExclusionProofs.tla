------------------------- MODULE RunExclusionProofs -------------------------
(* What the leases guarantee while no live lane stalls past its lease TTL.    *)
(* The argument: a lane keeps its lease from the claim to the release, so      *)
(* nobody else settles, reopens or unpoints its run in between.                *)
EXTENDS RunControlProofs

\* Where a lane works on a run that only it may settle.
LiveAt == {"executing", "patchWrite", "outboxOpen", "outboxSend"}

Exclusion ==
  /\ NonterminalIsActive
  /\ AckedIsSettled
  /\ \A w \in Workers : pc[w] \in Holding => lease[run[w]] = w
  /\ \A w \in Workers : pc[w] \in LiveAt => status[run[w]] \in Live
  /\ \A w \in Workers : pc[w] \in SettledAt => status[run[w]] \in Terminal
  /\ \A r \in clearing : status[r] \in Terminal
  /\ doomed = {}

LEMMA ExclusionStep ==
  ASSUME ~Stalls, TypeOK, Settlement, Exclusion, [Next]_vars
  PROVE  Exclusion'
<1> USE StoreAssumption, RunControlAssumption DEF TypeOK, StoreTypeOK, LaneTypeOK, Live, Terminal, IsActive, Settlement, AcceptedOnly, SettledAt, LiveAt, Exclusion, NonterminalIsActive, AckedIsSettled, Holding, Leased, Returning, Unleased
<1>1. CASE UNCHANGED vars
  BY <1>1 DEF vars, storeVars, laneVars, discordVars, handlerVars
<1>2. ASSUME NEW w \in Workers, NEW r \in Runs, TakeJob(w, r) PROVE Exclusion'
  BY <1>2 DEF TakeJob, DeliverJob, storeVars, laneVars, discordVars, handlerVars
<1>3. ASSUME NEW w \in Workers, LoadRun(w) PROVE Exclusion'
  BY <1>3 DEF LoadRun, storeVars, laneVars, discordVars, handlerVars
<1>4. ASSUME NEW w \in Workers, LoadActiveRunId(w) PROVE Exclusion'
  BY <1>4 DEF LoadActiveRunId, Goto, storeVars, laneVars, discordVars, handlerVars
<1>5. ASSUME NEW w \in Workers, ClaimLease(w) PROVE Exclusion'
  <2>1. CASE ClaimRunLease(w, run[w], seen[w].status)
    <3>1. \A v \in Workers : pc[v] \in Holding => run[v] # run[w]
      BY <1>5, <2>1 DEF ClaimLease, ClaimRunLease, CanClaim
    <3> QED
      BY <1>5, <2>1, <3>1 DEF ClaimLease, ClaimRunLease, CanClaim, Goto, storeVars, laneVars, discordVars, handlerVars
  <2>2. CASE Finish(w) /\ UNCHANGED storeVars
    BY <1>5, <2>2 DEF ClaimLease, Finish, storeVars, laneVars, discordVars, handlerVars
  <2> QED
    BY <1>5, <2>1, <2>2 DEF ClaimLease
<1>6. ASSUME NEW w \in Workers, EnsureOwnership(w) PROVE Exclusion'
  BY <1>6 DEF EnsureOwnership, Goto, Owns, VerifiedNext, storeVars, laneVars, discordVars, handlerVars
<1>7. ASSUME NEW w \in Workers, Execute(w) PROVE Exclusion'
  BY <1>7 DEF Execute, Goto, storeVars, laneVars, discordVars, handlerVars
<1>8. ASSUME NEW w \in Workers, AbortExecution(w) PROVE Exclusion'
  BY <1>8 DEF AbortExecution, Goto, storeVars, laneVars, discordVars, handlerVars
<1>9. ASSUME NEW w \in Workers, ReadStatus(w) PROVE Exclusion'
  BY <1>9 DEF ReadStatus, Goto, PreserveTerminal, ReadNext, storeVars, laneVars, discordVars, handlerVars
<1>10. ASSUME NEW w \in Workers, PatchRunFinalizing(w) PROVE Exclusion'
  BY <1>10 DEF PatchRunFinalizing, Goto, WriteFinalizing, storeVars, laneVars, discordVars, handlerVars
<1>11. ASSUME NEW w \in Workers, MarkTerminal(w) PROVE Exclusion'
  <2>1. PICK s \in Terminal, p \in {"clearingActivePointer", "completingUncertain"} :
          WriteTerminal(run[w], s) /\ Goto(w, p)
    BY <1>11 DEF MarkTerminal
  <2>2. \A v \in Workers : v # w /\ pc[v] \in Holding => run[v] # run[w]
    BY <1>11 DEF MarkTerminal
  <2> QED
    BY <1>11, <2>1, <2>2 DEF MarkTerminal, Goto, WriteTerminal, storeVars, laneVars, discordVars, handlerVars
<1>12. ASSUME NEW w \in Workers, ClaimSuccess(w) PROVE Exclusion'
  BY <1>12 DEF ClaimSuccess, Goto, AcquireFinalize, storeVars, laneVars, discordVars, handlerVars
<1>13. ASSUME NEW w \in Workers, ClaimFailure(w) PROVE Exclusion'
  BY <1>13 DEF ClaimFailure, Goto, AcquireFinalize, storeVars, laneVars, discordVars, handlerVars
<1>14. ASSUME NEW w \in Workers, Complete(w) PROVE Exclusion'
  BY <1>14 DEF Complete, Goto, CompleteFinalize, CompletedNext, storeVars, laneVars, discordVars, handlerVars
<1>15. ASSUME NEW w \in Workers, OpenOutbox(w) PROVE Exclusion'
  BY <1>15 DEF OpenOutbox, Goto, WriteOutbox, storeVars, laneVars, discordVars, handlerVars
<1>16. ASSUME NEW w \in Workers, SendAnswer(w) PROVE Exclusion'
  BY <1>16 DEF SendAnswer, Goto, storeVars, laneVars, discordVars, handlerVars
<1>17. ASSUME NEW w \in Workers, RecordMessageId(w) PROVE Exclusion'
  BY <1>17 DEF RecordMessageId, Goto, WriteOutbox, storeVars, laneVars, discordVars, handlerVars
<1>18. ASSUME NEW w \in Workers, SettleSurface(w) PROVE Exclusion'
  BY <1>18 DEF SettleSurface, Goto, storeVars, laneVars, discordVars, handlerVars
<1>19. ASSUME NEW w \in Workers, ClearActivePointer(w) PROVE Exclusion'
  BY <1>19 DEF ClearActivePointer, Goto, ClearActiveIfMatches, storeVars, laneVars, discordVars, handlerVars
<1>20. ASSUME NEW w \in Workers, ReleaseLease(w) PROVE Exclusion'
  BY <1>20 DEF ReleaseLease, Goto, ReleaseRunLease, storeVars, laneVars, discordVars, handlerVars
<1>21. ASSUME NEW w \in Workers, CheckTerminal(w) PROVE Exclusion'
  BY <1>21 DEF CheckTerminal, Goto, storeVars, laneVars, discordVars, handlerVars
<1>22. ASSUME NEW w \in Workers, RecordRetryLater(w) PROVE Exclusion'
  <2> DEFINE r == run[w]
  <2>1. r \in Runs /\ lease[r] = w
    BY <1>22 DEF RecordRetryLater
  <2>2. \A v \in Workers : v # w /\ pc[v] \in Holding => run[v] # r
    BY <2>1
  <2>3. CASE UNCHANGED storeVars /\ Finish(w)
    BY <1>22, <2>1, <2>3 DEF RecordRetryLater, Finish, storeVars, laneVars, discordVars, handlerVars
  <2>4. CASE CountRetryLater(r) /\ Finish(w)
    BY <1>22, <2>1, <2>2, <2>4 DEF RecordRetryLater, Finish, CountRetryLater, storeVars, laneVars, discordVars, handlerVars
  <2>5. CASE Owns(w, r) /\ DeadLetter(r) /\ Goto(w, "ackingDeadLetter")
    BY <1>22, <2>1, <2>2, <2>5 DEF RecordRetryLater, Goto, Owns, DeadLetter, storeVars, laneVars, discordVars, handlerVars
  <2> QED
    BY <1>22, <2>3, <2>4, <2>5 DEF RecordRetryLater
<1>23. ASSUME NEW w \in Workers, ReleaseAfterFailure(w) PROVE Exclusion'
  BY <1>23 DEF ReleaseAfterFailure, Finish, NotLoaded, ReleaseRunLease, storeVars, laneVars, discordVars, handlerVars
<1>24. ASSUME NEW w \in Workers, Acknowledge(w) PROVE Exclusion'
  BY <1>24 DEF Acknowledge, Finish, NotLoaded, AcknowledgeJob, storeVars, laneVars, discordVars, handlerVars
<1>25. ASSUME NEW r \in Runs, Enqueue(r) PROVE Exclusion'
  BY <1>25 DEF Enqueue, AtomicEnqueueRun, storeVars, laneVars, discordVars, handlerVars
<1>26. ASSUME NEW r \in Runs, ObserveStalePointer(r) PROVE Exclusion'
  BY <1>26 DEF ObserveStalePointer, storeVars, laneVars, discordVars, handlerVars
<1>27. ASSUME NEW r \in Runs, ClearStalePointer(r) PROVE Exclusion'
  BY <1>27 DEF ClearStalePointer, ClearActiveIfMatches, storeVars, laneVars, discordVars, handlerVars
<1>28. ASSUME NEW r \in Runs, ReconcileReads(r) PROVE Exclusion'
  BY <1>28 DEF ReconcileReads, storeVars, laneVars, discordVars, handlerVars
<1>29. ASSUME NEW r \in Runs, ReconcileInterrupts(r) PROVE Exclusion'
  BY <1>29 DEF ReconcileInterrupts, WriteTerminal, storeVars, laneVars, discordVars, handlerVars
<1>30. ASSUME NEW r \in Runs, OrphanLeaseExpires(r) PROVE Exclusion'
  BY <1>30 DEF OrphanLeaseExpires, HeldBy, ExpireLease, storeVars, laneVars, discordVars, handlerVars
<1>31. ASSUME NEW r \in Runs, HeldLeaseExpires(r) PROVE Exclusion'
  BY <1>31 DEF HeldLeaseExpires, ExpireLease, storeVars, laneVars, discordVars, handlerVars
<1>32. ASSUME NEW r \in Runs, FinalizeClaimExpires(r) PROVE Exclusion'
  BY <1>32 DEF FinalizeClaimExpires, ExpireFinalize, storeVars, laneVars, discordVars, handlerVars
<1>33. ASSUME NEW r \in Runs, NonceWindowCloses(r) PROVE Exclusion'
  BY <1>33 DEF NonceWindowCloses, storeVars, laneVars, discordVars, handlerVars
<1>34. ASSUME NEW w \in Workers, Crash(w) PROVE Exclusion'
  BY <1>34 DEF Crash, Finish, NotLoaded, storeVars, laneVars, discordVars, handlerVars
<1>35. ASSUME NEW w \in Workers, CommandFails(w) PROVE Exclusion'
  <2>1. CASE Finish(w)
    BY <1>35, <2>1 DEF CommandFails, Finish, storeVars, laneVars, discordVars, handlerVars
  <2>2. CASE \E p \in Holding : <<pc[w], p>> \in OnError /\ Goto(w, p)
    <3>1. PICK p \in Holding : <<pc[w], p>> \in OnError /\ Goto(w, p)
      BY <2>2
    <3>2. pc[w] \in Holding /\ p \notin LiveAt \cup SettledAt
      BY <3>1, ErrorMoves DEF LiveAt, SettledAt
    <3> QED
      BY <1>35, <3>1, <3>2 DEF CommandFails, Goto, storeVars, laneVars, discordVars, handlerVars
  <2> QED
    BY <1>35, <2>1, <2>2 DEF CommandFails
<1> QED
  BY <1>1, <1>2, <1>3, <1>4, <1>5, <1>6, <1>7, <1>8, <1>9, <1>10, <1>11, <1>12, <1>13, <1>14, <1>15, <1>16, <1>17, <1>18, <1>19, <1>20, <1>21, <1>22, <1>23, <1>24, <1>25, <1>26, <1>27, <1>28, <1>29, <1>30, <1>31, <1>32, <1>33, <1>34, <1>35 DEF Next, LaneStep, BotStep, TimeStep

LEMMA ExclusionInit == Init => Exclusion
  BY StoreAssumption
  DEF Init, StoreInit, Exclusion, NonterminalIsActive, AckedIsSettled, SettledAt, LiveAt, Live,
      Terminal, Holding, Leased, Returning

LEMMA ExclusionInvariant ==
  ASSUME ~Stalls
  PROVE  Spec => [](TypeOK /\ Settlement /\ Exclusion)
<1>1. Init => TypeOK /\ Settlement /\ Exclusion
  BY TypeInit, SettlementInit, ExclusionInit
<1>2. TypeOK /\ Settlement /\ Exclusion /\ [Next]_vars => (TypeOK /\ Settlement /\ Exclusion)'
  BY TypeStep, SettlementStep, ExclusionStep
<1> QED
  BY <1>1, <1>2, PTL DEF Spec

(* Without stalls a live run is always its thread's active run, so reconcile  *)
(* never finds one to interrupt.                                              *)
THEOREM LiveRunsAreActive ==
  ASSUME ~Stalls
  PROVE  Spec => []NonterminalIsActive
<1>1. Exclusion => NonterminalIsActive
  BY DEF Exclusion
<1> QED
  BY <1>1, ExclusionInvariant, PTL

(* Without stalls a job that left the stream leaves nothing to recover. *)
THEOREM AckedJobsAreSettled ==
  ASSUME ~Stalls
  PROVE  Spec => []AckedIsSettled
<1>1. Exclusion => AckedIsSettled
  BY DEF Exclusion
<1> QED
  BY <1>1, ExclusionInvariant, PTL

(* Without stalls no two lanes ever run a Pi turn for the same thread: each    *)
(* would hold the lease of a live run, and the thread has one active run.      *)
THEOREM OneTurn ==
  ASSUME ~Stalls
  PROVE  Spec => []OneTurnPerThread
<1>1. TypeOK /\ Exclusion => OneTurnPerThread
  <2> SUFFICES ASSUME TypeOK, Exclusion, NEW v \in Workers, NEW w \in Workers,
                      pc[v] = "executing", pc[w] = "executing",
                      ThreadOf[run[v]] = ThreadOf[run[w]]
               PROVE  v = w
    BY DEF OneTurnPerThread
  <2>1. run[v] \in Runs /\ run[w] \in Runs
    BY StoreAssumption DEF TypeOK, LaneTypeOK
  <2>2. IsActive(run[v]) /\ IsActive(run[w])
    BY <2>1 DEF Exclusion, LiveAt, NonterminalIsActive
  <2>3. run[v] = run[w]
    BY <2>2 DEF IsActive
  <2>4. lease[run[v]] = v /\ lease[run[w]] = w
    BY DEF Exclusion, Holding, Leased
  <2> QED
    BY <2>3, <2>4
<1> QED
  BY <1>1, ExclusionInvariant, PTL

=============================================================================
