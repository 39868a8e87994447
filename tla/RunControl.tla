----------------------------- MODULE RunControl -----------------------------
(***************************************************************************)
(* The run-control plane at work: the bot that enqueues runs, the worker   *)
(* lanes that claim, execute and finalize them, the reconcile loop, and    *)
(* the faults they live with.                                              *)
(*                                                                         *)
(* A lane's pc names the state of its XState machines (worker-machine.ts   *)
(* outside the lease, leased-run-machine.ts inside it).  A machine state   *)
(* that sends several Redis commands is split, one pc per command, because *)
(* what another process does between two of them is what can go wrong:     *)
(*   ...Verify  the ensureOwnership that opens the state                   *)
(*   ...Read, ...Write  the HGETALL and the HSET of patchRun/markTerminal  *)
(***************************************************************************)
EXTENDS RunStore

CONSTANTS
  Answers,    \* the kinds of answer a Pi turn may end with, a subset of Answer
  Stalls,     \* TRUE: a live lane can miss its heartbeats for a lease TTL
  MaxFaults   \* bound on crashes, failed commands and stalls in a behaviour

ASSUME RunControlAssumption ==
  /\ Answers \subseteq Answer
  /\ Stalls \in BOOLEAN
  /\ MaxFaults \in Nat

VARIABLES
  pc,          \* where each lane is
  run,         \* the run of the job a lane handles, or None
  seen,        \* the run hash as the lane loaded it: the machine's context.run
  posted,      \* Discord: copies of the run's answer in its thread (2: several)
  windowOpen,  \* less than two minutes since finalDiscordOutboxStartedAt
  clearing,    \* runs a handler has read as terminal and is about to unpoint
  doomed,      \* runs reconcile has read as live but unpointed, about to interrupt
  faults       \* faults so far

laneVars == <<pc, run, seen>>
discordVars == <<posted, windowOpen>>
handlerVars == <<clearing, doomed>>
vars == <<storeVars, laneVars, discordVars, handlerVars, faults>>

\* Inside the lease: the heartbeat runs and ownership is verified.
Leased ==
  {"drainingInitialInputs", "executing",
   "patchVerify", "patchRead", "patchWrite",
   "successVerify", "successClaim", "recordingFinalizeAttempt",
   "postVerify", "outboxOpen", "outboxSend", "outboxRecord", "surfaceIdle",
   "completingSuccess", "succeedRead", "succeedWrite",
   "uncertainVerify", "uncertainRead", "uncertainWrite", "completingUncertain",
   "failureVerify", "failureClaim", "editingFailure", "completingFailure",
   "failRead", "failWrite", "clearingActivePointer"}

\* After the leased machine, before the job machine has let go of the token.
Returning == {"releasing", "checkingTerminal", "recordingRetryLater", "releasingAfterFailure"}

Holding == Leased \cup Returning

Unleased ==
  {"dequeuing", "loadingRun", "acknowledging", "loadingActiveRunId",
   "skippingStaleJob", "claimingLease", "acking", "ackingDeadLetter"}

NotLoaded == [status |-> "absent", result |-> "none", outbox |-> "none"]

\* A lane has a run in its hands exactly while it handles a job.
LaneTypeOK ==
  /\ pc \in [Workers -> Holding \cup Unleased]
  /\ run \in [Workers -> Runs \cup {None}]
  /\ seen \in [Workers -> [status : {"absent"} \cup Live \cup Terminal,
                           result : {"none"} \cup Answer,
                           outbox : {"none", "started", "sent"}]]
  /\ \A w \in Workers : (run[w] = None) <=> (pc[w] = "dequeuing")

TypeOK ==
  /\ StoreTypeOK
  /\ LaneTypeOK
  /\ posted \in [Runs -> 0..2]
  /\ windowOpen \in [Runs -> BOOLEAN]
  /\ clearing \in SUBSET Runs
  /\ doomed \in SUBSET Runs
  /\ faults \in 0..MaxFaults

Init ==
  /\ StoreInit
  /\ pc = [w \in Workers |-> "dequeuing"]
  /\ run = [w \in Workers |-> None]
  /\ seen = [w \in Workers |-> NotLoaded]
  /\ posted = [r \in Runs |-> 0]
  /\ windowOpen = [r \in Runs |-> TRUE]
  /\ clearing = {}
  /\ doomed = {}
  /\ faults = 0

\* The lane goes on with its job, or is done with it.
Goto(w, p) ==
  /\ pc' = [pc EXCEPT ![w] = p]
  /\ UNCHANGED <<run, seen>>

\* (Mutant first: a lane that does not let go of its run.)
FinishKeepingRun(w) ==
  /\ pc' = [pc EXCEPT ![w] = "dequeuing"]
  /\ seen' = [seen EXCEPT ![w] = NotLoaded]
  /\ UNCHANGED run

Finish(w) ==
  /\ pc' = [pc EXCEPT ![w] = "dequeuing"]
  /\ run' = [run EXCEPT ![w] = None]
  /\ seen' = [seen EXCEPT ![w] = NotLoaded]

-----------------------------------------------------------------------------
(* The job machine, up to the lease. *)

\* dequeueJob hands the lane a job.
TakeJob(w, r) ==
  /\ pc[w] = "dequeuing"
  /\ DeliverJob(r)
  /\ pc' = [pc EXCEPT ![w] = "loadingRun"]
  /\ run' = [run EXCEPT ![w] = r]
  /\ UNCHANGED <<seen, discordVars, handlerVars, faults>>

\* loadRun and validatingRun: a settled run's job is only acknowledged.
LoadRun(w) ==
  /\ pc[w] = "loadingRun"
  /\ pc' = [pc EXCEPT ![w] = IF status[run[w]] \in Terminal THEN "acknowledging"
                             ELSE "loadingActiveRunId"]
  /\ seen' = [seen EXCEPT ![w] =
       [status |-> status[run[w]], result |-> result[run[w]], outbox |-> outbox[run[w]]]]
  /\ UNCHANGED <<run, storeVars, discordVars, handlerVars, faults>>

\* loadActiveRunId and validatingActivePointer.
LoadActiveRunId(w) ==
  /\ pc[w] = "loadingActiveRunId"
  /\ Goto(w, IF IsActive(run[w]) THEN "claimingLease" ELSE "skippingStaleJob")
  /\ UNCHANGED <<storeVars, discordVars, handlerVars, faults>>

\* claimLease: the leased machine starts with the run as it was loaded, and a
\* finalizing run with a result resumes at its finalization.  An empty
\* resultText reads back as undefined.  A busy lease leaves the job pending.
HasPersistedResult(w) == seen[w].status = "finalizing" /\ seen[w].result = "text"

\* (Mutant first: a busy lease acknowledges the job.)
ClaimLeaseAckingBusy(w) ==
  /\ pc[w] = "claimingLease"
  /\ \/ /\ ClaimRunLease(w, run[w], seen[w].status)
        /\ Goto(w, IF HasPersistedResult(w) THEN "successVerify" ELSE "drainingInitialInputs")
     \/ /\ ~CanClaim(run[w], seen[w].status)
        /\ Goto(w, "acking")
        /\ UNCHANGED storeVars
  /\ UNCHANGED <<discordVars, handlerVars, faults>>

ClaimLease(w) ==
  /\ pc[w] = "claimingLease"
  /\ \/ /\ ClaimRunLease(w, run[w], seen[w].status)
        /\ Goto(w, IF HasPersistedResult(w) THEN "successVerify" ELSE "drainingInitialInputs")
     \/ /\ ~CanClaim(run[w], seen[w].status)
        /\ Finish(w)
        /\ UNCHANGED storeVars
  /\ UNCHANGED <<discordVars, handlerVars, faults>>

-----------------------------------------------------------------------------
(* The leased machine. *)

\* ensureOwnership, where it opens a machine state: the state goes on, or the
\* run is left for its next owner.
VerifiedNext ==
  [drainingInitialInputs    |-> "executing",
   patchVerify              |-> "patchRead",
   successVerify            |-> "successClaim",
   recordingFinalizeAttempt |-> "postVerify",
   postVerify               |-> "outboxOpen",
   uncertainVerify          |-> "uncertainRead",
   failureVerify            |-> "failureClaim",
   editingFailure           |-> "completingFailure"]

EnsureOwnership(w) ==
  /\ pc[w] \in DOMAIN VerifiedNext
  /\ Goto(w, IF Owns(w, run[w]) THEN VerifiedNext[pc[w]] ELSE "recordingRetryLater")
  /\ UNCHANGED <<storeVars, discordVars, handlerVars, faults>>

\* executeFreshRun ends with an answer, or with an error.
Execute(w) ==
  /\ pc[w] = "executing"
  /\ \/ Goto(w, "patchVerify")
     \/ Goto(w, "failureVerify")
  /\ UNCHANGED <<storeVars, discordVars, handlerVars, faults>>

\* A heartbeat or an input drain finds the lease gone: the execution is aborted.
AbortExecution(w) ==
  /\ pc[w] = "executing"
  /\ ~Owns(w, run[w])
  /\ Goto(w, "recordingRetryLater")
  /\ UNCHANGED <<storeVars, discordVars, handlerVars, faults>>

\* The HGETALL of patchRun(preserveTerminal) and of markTerminal: a terminal
\* status is left alone, and the machine goes on as if it had written.
ReadNext ==
  [patchRead     |-> [write |-> "patchWrite",     skip |-> "successVerify"],
   succeedRead   |-> [write |-> "succeedWrite",   skip |-> "clearingActivePointer"],
   uncertainRead |-> [write |-> "uncertainWrite", skip |-> "completingUncertain"],
   failRead      |-> [write |-> "failWrite",      skip |-> "clearingActivePointer"]]

PreserveTerminal(r) == status[r] \in Terminal

ReadStatus(w) ==
  /\ pc[w] \in DOMAIN ReadNext
  /\ Goto(w, IF PreserveTerminal(run[w]) THEN ReadNext[pc[w]].skip ELSE ReadNext[pc[w]].write)
  /\ UNCHANGED <<storeVars, discordVars, handlerVars, faults>>

\* patchRunFinalizing makes the answer durable before Discord shows it.
PatchRunFinalizing(w) ==
  /\ pc[w] = "patchWrite"
  /\ \E answer \in Answers : WriteFinalizing(run[w], answer)
  /\ Goto(w, "successVerify")
  /\ UNCHANGED <<discordVars, handlerVars, faults>>

MarkTerminal(w) ==
  /\ \/ pc[w] = "succeedWrite" /\ WriteTerminal(run[w], "succeeded") /\ Goto(w, "clearingActivePointer")
     \/ pc[w] = "failWrite" /\ WriteTerminal(run[w], "failed") /\ Goto(w, "clearingActivePointer")
     \/ pc[w] = "uncertainWrite" /\ WriteTerminal(run[w], "failed") /\ Goto(w, "completingUncertain")
  /\ UNCHANGED <<discordVars, handlerVars, faults>>

\* hasRecoverableFinalOutbox and hasExpiredFinalOutboxWithoutCompleteIds look
\* at the run as it was loaded.
RecoverableOutbox(w) ==
  \/ seen[w].outbox = "sent"
  \/ seen[w].outbox = "started" /\ windowOpen[run[w]]

ExpiredOutbox(w) == seen[w].outbox = "started" /\ ~windowOpen[run[w]]

\* acquireSuccessFinalize and routingSuccessFinalizeClaim.
ClaimSuccess(w) ==
  /\ pc[w] = "successClaim"
  /\ AcquireFinalize(w, run[w])
  /\ \/ finalize[run[w]] \in Workers /\ Goto(w, "recordingRetryLater")
     \/ finalize[run[w]] = Done /\ Goto(w, "succeedRead")
     \/ /\ finalize[run[w]] = None
        /\ Goto(w, IF RecoverableOutbox(w) THEN "postVerify"
                   ELSE IF ExpiredOutbox(w) THEN "uncertainVerify"
                   ELSE "recordingFinalizeAttempt")
  /\ UNCHANGED <<discordVars, handlerVars, faults>>

\* acquireFailureFinalize and routingFailureFinalizeClaim.
ClaimFailure(w) ==
  /\ pc[w] = "failureClaim"
  /\ AcquireFinalize(w, run[w])
  /\ \/ finalize[run[w]] \in Workers /\ Goto(w, "recordingRetryLater")
     \/ finalize[run[w]] = Done /\ Goto(w, "failRead")
     \/ finalize[run[w]] = None /\ Goto(w, "editingFailure")
  /\ UNCHANGED <<discordVars, handlerVars, faults>>

\* ensureFinalAnswerMessages: a message whose id is recorded is only edited; a
\* missing one is sent while its nonce still protects it and refused after.
OpenOutbox(w) ==
  /\ pc[w] = "outboxOpen"
  /\ \/ outbox[run[w]] = "sent" /\ Goto(w, "surfaceIdle") /\ UNCHANGED storeVars
     \/ /\ outbox[run[w]] = "started" /\ ~windowOpen[run[w]]
        /\ Goto(w, "recordingRetryLater") /\ UNCHANGED storeVars
     \/ /\ outbox[run[w]] # "sent"
        /\ outbox[run[w]] = "started" => windowOpen[run[w]]
        /\ WriteOutbox(run[w], "started")
        /\ Goto(w, "outboxSend")
  /\ UNCHANGED <<discordVars, handlerVars, faults>>

\* channel.send with enforceNonce: within the window Discord answers a second
\* send of the same nonce with the first one's message.
SendAnswer(w) ==
  /\ pc[w] = "outboxSend"
  /\ posted' = [posted EXCEPT ![run[w]] = IF @ = 0 THEN 1 ELSE IF windowOpen[run[w]] THEN @ ELSE 2]
  /\ Goto(w, "outboxRecord")
  /\ UNCHANGED <<storeVars, windowOpen, handlerVars, faults>>

RecordMessageId(w) ==
  /\ pc[w] = "outboxRecord"
  /\ WriteOutbox(run[w], "sent")
  /\ Goto(w, "surfaceIdle")
  /\ UNCHANGED <<discordVars, handlerVars, faults>>

\* The HUD archive and the registry's idle patch that end finalizeRun.
SettleSurface(w) ==
  /\ pc[w] = "surfaceIdle"
  /\ Goto(w, "completingSuccess")
  /\ UNCHANGED <<storeVars, discordVars, handlerVars, faults>>

\* completeFinalize, in its three states.
CompletedNext ==
  [completingSuccess   |-> "succeedRead",
   completingUncertain |-> "clearingActivePointer",
   completingFailure   |-> "failRead"]

Complete(w) ==
  /\ pc[w] \in DOMAIN CompletedNext
  /\ \/ CompleteFinalize(w, run[w]) /\ Goto(w, CompletedNext[pc[w]])
     \/ ~HoldsFinalize(w, run[w]) /\ Goto(w, "recordingRetryLater") /\ UNCHANGED storeVars
  /\ UNCHANGED <<discordVars, handlerVars, faults>>

ClearActivePointer(w) ==
  /\ pc[w] = "clearingActivePointer"
  /\ ClearActiveIfMatches(run[w])
  /\ Goto(w, "releasing")
  /\ UNCHANGED <<discordVars, handlerVars, faults>>

-----------------------------------------------------------------------------
(* The job machine, after the lease. *)

\* releaseLeaseAndAck: a released token ends the job; a lost one ends it only
\* when the run is terminal.
ReleaseLease(w) ==
  /\ pc[w] = "releasing"
  /\ ReleaseRunLease(w, run[w])
  /\ Goto(w, IF lease[run[w]] = w THEN "acking" ELSE "checkingTerminal")
  /\ UNCHANGED <<discordVars, handlerVars, faults>>

CheckTerminal(w) ==
  /\ pc[w] = "checkingTerminal"
  /\ Goto(w, IF status[run[w]] \in Terminal THEN "acking" ELSE "recordingRetryLater")
  /\ UNCHANGED <<storeVars, discordVars, handlerVars, faults>>

\* Mutant: a lost run is acknowledged like a dead-lettered one.
RecordRetryLaterAckingLost(w) ==
  /\ pc[w] = "recordingRetryLater"
  /\ \/ ~Owns(w, run[w]) /\ Goto(w, "ackingDeadLetter") /\ UNCHANGED storeVars
     \/ Owns(w, run[w]) /\ CountRetryLater(run[w]) /\ Finish(w)
     \/ Owns(w, run[w]) /\ DeadLetter(run[w]) /\ Goto(w, "ackingDeadLetter")
  /\ UNCHANGED <<discordVars, handlerVars, faults>>

\* recordRetryLaterAndRelease.  Without ownership nothing is counted and the
\* job stays pending for whoever owns the run.
RecordRetryLater(w) ==
  /\ pc[w] = "recordingRetryLater"
  /\ \/ ~Owns(w, run[w]) /\ Finish(w) /\ UNCHANGED storeVars
     \/ Owns(w, run[w]) /\ CountRetryLater(run[w]) /\ Finish(w)
     \/ Owns(w, run[w]) /\ DeadLetter(run[w]) /\ Goto(w, "ackingDeadLetter")
  /\ UNCHANGED <<discordVars, handlerVars, faults>>

\* releaseLeasePending, after a failure that is no retry-later.
ReleaseAfterFailure(w) ==
  /\ pc[w] = "releasingAfterFailure"
  /\ ReleaseRunLease(w, run[w])
  /\ Finish(w)
  /\ UNCHANGED <<discordVars, handlerVars, faults>>

\* The four places that acknowledge the job.
Acknowledge(w) ==
  /\ pc[w] \in {"acknowledging", "skippingStaleJob", "acking", "ackingDeadLetter"}
  /\ AcknowledgeJob(run[w])
  /\ Finish(w)
  /\ UNCHANGED <<discordVars, handlerVars, faults>>

LaneStep(w) ==
  \/ LoadRun(w) \/ LoadActiveRunId(w) \/ ClaimLease(w)
  \/ EnsureOwnership(w) \/ Execute(w) \/ AbortExecution(w)
  \/ ReadStatus(w) \/ PatchRunFinalizing(w) \/ MarkTerminal(w)
  \/ ClaimSuccess(w) \/ ClaimFailure(w) \/ Complete(w)
  \/ OpenOutbox(w) \/ SendAnswer(w) \/ RecordMessageId(w) \/ SettleSurface(w)
  \/ ClearActivePointer(w) \/ ReleaseLease(w) \/ CheckTerminal(w)
  \/ RecordRetryLater(w) \/ ReleaseAfterFailure(w) \/ Acknowledge(w)

-----------------------------------------------------------------------------
(* The bot and the reconcile loop. *)

\* tryEnqueueRun, on a prompt.
Enqueue(r) ==
  /\ AtomicEnqueueRun(r)
  /\ UNCHANGED <<laneVars, discordVars, handlerVars, faults>>

\* tryEnqueueRun, getQueueableActiveRunId and reconcile all clear a pointer one
\* command after they read its run as terminal.
ObserveStalePointer(r) ==
  /\ IsActive(r)
  /\ status[r] \in Terminal
  /\ clearing' = clearing \cup {r}
  /\ UNCHANGED <<storeVars, laneVars, discordVars, doomed, faults>>

ClearStalePointer(r) ==
  /\ r \in clearing
  /\ ClearActiveIfMatches(r)
  /\ clearing' = clearing \ {r}
  /\ UNCHANGED <<laneVars, discordVars, doomed, faults>>

\* reconcile interrupts a live run that is not its thread's active one; the
\* HGETALL of markTerminal, then its HSET.
ReconcileReads(r) ==
  /\ status[r] \in Live
  /\ ~IsActive(r)
  /\ doomed' = doomed \cup {r}
  /\ UNCHANGED <<storeVars, laneVars, discordVars, clearing, faults>>

ReconcileInterrupts(r) ==
  /\ r \in doomed
  /\ WriteTerminal(r, "interrupted")
  /\ doomed' = doomed \ {r}
  /\ UNCHANGED <<laneVars, discordVars, clearing, faults>>

-----------------------------------------------------------------------------
(* Time and faults. *)

HeldBy(w, r) == run[w] = r /\ pc[w] \in Holding /\ lease[r] = w

\* The lane that took the lease is gone, so nothing extends it.
OrphanLeaseExpires(r) ==
  /\ \A w \in Workers : ~HeldBy(w, r)
  /\ ExpireLease(r)
  /\ UNCHANGED <<laneVars, discordVars, handlerVars, faults>>

\* The lane is alive, but its process stalls for a whole lease TTL.
HeldLeaseExpires(r) ==
  /\ Stalls
  /\ faults < MaxFaults
  /\ \E w \in Workers : HeldBy(w, r)
  /\ ExpireLease(r)
  /\ faults' = faults + 1
  /\ UNCHANGED <<laneVars, discordVars, handlerVars>>

FinalizeClaimExpires(r) ==
  /\ ExpireFinalize(r)
  /\ UNCHANGED <<laneVars, discordVars, handlerVars, faults>>

\* FINAL_OUTBOX_BLIND_NONCE_WINDOW_MS is over.  A lane that does not stall is
\* not between its look at the window and its send at that moment.  Nobody
\* reads the window of a run that has left the stream and the lanes.
NonceWindowCloses(r) ==
  /\ windowOpen[r]
  /\ outbox[r] # "none" \/ posted[r] > 0
  /\ job[r] # "acked" \/ \E w \in Workers : run[w] = r
  /\ Stalls \/ \A w \in Workers : run[w] = r => pc[w] # "outboxSend"
  /\ windowOpen' = [windowOpen EXCEPT ![r] = FALSE]
  /\ UNCHANGED <<storeVars, laneVars, posted, handlerVars, faults>>

\* The process of a lane dies; another lane will be handed its pending job.
Crash(w) ==
  /\ pc[w] # "dequeuing"
  /\ faults < MaxFaults
  /\ Finish(w)
  /\ faults' = faults + 1
  /\ UNCHANGED <<storeVars, discordVars, handlerVars>>

\* A Redis or Discord command fails without effect.  Where the machine goes is
\* the onError transition of its state.
OnError ==
  LET retryLater ==
        {"drainingInitialInputs", "executing", "patchVerify", "successVerify", "successClaim",
         "recordingFinalizeAttempt", "postVerify", "outboxOpen", "outboxSend", "outboxRecord",
         "surfaceIdle", "uncertainVerify", "failureVerify", "failureClaim", "editingFailure",
         "checkingTerminal"}
      finalizeError == {"drainingInitialInputs", "patchRead", "patchWrite", "completingSuccess"}
      fail ==
        {"uncertainRead", "uncertainWrite", "completingUncertain", "completingFailure",
         "succeedRead", "succeedWrite", "failRead", "failWrite", "clearingActivePointer"}
      abandon ==
        {"loadingRun", "loadingActiveRunId", "claimingLease", "acknowledging", "acking",
         "skippingStaleJob", "ackingDeadLetter", "recordingRetryLater", "releasingAfterFailure"}
  IN  (retryLater \X {"recordingRetryLater"}) \cup (finalizeError \X {"failureVerify"})
        \cup (fail \X {"releasingAfterFailure"}) \cup (abandon \X {"dequeuing"})
        \cup {<<"releasing", "checkingTerminal">>}

CommandFails(w) ==
  /\ faults < MaxFaults
  /\ \/ <<pc[w], "dequeuing">> \in OnError /\ Finish(w)
     \/ \E p \in Holding : <<pc[w], p>> \in OnError /\ Goto(w, p)
  /\ faults' = faults + 1
  /\ UNCHANGED <<storeVars, discordVars, handlerVars>>

-----------------------------------------------------------------------------
BotStep(r) ==
  \/ Enqueue(r) \/ ObserveStalePointer(r) \/ ClearStalePointer(r)
  \/ ReconcileReads(r) \/ ReconcileInterrupts(r)

TimeStep(r) ==
  \/ OrphanLeaseExpires(r) \/ HeldLeaseExpires(r)
  \/ FinalizeClaimExpires(r) \/ NonceWindowCloses(r)

Next ==
  \/ \E w \in Workers, r \in Runs : TakeJob(w, r)
  \/ \E w \in Workers : LaneStep(w)
  \/ \E r \in Runs : BotStep(r) \/ TimeStep(r)
  \/ \E w \in Workers : Crash(w) \/ CommandFails(w)

Spec == Init /\ [][Next]_vars

\* The event loop runs every continuation, a Pi turn ends, lanes poll the
\* stream in order, Redis expires keys, and reconcile runs at its interval.
\* Nothing is assumed of prompts, faults or the nonce window.
Fairness ==
  /\ \A w \in Workers : WF_vars(LaneStep(w))
  /\ \A r \in Runs :
       /\ SF_vars(\E w \in Workers : TakeJob(w, r))
       /\ WF_vars(OrphanLeaseExpires(r))
       /\ WF_vars(FinalizeClaimExpires(r))
       /\ WF_vars(ObserveStalePointer(r) /\ r \notin clearing)
       /\ WF_vars(ClearStalePointer(r))
       /\ WF_vars(ReconcileReads(r) /\ r \notin doomed)
       /\ WF_vars(ReconcileInterrupts(r))

FairSpec == Spec /\ Fairness

-----------------------------------------------------------------------------
(* Properties. *)

\* A queued, running or finalizing run is the active run of its thread, so a
\* thread never has two of them.  Holds while no live lane stalls.
NonterminalIsActive ==
  \A r \in Runs : status[r] \in Live => IsActive(r)

\* At most one lane runs a Pi turn for a thread.  Holds while no live lane
\* stalls: the lease outlives the lane's claim on the thread.
OneTurnPerThread ==
  \A v, w \in Workers :
    (pc[v] = "executing" /\ pc[w] = "executing" /\ ThreadOf[run[v]] = ThreadOf[run[w]]) => v = w

\* A job leaves the stream only when its run is settled for good: whatever
\* crashed or failed, an unsettled run is still pending for some lane.
AckedIsSettled ==
  \A r \in Runs : job[r] = "acked" => status[r] \in Terminal

\* The same under stalls, where a zombie lane's late HSET may reopen the hash
\* of a run that was settled before.
AckedWasSettled ==
  \A r \in Runs : job[r] = "acked" => r \in settled

\* A run that used up its retries was settled and does not block its thread.
ExhaustedRunFreesThread ==
  \A r \in Runs : retryLaterCount[r] >= MaxAttempts => r \in settled /\ ~IsActive(r)

\* An answer in Discord is in the run hash too, so that recovery can find it.
AnswerIsDurable ==
  \A r \in Runs : posted[r] > 0 => result[r] # "none"

\* Without stalls the nonce window, the outbox and the leases together post
\* the answer of a run at most once.
AnswerPostedOnce ==
  \A r \in Runs : posted[r] < 2

\* Without stalls all of this is what a thread is promised: RunLifecycle.
Phase(r) ==
  IF status[r] = "absent" THEN "absent"
  ELSE IF status[r] \in Live THEN "open" ELSE "settled"

Lifecycle == INSTANCE RunLifecycle
  WITH phase <- [r \in Runs |-> Phase(r)], holder <- active, answers <- posted

RefinesLifecycle == Lifecycle!Spec

\* VIOLATED.  reconcile reports a live run without a lease as left "pending for
\* worker XAUTOCLAIM recovery", so its job must still be in the stream.  The
\* HSET of a stalled lane's patchRunFinalizing can reopen a run that another
\* lane has settled and acknowledged, and if that lane had not freed the
\* pointer, nothing ever executes, interrupts or unpoints the run again.
UnleasedRunIsPending ==
  \A r \in Runs : (status[r] \in Live /\ IsActive(r) /\ lease[r] = None) => job[r] # "acked"

\* VIOLATED.  The key says "done" for a successful finalization.  It says so
\* too after an attempt that finalized an error and died before markTerminal:
\* the next attempt's answer is then never posted and its run is "succeeded".
SucceededMeansAnswered ==
  \A r \in Runs : status[r] = "succeeded" => posted[r] > 0

\* Without stalls every accepted prompt ends: its run settles for good, its
\* thread is freed, and its job leaves the stream.
EveryRunSettles ==
  \A r \in Runs : (status[r] # "absent") ~> [](status[r] \in Terminal /\ ~IsActive(r) /\ job[r] = "acked")

=============================================================================
