------------------------------ MODULE RunStore ------------------------------
(***************************************************************************)
(* The Redis keyspace of the run-control plane and the commands the code   *)
(* sends to it: src/src/run-control/store.ts and its Lua scripts in        *)
(* lua-scripts.ts.  One EVAL or one HSET is one atomic step.  A store      *)
(* method that sends several commands (patchRun, markTerminal) is several  *)
(* operators here, and its callers take several steps.                     *)
(*                                                                         *)
(* Abstractions.  A lease or finalize token is the lane that drew it: a    *)
(* lane handles one job at a time and a key is only set when it is free    *)
(* (NX), so a key that holds lane w holds w's current token whenever w is  *)
(* in a position to use it.  A TTL is an expiry step that may come at any  *)
(* time.  An answer is one Discord message.                                *)
(***************************************************************************)
EXTENDS Naturals, FiniteSets

CONSTANTS
  Runs,         \* run ids: each is enqueued at most once
  Threads,      \* logical Discord threads
  ThreadOf,     \* the logical thread of each run
  Workers,      \* worker lanes, over all daemon processes
  MaxAttempts,  \* runControl.maxRetryLaterAttempts after boundedMaxAttempts
  None,         \* an absent key
  Done          \* the permanent value of a completed finalize key

ASSUME StoreAssumption ==
  /\ ThreadOf \in [Runs -> Threads]
  /\ MaxAttempts \in Nat \ {0}
  /\ None \notin Runs \cup Workers \cup {Done}
  /\ Done \notin Workers

VARIABLES
  status,           \* run hash field "status"; "absent" before the hash exists
  result,           \* run hash field resultText: unset, the empty string, a text
  retryLaterCount,  \* run hash field retryLaterCount
  outbox,           \* run hash: finalDiscordOutboxStartedAt, then finalDiscordMessageIds
  active,           \* thread:{id}:active, the active pointer of a thread
  lease,            \* run:{id}:lease
  finalize,         \* finalize:{id}
  job,              \* the run's entry in the jobs stream, in its consumer group
  settled           \* history: the runs that have ever had a terminal status

storeVars ==
  <<status, result, retryLaterCount, outbox, active, lease, finalize, job, settled>>

Live == {"queued", "running", "finalizing"}
Terminal == {"succeeded", "failed", "interrupted"}
Answer == {"empty", "text"}

StoreTypeOK ==
  /\ status \in [Runs -> {"absent"} \cup Live \cup Terminal]
  /\ result \in [Runs -> {"none"} \cup Answer]
  /\ retryLaterCount \in [Runs -> Nat]
  /\ outbox \in [Runs -> {"none", "started", "sent"}]
  /\ active \in [Threads -> Runs \cup {None}]
  /\ lease \in [Runs -> Workers \cup {None}]
  /\ finalize \in [Runs -> Workers \cup {None, Done}]
  /\ job \in [Runs -> {"none", "new", "pending", "acked"}]
  /\ settled \in SUBSET Runs

StoreInit ==
  /\ status = [r \in Runs |-> "absent"]
  /\ result = [r \in Runs |-> "none"]
  /\ retryLaterCount = [r \in Runs |-> 0]
  /\ outbox = [r \in Runs |-> "none"]
  /\ active = [t \in Threads |-> None]
  /\ lease = [r \in Runs |-> None]
  /\ finalize = [r \in Runs |-> None]
  /\ job = [r \in Runs |-> "none"]
  /\ settled = {}

IsActive(r) == active[ThreadOf[r]] = r

-----------------------------------------------------------------------------
(* Enqueue, delivery and acknowledgement. *)

\* atomicEnqueueRun: pointer, hash and stream entry in one script, refused
\* while the thread has any active pointer.
AtomicEnqueueRun(r) ==
  /\ status[r] = "absent"
  /\ active[ThreadOf[r]] = None
  /\ active' = [active EXCEPT ![ThreadOf[r]] = r]
  /\ status' = [status EXCEPT ![r] = "queued"]
  /\ job' = [job EXCEPT ![r] = "new"]
  /\ UNCHANGED <<result, retryLaterCount, outbox, lease, finalize, settled>>

\* XREADGROUP ">" of a fresh entry, or XAUTOCLAIM of a pending one that has
\* been idle for a lease TTL.  Nothing refreshes the idle time of an entry, so
\* a lane may be handed a job that another lane is still executing.
DeliverJob(r) ==
  /\ job[r] \in {"new", "pending"}
  /\ job' = [job EXCEPT ![r] = "pending"]
  /\ UNCHANGED <<status, result, retryLaterCount, outbox, active, lease, finalize, settled>>

\* XACK.
AcknowledgeJob(r) ==
  /\ job' = [job EXCEPT ![r] = "acked"]
  /\ UNCHANGED <<status, result, retryLaterCount, outbox, active, lease, finalize, settled>>

\* Mutant: a plain DEL, whatever the pointer holds.
ClearActiveAlways(r) ==
  /\ active' = [active EXCEPT ![ThreadOf[r]] = None]
  /\ UNCHANGED <<status, result, retryLaterCount, outbox, lease, finalize, job, settled>>

\* clearActiveIfMatches.
ClearActiveIfMatches(r) ==
  /\ active' = IF IsActive(r) THEN [active EXCEPT ![ThreadOf[r]] = None] ELSE active
  /\ UNCHANGED <<status, result, retryLaterCount, outbox, lease, finalize, job, settled>>

-----------------------------------------------------------------------------
(* The lease. *)

\* verifyRunOwnership.
Owns(w, r) == IsActive(r) /\ lease[r] = w /\ status[r] \in Live

\* Mutants: a claim that overwrites a held lease, and one that does not take
\* over a run in finalization.
CanClaimHeld(r, loaded) ==
  IsActive(r) /\ status[r] = loaded /\ status[r] \in Live

CanClaimFresh(r, loaded) ==
  IsActive(r) /\ status[r] = loaded /\ status[r] \in Live \ {"finalizing"} /\ lease[r] = None

\* claimRunLease, refused when the pointer moved, when the status is no longer
\* the one the lane loaded, or when the lease is held.
CanClaim(r, loaded) ==
  /\ IsActive(r)
  /\ status[r] = loaded
  /\ status[r] \in Live
  /\ lease[r] = None

ClaimRunLease(w, r, loaded) ==
  /\ CanClaim(r, loaded)
  /\ lease' = [lease EXCEPT ![r] = w]
  /\ status' = [status EXCEPT ![r] = IF loaded = "finalizing" THEN "finalizing" ELSE "running"]
  /\ UNCHANGED <<result, retryLaterCount, outbox, active, finalize, job, settled>>

\* releaseRunLease: deletes the key only when it still holds the token.
ReleaseRunLease(w, r) ==
  /\ lease' = [lease EXCEPT ![r] = IF @ = w THEN None ELSE @]
  /\ UNCHANGED <<status, result, retryLaterCount, outbox, active, finalize, job, settled>>

\* recordRetryLater below the limit: counts the attempt and frees the lease.
\* (Mutant first: one attempt too many.)
ExhaustsRetriesLate(r) == retryLaterCount[r] + 1 > MaxAttempts

ExhaustsRetries(r) == retryLaterCount[r] + 1 >= MaxAttempts

CountRetryLater(r) ==
  /\ ~ExhaustsRetries(r)
  /\ retryLaterCount' = [retryLaterCount EXCEPT ![r] = @ + 1]
  /\ lease' = [lease EXCEPT ![r] = None]
  /\ UNCHANGED <<status, result, outbox, active, finalize, job, settled>>

\* recordRetryLater at the limit: interrupts the run, frees thread and lease.
DeadLetter(r) ==
  /\ ExhaustsRetries(r)
  /\ retryLaterCount' = [retryLaterCount EXCEPT ![r] = @ + 1]
  /\ status' = [status EXCEPT ![r] = "interrupted"]
  /\ settled' = settled \cup {r}
  /\ active' = [active EXCEPT ![ThreadOf[r]] = None]
  /\ lease' = [lease EXCEPT ![r] = None]
  /\ UNCHANGED <<result, outbox, finalize, job>>

\* The lease key's PX runs out.
ExpireLease(r) ==
  /\ lease[r] # None
  /\ lease' = [lease EXCEPT ![r] = None]
  /\ UNCHANGED <<status, result, retryLaterCount, outbox, active, finalize, job, settled>>

-----------------------------------------------------------------------------
(* The finalize claim. *)

\* acquireFinalize: GET, SET NX PX, GET.  Its reply is always the one a single
\* step at one of the three commands would give, so it is one step here.
AcquireFinalize(w, r) ==
  /\ finalize' = [finalize EXCEPT ![r] = IF @ = None THEN w ELSE @]
  /\ UNCHANGED <<status, result, retryLaterCount, outbox, active, lease, job, settled>>

\* completeFinalize answers 1 for the token it is given and for "done".
HoldsFinalize(w, r) == finalize[r] \in {w, Done}

CompleteFinalize(w, r) ==
  /\ HoldsFinalize(w, r)
  /\ finalize' = [finalize EXCEPT ![r] = Done]
  /\ UNCHANGED <<status, result, retryLaterCount, outbox, active, lease, job, settled>>

\* The claim's PX runs out.  No heartbeat extends it; "done" has no TTL.
ExpireFinalize(r) ==
  /\ finalize[r] \in Workers
  /\ finalize' = [finalize EXCEPT ![r] = None]
  /\ UNCHANGED <<status, result, retryLaterCount, outbox, active, lease, job, settled>>

-----------------------------------------------------------------------------
(* The HSETs of patchRun and markTerminal.  Each comes one step after the   *)
(* HGETALL that looked for a terminal status.                               *)

\* Mutant: the status without the result.
WriteFinalizingOnly(r, answer) ==
  /\ status' = [status EXCEPT ![r] = "finalizing"]
  /\ UNCHANGED <<result, retryLaterCount, outbox, active, lease, finalize, job, settled>>

\* patchRun with status "finalizing" and the result.
WriteFinalizing(r, answer) ==
  /\ status' = [status EXCEPT ![r] = "finalizing"]
  /\ result' = [result EXCEPT ![r] = answer]
  /\ UNCHANGED <<retryLaterCount, outbox, active, lease, finalize, job, settled>>

\* markTerminal.
WriteTerminal(r, outcome) ==
  /\ status' = [status EXCEPT ![r] = outcome]
  /\ settled' = settled \cup {r}
  /\ UNCHANGED <<result, retryLaterCount, outbox, active, lease, finalize, job>>

\* Mutant: nothing is written before the send.
WriteOutboxOnceSent(r, progress) ==
  /\ outbox' = [outbox EXCEPT ![r] = IF progress = "sent" THEN progress ELSE @]
  /\ UNCHANGED <<status, result, retryLaterCount, active, lease, finalize, job, settled>>

\* patchRun of the outbox fields, which preserves terminal runs.  Only lanes
\* that load the run later read these fields and none of them executes a
\* terminal run, so its read and its write are one step.
WriteOutbox(r, progress) ==
  /\ outbox' = IF status[r] \in Terminal THEN outbox ELSE [outbox EXCEPT ![r] = progress]
  /\ UNCHANGED <<status, result, retryLaterCount, active, lease, finalize, job, settled>>

=============================================================================
