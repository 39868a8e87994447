---------------------------- MODULE DeploySafety ----------------------------
(***************************************************************************)
(* classifyDeploySafety of run-control/inspection.ts: what two inspections *)
(* of run control, one before and one after a restart, say about it.       *)
(*                                                                         *)
(* An inspection is [active, state, dead, pending, errors]: the run each   *)
(* thread's pointer names (or None), the state of each run, the runs that  *)
(* are dead-lettered, whether jobs are pending, whether reconcile reports  *)
(* an error.  A run's state is its status, with "lapsed" for a running or  *)
(* finalizing run whose lease has expired, "terminal" for every terminal   *)
(* status and "unknown" when the run hash is missing.                      *)
(***************************************************************************)
CONSTANTS Threads, Runs, Nobody

ASSUME DeploySafetyAssumption == Nobody \notin Runs

RunState == {"unknown", "queued", "running", "lapsed", "terminal"}

Inspection ==
  [active : [Threads -> Runs \cup {Nobody}], state : [Runs -> RunState],
   dead : SUBSET Runs, pending : BOOLEAN, errors : BOOLEAN]

Busy(i) == {t \in Threads : i.active[t] # Nobody}

\* (Mutant first: a run that left its pointer is not asked after.)
PreflightSeverityOfPresent(before, after, t, windowOver) ==
  LET r == after.active[t] IN
  IF r # Nobody /\ r \in after.dead THEN "unsafe"
  ELSE IF r # Nobody /\ after.state[r] \in {"unknown", "terminal"} THEN "unknown" ELSE "wait"

\* What became of the run that thread t was busy with before the restart.
PreflightSeverity(before, after, t, windowOver) ==
  LET r == after.active[t] IN
  IF r # before.active[t] \/ r \in after.dead THEN "unsafe"
  ELSE IF \/ after.state[r] \in {"unknown", "terminal"}
          \/ after.state[r] = "lapsed" /\ windowOver THEN "unknown" ELSE "wait"

Severities(before, after, windowOver) ==
  {PreflightSeverity(before, after, t, windowOver) : t \in Busy(before)}
    \cup {"unsafe" : r \in after.dead \ before.dead}
    \cup (IF after.errors THEN {"unknown"} ELSE {})
    \cup (IF after.pending \/ (Busy(before) = {} /\ Busy(after) # {})
            THEN {"wait"} ELSE {})

\* windowOver: the reclaim window, one lease TTL, has passed in between.
ClassifyDeploySafety(enabled, before, after, windowOver) ==
  LET s == Severities(before, after, windowOver) IN
  IF ~enabled THEN "unknown"
  ELSE IF "unsafe" \in s THEN "unsafe"
  ELSE IF "unknown" \in s THEN "unknown"
  ELSE IF "wait" \in s THEN "waiting" ELSE "safe"
=============================================================================
