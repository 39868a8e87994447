---------------------------- MODULE RunLifecycle ----------------------------
(***************************************************************************)
(* What the run-control plane promises a Discord thread, with no queue,    *)
(* lease, lane or outbox: a thread holds one prompt at a time; while the   *)
(* prompt is open its answer appears at most once; it settles once and for *)
(* all; and only then is the thread free for the next prompt.              *)
(***************************************************************************)
EXTENDS Naturals

CONSTANTS Runs, Threads, ThreadOf, None

VARIABLES
  phase,    \* of each run: absent, open or settled
  holder,   \* the run that holds each thread, or None
  answers   \* copies of each run's answer in its thread

lifecycleVars == <<phase, holder, answers>>

Init ==
  /\ phase = [r \in Runs |-> "absent"]
  /\ holder = [t \in Threads |-> None]
  /\ answers = [r \in Runs |-> 0]

Accept(r) ==
  /\ phase[r] = "absent"
  /\ holder[ThreadOf[r]] = None
  /\ phase' = [phase EXCEPT ![r] = "open"]
  /\ holder' = [holder EXCEPT ![ThreadOf[r]] = r]
  /\ UNCHANGED answers

Post(r) ==
  /\ phase[r] = "open"
  /\ answers[r] = 0
  /\ answers' = [answers EXCEPT ![r] = 1]
  /\ UNCHANGED <<phase, holder>>

Settle(r) ==
  /\ phase[r] = "open"
  /\ phase' = [phase EXCEPT ![r] = "settled"]
  /\ UNCHANGED <<holder, answers>>

\* A settled run frees its thread; a dead-lettered one as it settles.
Free(r) ==
  /\ phase[r] = "settled"
  /\ holder[ThreadOf[r]] = r
  /\ holder' = [holder EXCEPT ![ThreadOf[r]] = None]
  /\ UNCHANGED <<phase, answers>>

SettleAndFree(r) ==
  /\ phase[r] = "open"
  /\ phase' = [phase EXCEPT ![r] = "settled"]
  /\ holder' = [holder EXCEPT ![ThreadOf[r]] = None]
  /\ UNCHANGED answers

Next ==
  \E r \in Runs : Accept(r) \/ Post(r) \/ Settle(r) \/ Free(r) \/ SettleAndFree(r)

Spec == Init /\ [][Next]_lifecycleVars

=============================================================================
