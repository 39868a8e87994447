----------------------------- MODULE WorkerLanes -----------------------------
(***************************************************************************)
(* The lanes of a RunControlWorker (run-control/worker.ts), each an actor  *)
(* of run-control/worker-lane-machine.ts.  RunControl models what a lane   *)
(* does with a job; here a job is only handled or not, and the subject is  *)
(* how a lane starts, survives a Redis outage and learns that it must stop.*)
(*                                                                         *)
(* StoreOpen says whether the run-control store answers: every command of  *)
(* a closed store fails.                                                   *)
(***************************************************************************)
EXTENDS Naturals

CONSTANT Lanes

VARIABLES
  lane,           \* the state of each lane's machine; "off" before start
  stopRequested,  \* the lanes that were sent STOP and remember it
  overtime        \* ghost: jobs each lane took after its STOP, capped at 2

laneVars == <<lane, stopRequested, overtime>>

LaneState == {"off", "ensuringConsumerGroup", "retryingConsumerGroup",
              "dequeuing", "recordingIdle", "handlingJob", "done"}

LanesTypeOK ==
  /\ lane \in [Lanes -> LaneState]
  /\ stopRequested \subseteq Lanes
  /\ overtime \in [Lanes -> 0..2]

LanesInit ==
  /\ lane = [l \in Lanes |-> "off"]
  /\ stopRequested = {}
  /\ overtime = [l \in Lanes |-> 0]

Enter(l, s) == lane' = [lane EXCEPT ![l] = s]

\* start(): every lane at once, and only once.
StartLanes ==
  IF \A l \in Lanes : lane[l] = "off"
    THEN lane' = [l \in Lanes |-> "ensuringConsumerGroup"] /\ UNCHANGED <<stopRequested, overtime>>
    ELSE UNCHANGED laneVars

\* (Mutant first: a lane that waits to retry does not hear STOP.)
StopLanesDeaf ==
  /\ stopRequested' = stopRequested \cup {l \in Lanes : lane[l] \notin
                         {"off", "done", "retryingConsumerGroup"}}
  /\ UNCHANGED <<lane, overtime>>

\* stop() sends STOP to every lane: a lane that waits to retry is done at
\* once, the others remember it until they next look.
StopLanes ==
  /\ stopRequested' = stopRequested \cup {l \in Lanes : lane[l] \notin {"off", "done"}}
  /\ lane' = [l \in Lanes |-> IF lane[l] = "retryingConsumerGroup" THEN "done" ELSE lane[l]]
  /\ UNCHANGED overtime

LanesGone ==
  /\ lane' = [l \in Lanes |-> "off"]
  /\ UNCHANGED <<stopRequested, overtime>>

LanesDone == \A l \in Lanes : lane[l] \in {"off", "done"}

\* ensureConsumerGroup answered.
Ensured(l) ==
  /\ lane[l] = "ensuringConsumerGroup"
  /\ Enter(l, IF l \in stopRequested THEN "done" ELSE "dequeuing")
  /\ UNCHANGED <<stopRequested, overtime>>

EnsureFails(l) ==
  /\ lane[l] = "ensuringConsumerGroup"
  /\ Enter(l, IF l \in stopRequested THEN "done" ELSE "retryingConsumerGroup")
  /\ UNCHANGED <<stopRequested, overtime>>

RetryDelayOver(l) ==
  /\ lane[l] = "retryingConsumerGroup"
  /\ Enter(l, "ensuringConsumerGroup")
  /\ UNCHANGED <<stopRequested, overtime>>

\* A job that the blocked read delivers is handled even after STOP.
DequeueJob(l) ==
  /\ lane[l] = "dequeuing"
  /\ Enter(l, "handlingJob")
  /\ overtime' = [overtime EXCEPT ![l] =
                    IF l \in stopRequested /\ @ < 2 THEN @ + 1 ELSE @]
  /\ UNCHANGED stopRequested

DequeueNothing(l) ==
  /\ lane[l] = "dequeuing"
  /\ Enter(l, "recordingIdle")
  /\ UNCHANGED <<stopRequested, overtime>>

DequeueFails(l) ==
  /\ lane[l] = "dequeuing"
  /\ Enter(l, "retryingConsumerGroup")
  /\ UNCHANGED <<stopRequested, overtime>>

\* (Mutant first: STOP is only looked for after an idle cycle.)
CycleOverWhenIdle(l, from) ==
  /\ lane[l] = from
  /\ Enter(l, IF l \in stopRequested /\ from = "recordingIdle" THEN "done" ELSE "dequeuing")
  /\ UNCHANGED <<stopRequested, overtime>>

\* routingAfterCycle, after a job or an idle record, whether or not it failed.
CycleOver(l, from) ==
  /\ lane[l] = from
  /\ Enter(l, IF l \in stopRequested THEN "done" ELSE "dequeuing")
  /\ UNCHANGED <<stopRequested, overtime>>

\* What a lane can do by itself while its store answers, or does not.
LaneStep(l, storeOpen) ==
  \/ storeOpen /\ (Ensured(l) \/ DequeueJob(l) \/ DequeueNothing(l))
  \/ ~storeOpen /\ (EnsureFails(l) \/ DequeueFails(l))
  \/ RetryDelayOver(l)
  \/ CycleOver(l, "recordingIdle")
  \/ CycleOver(l, "handlingJob")

\* A command of an open store fails.
LaneFault(l) == EnsureFails(l) \/ DequeueFails(l)
=============================================================================
