------------------------------- MODULE RunThread -------------------------------
(***************************************************************************)
(* One Discord thread in run-control mode: the bot's handlers that turn a  *)
(* message into a run or into an input of the active run, the worker lanes *)
(* that drain those inputs into the Pi turn they execute, the registry     *)
(* record of the thread, and the reconcile loop that repairs it.           *)
(*                                                                         *)
(* RunControl models what a lane does with the lease and the finalize      *)
(* claim command by command.  Here a lane's finalization is a few coarse   *)
(* steps (an ownership check is one step with the write it protects, the   *)
(* finalize claim is left out, so a run that is finalized again only posts *)
(* what its outbox recorded), and the detail is in the inputs, the thread's*)
(* chain of Pi operations and the registry.                                *)
(*                                                                         *)
(* A run is named after the message that started it.                       *)
(***************************************************************************)
EXTENDS RunStore, Sequences, SequencesExt

CONSTANTS
  Batch,      \* the COUNT of readInputsSince (50)
  MaxApply,   \* MAX_INPUT_APPLY_ATTEMPTS (30)
  MaxHandlers, \* bound on the messages the bot is placing at once
  MaxFaults   \* bound on process crashes and lost leases in a behaviour

Thread == CHOOSE t \in Threads : TRUE

ASSUME RunThreadAssumption ==
  /\ Threads = {Thread}
  /\ Batch \in Nat \ {0}
  /\ MaxApply \in Nat \ {0}
  /\ MaxHandlers \in Nat
  /\ MaxFaults \in Nat

VARIABLES
  msg,       \* where the handler of a message is, then what became of it
  target,    \* the run a handler read as queueable, for its XADD
  inputs,    \* thread:{id}:inputs: messages, in stream order
  registry,  \* the status of the thread's record
  lane,      \* each lane's leased machine
  drain,     \* each lane's drainInputs promise, which may outlive its machine
  waiting,   \* lanes whose prompt waits in the thread's chain of operations
  turn,      \* the Pi turn that streams, or NoTurn
  snapshot,  \* what the reconcile pass under way has read, or None
  faults     \* faults so far

botVars == <<msg, target, inputs>>
laneVars == <<lane, drain, waiting, turn>>
vars == <<storeVars, botVars, registry, laneVars, snapshot, faults>>

Idle == [at |-> "idle", run |-> None, last |-> 0, pending |-> {}]
NoTurn == [run |-> None, lane |-> None, live |-> FALSE, heard |-> {}]
NoDrain == [own |-> FALSE, last |-> 0, due |-> {}, kept |-> {}]

Handling == {"new", "enqueue", "refused", "append", "patch"}
Handled == {"run", "input", "heard", "unapplied", "dropped", "lost"}

\* A pending input counts its apply attempts.  The lists of pending inputs are
\* always in the order of the stream, so that a set of them says as much.
Pending == [msg : Runs, tries : 0..MaxApply]

LaneStates == {"idle", "draining", "starting", "executing", "executed", "errored",
               "posting", "settling", "failing", "clearing"}

\* Inputs, drains and the chain refer to messages and lanes that exist, and no
\* lane waits in the chain twice.
TypeOK ==
  /\ StoreTypeOK
  /\ msg \in [Runs -> Handling \cup Handled]
  /\ target \in [Runs -> Runs \cup {None}]
  /\ inputs \in Seq(Runs) /\ IsInjective(inputs)
  /\ registry \in {"idle", "queued", "running", "interrupted", "error"}
  /\ lane \in [Workers -> [at : LaneStates, run : Runs \cup {None}, last : Nat,
                          pending : SUBSET Pending]]
  /\ drain \in [Workers -> [own : BOOLEAN, last : Nat,
                           due : SUBSET Pending, kept : SUBSET Pending]]
  /\ \A l \in Workers :
       /\ (lane[l].at = "idle") <=> (lane[l].run = None)
       /\ lane[l].last <= Len(inputs)
  /\ waiting \in Seq(Workers) /\ IsInjective(waiting)
  /\ turn \in [run : Runs \cup {None}, lane : Workers \cup {None}, live : BOOLEAN,
              heard : SUBSET Runs]
  /\ snapshot \in {None} \cup [shows : {"absent", "queued", "running"}, settled : {None}]
                         \cup [shows : {"settled"}, settled : Runs]
  /\ faults \in 0..MaxFaults

Init ==
  /\ StoreInit
  /\ msg = [m \in Runs |-> "new"]
  /\ target = [m \in Runs |-> None]
  /\ inputs = <<>>
  /\ registry = "idle"
  /\ lane = [l \in Workers |-> Idle]
  /\ drain = [l \in Workers |-> NoDrain]
  /\ waiting = <<>>
  /\ turn = NoTurn
  /\ snapshot = None
  /\ faults = 0

-----------------------------------------------------------------------------
(* The bot's handlers. *)

Pointer == active[Thread]

\* getQueueableActiveRunId: the active run, unless it is finalizing or settled.
\* A settled run's pointer is cleared on the way.
Queueable == Pointer # None /\ status[Pointer] \in {"queued", "running"}

ClearSettledPointer ==
  IF Pointer # None /\ status[Pointer] \in Terminal
  THEN ClearActiveIfMatches(Pointer)
  ELSE UNCHANGED storeVars

HandlerGoes(m, to) == msg' = [msg EXCEPT ![m] = to]

\* The message becomes an input of the active run, if there is one to take it,
\* and goes to where otherwise.
LookFor(m, otherwise) ==
  /\ ClearSettledPointer
  /\ target' = [target EXCEPT ![m] = IF Queueable THEN Pointer ELSE None]
  /\ HandlerGoes(m, IF Queueable THEN "append" ELSE otherwise)
  /\ UNCHANGED <<inputs, registry, laneVars, snapshot, faults>>

\* queueIfActive, on a message in the thread.  Messages are named in the order
\* of their arrival.
Look(m) ==
  /\ msg[m] = "new"
  /\ m = CHOOSE x \in Runs : msg[x] = "new"
  /\ Cardinality({x \in Runs : msg[x] \in {"enqueue", "refused", "append"}}) < MaxHandlers
  /\ LookFor(m, "enqueue")

\* enqueueRunControlPrompt, once its placeholder is posted: tryEnqueueRun tries
\* again when it has cleared the pointer of a settled run.
TryEnqueue(m) ==
  /\ msg[m] = "enqueue"
  /\ \/ AtomicEnqueueRun(m) /\ HandlerGoes(m, "patch")
     \/ /\ Pointer # None /\ status[Pointer] \in Terminal
        /\ ClearSettledPointer
        /\ UNCHANGED msg
     \/ /\ Pointer # None /\ status[Pointer] \in Live
        /\ HandlerGoes(m, "refused")
        /\ UNCHANGED storeVars
  /\ UNCHANGED <<target, inputs, registry, laneVars, snapshot, faults>>

\* The refused prompt looks for the active run again; if that has begun to
\* finalize, or is over, the placeholder is deleted and the prompt is gone.
LookAgain(m) == msg[m] = "refused" /\ LookFor(m, "dropped")

\* appendInput, whatever the run has become since the look.
AppendInput(m) ==
  /\ msg[m] = "append"
  /\ inputs' = Append(inputs, m)
  /\ HandlerGoes(m, "input")
  /\ UNCHANGED <<storeVars, target, registry, laneVars, snapshot, faults>>

\* The registry patch that follows a successful enqueue.
PatchQueued(m) ==
  /\ msg[m] = "patch"
  /\ registry' = "queued"
  /\ HandlerGoes(m, "run")
  /\ UNCHANGED <<storeVars, target, inputs, laneVars, snapshot, faults>>

-----------------------------------------------------------------------------
(* A lane takes a run. *)

\* The job machine up to the lease: a run in finalization with its answer
\* resumes there, any other starts over, its inputs from 0-0 included.
TakeRun(l, r) ==
  /\ lane[l].at = "idle"
  /\ job[r] \in {"new", "pending"}
  /\ CanClaim(r, status[r])
  /\ job' = [job EXCEPT ![r] = "pending"]
  /\ lease' = [lease EXCEPT ![r] = l]
  /\ status' = [status EXCEPT ![r] = IF @ = "finalizing" THEN @ ELSE "running"]
  /\ lane' = [lane EXCEPT ![l] =
       [Idle EXCEPT !.at = IF status[r] = "finalizing" THEN "posting" ELSE "draining", !.run = r]]
  /\ UNCHANGED <<result, retryLaterCount, outbox, active, finalize, settled,
                 botVars, registry, drain, waiting, turn, snapshot, faults>>

\* A settled run's job is only acknowledged.
SkipSettled(l, r) ==
  /\ lane[l].at = "idle"
  /\ job[r] \in {"new", "pending"}
  /\ status[r] \in Terminal
  /\ AcknowledgeJob(r)
  /\ UNCHANGED <<botVars, registry, laneVars, snapshot, faults>>

Owned(l) == Owns(l, lane[l].run)

At(l, at) == lane' = [lane EXCEPT ![l].at = at]

\* The machine leaves the states that own the drain and the execution: a drain
\* in flight goes on, but nobody waits for its output.
Disowned(l) == drain' = [drain EXCEPT ![l].own = FALSE]

\* The run is left pending for its next owner.  The signal of the lane's prompt
\* is aborted: a prompt that waits throws before it does anything, a turn that
\* streams is told to stop and its result is thrown away.  (Mutant first: the
\* prompt keeps its place in the chain.)
LeaveWaiting(l) ==
  /\ lane' = [lane EXCEPT ![l] = Idle]
  /\ Disowned(l)
  /\ turn' = IF turn.lane = l THEN [turn EXCEPT !.live = FALSE] ELSE turn
  /\ UNCHANGED <<storeVars, registry, waiting>>

Leave(l) ==
  /\ lane' = [lane EXCEPT ![l] = Idle]
  /\ Disowned(l)
  /\ waiting' = RemoveFirst(waiting, l)
  /\ turn' = IF turn.lane = l THEN [turn EXCEPT !.live = FALSE] ELSE turn
  /\ UNCHANGED <<storeVars, registry>>

-----------------------------------------------------------------------------
(* drainInputs. *)

\* readInputsSince reads up to here.  (Mutant first: the cursor moves past the
\* inputs that did not fit in the page.)
PageEndAtTail(l) == Len(inputs)

PageEnd(l) == Min({Len(inputs), lane[l].last + Batch})

Page(l) ==
  {inputs[i] : i \in (lane[l].last + 1)..Min({Len(inputs), lane[l].last + Batch})}

\* What of the page is for the lane's own run.  (Mutant first: all of it.)
MineUnfiltered(l) == Page(l)

Mine(l) == {m \in Page(l) : target[m] = lane[l].run}

\* rememberInputDrain; the first drain is over before the run is executed.
Remembered(l, last, pending) ==
  [lane EXCEPT ![l].at = IF @ = "draining" THEN "starting" ELSE @,
               ![l].last = last, ![l].pending = pending]

\* ensureOwnership, then one page.  Of the inputs that could not be applied
\* before, those are due again whose backoff is over (ready).  With nothing due
\* the drain is over.
ReadInputs(l, ready) ==
  /\ lane[l].at \in {"draining", "executing"}
  /\ drain[l] = NoDrain
  /\ Owned(l)
  /\ LET due == ready \cup [msg : Mine(l), tries : {0}]
         kept == lane[l].pending \ ready
     IN  IF due = {}
         THEN lane' = Remembered(l, PageEnd(l), kept) /\ UNCHANGED drain
         ELSE /\ drain' = [drain EXCEPT ![l] =
                   [own |-> TRUE, last |-> PageEnd(l), due |-> due, kept |-> kept]]
              /\ UNCHANGED lane
  /\ UNCHANGED <<storeVars, botVars, registry, waiting, turn, snapshot, faults>>

\* The drain goes through what is due in the order of the stream.
Place(m) == CHOOSE i \in DOMAIN inputs : inputs[i] = m

IsNext(l, x) ==
  x \in drain[l].due /\ \A y \in drain[l].due : Place(x.msg) <= Place(y.msg)

\* The turn remembers what its own lane has steered it with.
Steered(l, m) == IF turn.live /\ turn.lane = l THEN [turn EXCEPT !.heard = @ \cup {m}] ELSE turn

\* applyInput: queueMessageDuringActive steers whatever turn streams in the
\* thread.  Without one the attempt is counted, and the last one drops the
\* input.  (Mutant first: an input that was taken is kept for the next drain.)
ApplyKeepingInput(l, x) ==
  /\ IsNext(l, x)
  /\ turn # NoTurn
  /\ drain' = [drain EXCEPT ![l].due = @ \ {x}, ![l].kept = @ \cup {x}]
  /\ turn' = Steered(l, x.msg)
  /\ msg' = [msg EXCEPT ![x.msg] = "heard"]
  /\ UNCHANGED <<storeVars, target, inputs, registry, lane, waiting, snapshot, faults>>

ApplyInput(l, x) ==
  LET left == [drain EXCEPT ![l].due = @ \ {x}]
  IN  /\ IsNext(l, x)
      /\ \/ /\ turn # NoTurn
            /\ drain' = left
            /\ turn' = Steered(l, x.msg)
            /\ msg' = [msg EXCEPT ![x.msg] = "heard"]
         \/ /\ turn = NoTurn
            /\ x.tries + 1 < MaxApply
            /\ drain' = [left EXCEPT ![l].kept = @ \cup {[x EXCEPT !.tries = @ + 1]}]
            /\ UNCHANGED <<turn, msg>>
         \/ /\ turn = NoTurn
            /\ x.tries + 1 >= MaxApply
            /\ drain' = left
            /\ msg' = [msg EXCEPT ![x.msg] = IF @ = "heard" THEN @ ELSE "unapplied"]
            /\ UNCHANGED turn
      /\ UNCHANGED <<storeVars, target, inputs, registry, lane, waiting, snapshot, faults>>

\* The drain is over; its output counts when the machine still waits for it.
EndDrain(l) ==
  /\ drain[l] # NoDrain
  /\ drain[l].due = {}
  /\ lane' = IF drain[l].own THEN Remembered(l, drain[l].last, drain[l].kept) ELSE lane
  /\ drain' = [drain EXCEPT ![l] = NoDrain]
  /\ UNCHANGED <<storeVars, botVars, registry, waiting, turn, snapshot, faults>>

\* A drain or a heartbeat finds the run lost.
LoseRun(l) ==
  /\ lane[l].at \in {"draining", "executing"}
  /\ drain[l].own => lane[l].at = "executing"
  /\ ~Owned(l)
  /\ Leave(l)
  /\ UNCHANGED <<botVars, snapshot, faults>>

-----------------------------------------------------------------------------
(* executeRun, and the Pi turn. *)

\* executeRun marks the thread running and hands the prompt to enqueuePrompt.
StartPrompt(l) ==
  /\ lane[l].at = "starting"
  /\ registry' = "running"
  /\ waiting' = Append(waiting, l)
  /\ At(l, "executing")
  /\ UNCHANGED <<storeVars, botVars, drain, turn, snapshot, faults>>

\* enqueueOperation: one prompt of the thread at a time, in order.
TurnBegins ==
  /\ turn = NoTurn
  /\ waiting # <<>>
  /\ LET l == Head(waiting)
     IN  turn' = [run |-> lane[l].run, lane |-> l, live |-> TRUE, heard |-> {}]
  /\ waiting' = Tail(waiting)
  /\ registry' = "running"
  /\ UNCHANGED <<storeVars, botVars, lane, drain, snapshot, faults>>

\* Pi answers, fails or stops.  The result of an aborted prompt is thrown away.
\* adapter.abortRun, which a lane calls when it has lost its run, stops the turn
\* of whoever streams: here any turn may end at any time.
TurnEnds(outcome) ==
  /\ turn # NoTurn
  /\ IF turn.live
     THEN At(turn.lane, outcome) /\ Disowned(turn.lane)
     ELSE UNCHANGED <<lane, drain>>
  /\ turn' = NoTurn
  /\ UNCHANGED <<storeVars, botVars, registry, waiting, snapshot, faults>>

-----------------------------------------------------------------------------
(* The end of a run. *)

\* patchRunFinalizing, by the run's owner; the answer is posted next.
PatchFinalizing(l) ==
  /\ lane[l].at = "executed"
  /\ \/ /\ Owned(l)
        /\ WriteFinalizing(lane[l].run, "text")
        /\ At(l, "posting")
        /\ UNCHANGED <<drain, waiting, turn, registry>>
     \/ ~Owned(l) /\ Leave(l)
  /\ UNCHANGED <<botVars, snapshot, faults>>

\* finalizeRunControlSuccess ends with the registry's idle patch.
SettleSurface(l) ==
  /\ lane[l].at = "posting"
  /\ registry' = "idle"
  /\ At(l, "settling")
  /\ UNCHANGED <<storeVars, botVars, drain, waiting, turn, snapshot, faults>>

\* failRun, by the run's owner.
FailRun(l) ==
  /\ lane[l].at = "errored"
  /\ \/ /\ Owned(l)
        /\ registry' = "error"
        /\ At(l, "failing")
        /\ UNCHANGED <<storeVars, drain, waiting, turn>>
     \/ ~Owned(l) /\ Leave(l)
  /\ UNCHANGED <<botVars, snapshot, faults>>

\* markTerminal, which leaves a settled run as it is.
Settle(l) ==
  /\ lane[l].at \in {"settling", "failing"}
  /\ IF status[lane[l].run] \in Terminal
     THEN UNCHANGED storeVars
     ELSE WriteTerminal(lane[l].run, IF lane[l].at = "settling" THEN "succeeded" ELSE "failed")
  /\ At(l, "clearing")
  /\ UNCHANGED <<botVars, registry, drain, waiting, turn, snapshot, faults>>

\* clearActivePointer, then the lease and the job.
Release(l) ==
  LET r == lane[l].run
  IN  /\ lane[l].at = "clearing"
      /\ active' = IF Pointer = r THEN [active EXCEPT ![Thread] = None] ELSE active
      /\ lease' = [lease EXCEPT ![r] = IF @ = l THEN None ELSE @]
      /\ job' = [job EXCEPT ![r] = "acked"]
      /\ lane' = [lane EXCEPT ![l] = Idle]
      /\ UNCHANGED <<status, result, retryLaterCount, outbox, finalize, settled,
                     botVars, registry, drain, waiting, turn, snapshot, faults>>

-----------------------------------------------------------------------------
(* The reconcile loop: it reads Redis, and then repairs the registry as that is *)
(* by now, after what Redis was then.                                           *)

ReconcileReads ==
  /\ snapshot = None
  /\ snapshot' = IF Pointer = None THEN [shows |-> "absent", settled |-> None]
                 ELSE IF status[Pointer] \in Terminal THEN [shows |-> "settled", settled |-> Pointer]
                 ELSE [shows |-> IF status[Pointer] = "queued" THEN "queued" ELSE "running",
                       settled |-> None]
  /\ UNCHANGED <<storeVars, botVars, registry, laneVars, faults>>

\* A live record without an active run is interrupted, a live record of another
\* status or run follows Redis, a record that is not live is left alone.
\* (Mutant first: a live record without a run is left alone.)
RepairedMismatchOnly ==
  IF registry \in {"queued", "running"} /\ snapshot.shows \in {"queued", "running"}
  THEN snapshot.shows ELSE registry

Repaired ==
  IF registry \notin {"queued", "running"} \/ snapshot.shows = "settled" THEN registry
  ELSE IF snapshot.shows = "absent" THEN "interrupted" ELSE snapshot.shows

ReconcileRepairs ==
  /\ snapshot # None
  /\ registry' = Repaired
  /\ IF snapshot.shows = "settled"
     THEN ClearActiveIfMatches(snapshot.settled)
     ELSE UNCHANGED storeVars
  /\ snapshot' = None
  /\ UNCHANGED <<botVars, laneVars, faults>>

-----------------------------------------------------------------------------
(* Time and faults. *)

HeldBy(l, r) == lane[l].run = r /\ lease[r] = l

OrphanLeaseExpires(r) ==
  /\ \A l \in Workers : ~HeldBy(l, r)
  /\ ExpireLease(r)
  /\ UNCHANGED <<botVars, registry, laneVars, snapshot, faults>>

\* A lane misses its heartbeats for a lease TTL while it executes.  (RunControl
\* has the leases that are lost later.)
HeldLeaseExpires(r) ==
  /\ faults < MaxFaults
  /\ \E l \in Workers : HeldBy(l, r) /\ lane[l].at = "executing"
  /\ ExpireLease(r)
  /\ faults' = faults + 1
  /\ UNCHANGED <<botVars, registry, laneVars, snapshot>>

\* The process dies: handlers, lanes, drains, the chain and its turn.  The
\* registry file and Redis stay.
Crash ==
  /\ faults < MaxFaults
  /\ lane # [l \in Workers |-> Idle]
  /\ msg' = [m \in Runs |->
       IF msg[m] = "patch" THEN "run"
       ELSE IF msg[m] \in Handling \ {"new"} THEN "lost" ELSE msg[m]]
  /\ lane' = [l \in Workers |-> Idle]
  /\ drain' = [l \in Workers |-> NoDrain]
  /\ waiting' = <<>>
  /\ turn' = NoTurn
  /\ snapshot' = None
  /\ faults' = faults + 1
  /\ UNCHANGED <<storeVars, target, inputs, registry>>

-----------------------------------------------------------------------------
Handle(m) ==
  \/ Look(m) \/ TryEnqueue(m) \/ LookAgain(m) \/ AppendInput(m) \/ PatchQueued(m)

LaneStep(l) ==
  \/ (\E x \in drain[l].due : ApplyInput(l, x)) \/ EndDrain(l) \/ LoseRun(l)
  \/ StartPrompt(l) \/ PatchFinalizing(l) \/ SettleSurface(l)
  \/ FailRun(l) \/ Settle(l) \/ Release(l)

Next ==
  \/ \E m \in Runs : Handle(m)
  \/ \E l \in Workers : LaneStep(l)
  \/ \E l \in Workers, r \in Runs : TakeRun(l, r) \/ SkipSettled(l, r)
  \/ \E l \in Workers : \E ready \in SUBSET lane[l].pending : ReadInputs(l, ready)
  \/ TurnBegins
  \/ \E outcome \in {"executed", "errored"} : TurnEnds(outcome)
  \/ ReconcileReads \/ ReconcileRepairs
  \/ \E r \in Runs : OrphanLeaseExpires(r) \/ HeldLeaseExpires(r)
  \/ Crash

\* Handlers and lanes go on, the queue delivers, the ticker ticks, a backoff
\* ends, the reconcile interval fires and an orphaned lease expires.  Nothing
\* makes a person write, and nothing makes a turn end.
Fairness ==
  /\ \A m \in Runs :
       WF_vars(TryEnqueue(m) \/ LookAgain(m) \/ AppendInput(m) \/ PatchQueued(m))
  /\ \A l \in Workers :
       /\ WF_vars(LaneStep(l))
       /\ WF_vars(\E r \in Runs : TakeRun(l, r) \/ SkipSettled(l, r))
       /\ WF_vars(/\ lane[l].at = "draining"
                  /\ \E ready \in SUBSET lane[l].pending : ReadInputs(l, ready))
       /\ SF_vars(ReadInputs(l, lane[l].pending))
  /\ WF_vars(TurnBegins)
  /\ WF_vars(ReconcileReads) /\ WF_vars(ReconcileRepairs)
  /\ \A r \in Runs : WF_vars(OrphanLeaseExpires(r))

Spec == Init /\ [][Next]_vars /\ Fairness

-----------------------------------------------------------------------------
(* Properties. *)

Steers(l, x) == ApplyInput(l, x) /\ turn # NoTurn

\* A lane steers its turn with an input once: what the machine remembers of a
\* drain is exactly what that drain could not apply.
InputsHeardOnce ==
  [][\A l \in Workers : \A x \in drain[l].due :
       Steers(l, x) /\ turn.live /\ turn.lane = l => x.msg \notin turn.heard]_vars

\* A lane that executes its run and owns it steers, of the turns whose lane owns
\* its run too, only those of the run the input was queued for.  (A drain that
\* outlives its run may reach the next run's turn, and the turn of a lane that
\* has lost its run may take the inputs of the next one.)
InputsStayWithTheirRun ==
  [][\A l \in Workers : \A x \in drain[l].due :
       Steers(l, x) /\ drain[l].own /\ Owned(l) /\ Owns(turn.lane, turn.run) =>
         turn.run = target[x.msg]]_vars

TurnOf(r) == turn.live /\ turn.run = r

\* An input queued for the run whose turn streams reaches that turn however long
\* it lasts, unless its attempts ran out before the turn began.
InputsAreHeard ==
  \A m \in Runs :
    (msg[m] = "input" /\ TurnOf(target[m])) ~> (msg[m] # "input" \/ ~TurnOf(target[m]))

Quiet ==
  /\ \A m \in Runs : msg[m] \in Handled \cup {"new"}
  /\ Pointer = None
  /\ \A l \in Workers : lane[l].at = "idle"

\* When the thread is quiet its record does not go on saying queued or running,
\* whatever order the bot's, the lanes' and reconcile's patches came in.
RegistrySettles == Quiet ~> (registry \notin {"queued", "running"} \/ ~Quiet)
=============================================================================
