----------------------------- MODULE PiSessions -----------------------------
(***************************************************************************)
(* The Pi sessions of one Discord thread when run control is off: the      *)
(* bot's prompt handlers, the runtime manager (src/pi-runtime.ts), the     *)
(* thread's registry record and the recovery of an interrupted prompt when *)
(* the daemon starts again.  The thread already has a session file.        *)
(*                                                                         *)
(* One action per stretch of code between two awaits.  A handler works     *)
(* with the record it read when its message arrived (seen), the manager's  *)
(* operations are chained (queue), and the messages that look for a turn   *)
(* to steer are not.  The Pi SDK's session is external: a turn streams     *)
(* until it ends, fails or is aborted.                                     *)
(***************************************************************************)
EXTENDS Naturals, FiniteSets, Sequences

CONSTANTS Messages,    \* the Discord messages and interactions that carry a prompt
          Commands,    \* the thread's /pi reload and /pi compact
          Reload,      \* the one of Commands that reloads
          MaxRuntimes, \* bound: sessions open at once
          MaxFaults,   \* bound: failed calls and crashes
          None

ASSUME ConstantsAssumption ==
  /\ IsFiniteSet(Messages) /\ IsFiniteSet(Commands)
  /\ Messages \cap Commands = {} /\ Reload \notin Messages
  /\ None \notin Messages \cup Commands \cup 1..MaxRuntimes
  /\ MaxRuntimes \in Nat /\ MaxFaults \in Nat

Runtimes == 1..MaxRuntimes

VARIABLES status, activeRun,      \* the registry record of the thread
          pc, seen, held,         \* the handlers: where, the record they read, the runtime they opened
          placeholders,           \* the prompts that have asked once and posted their placeholder
          queue, at, opRt,        \* the chained operations, and where the first one stands
          requested,              \* the commands given so far
          mapped, rt, streaming,  \* this.runtimes, the runtimes and their turns
          timers,                 \* the armed idle timers
          answer, open,           \* the session file: its last answer, and entries after it
          wrapped,                \* prompts wrapped in a recovery prompt
          recovery, found,        \* the startup recovery and the record it found
          faults,
          crowd, began, timedOut, raced, reloadFailed  \* history

record == <<status, activeRun>>
handlers == <<pc, seen, held, placeholders>>
operations == <<queue, at, opRt, requested>>
sessions == <<mapped, rt, streaming, timers>>
transcript == <<answer, open>>
startup == <<recovery, found>>
history == <<crowd, began, timedOut, raced, reloadFailed>>
vars == <<record, handlers, operations, sessions, transcript, wrapped, startup, faults, history>>

\* hasVisibleActiveRun
Visible == status = "running" /\ activeRun # None

\* A handler that is done leaves the registry alone; one in flight, even one that is
\* posting its answer, may still come to the catch that writes "error" there.
Settled == {"steered", "answered", "failed", "lost", "recovered"}
InFlight == {m \in Messages : pc[m] \notin Settled \cup {"new"}}
\* ... with no turn under way, before it or after it.
Unbegun == {m \in InFlight : \A r \in Runtimes : streaming[r] # m}

TypeOK ==
  /\ status \in {"idle", "running", "error", "interrupted"}
  /\ activeRun \in Messages \cup {None}
  /\ activeRun # None => status \in {"running", "interrupted"}
  /\ pc \in [Messages -> Settled \cup {"new", "asking", "opening", "opened",
                                       "patched", "waiting", "erring", "answering"}]
  /\ seen \in [Messages -> BOOLEAN]
  /\ held \in [Messages -> Runtimes \cup {None}] /\ placeholders \subseteq Messages
  /\ queue \in Seq(Messages \cup Commands)
  /\ at \in {"start", "opening", "fetched", "turn", "ok", "error"}
  /\ opRt \in Runtimes \cup {None} /\ requested \subseteq Commands
  /\ mapped \in Runtimes \cup {None}
  /\ rt \in [Runtimes -> {"gone", "opening", "live"}]
  /\ streaming \in [Runtimes -> Messages \cup {None}]
  /\ timers \subseteq Runtimes
  /\ answer \in Messages \cup {None} /\ open \in BOOLEAN
  /\ wrapped \subseteq Messages
  /\ recovery \in {"none", "resume", "reconcile"} /\ found \in Messages \cup {None}
  /\ faults \in 0..MaxFaults
  /\ mapped # None => rt[mapped] = "live"

\* The daemon's first start.
FirstStart ==
  /\ status = "idle" /\ activeRun = None
  /\ pc = [m \in Messages |-> "new"]
  /\ wrapped = {} /\ recovery = "none" /\ open = FALSE
  /\ crowd = {} /\ began = {}

\* A start after a crash in the turn that was to recover an earlier crash.
SecondRestart ==
  \E m \in Messages :
    /\ status = "interrupted" /\ activeRun = m
    /\ pc = [[x \in Messages |-> "new"] EXCEPT ![m] = "lost"]
    /\ wrapped = {m} /\ recovery \in {"resume", "reconcile"} /\ open = TRUE
    /\ crowd = {m} /\ began = {m}

Init ==
  /\ FirstStart \/ SecondRestart
  /\ seen = [m \in Messages |-> FALSE] /\ held = [m \in Messages |-> None]
  /\ placeholders = {}
  /\ queue = <<>> /\ at = "start" /\ opRt = None /\ requested = {}
  /\ mapped = None /\ rt = [r \in Runtimes |-> "gone"]
  /\ streaming = [r \in Runtimes |-> None] /\ timers = {}
  /\ answer = None /\ found = None /\ faults = 0
  /\ timedOut = {}
  /\ raced = FALSE /\ reloadFailed = FALSE

Fault == faults < MaxFaults /\ faults' = faults + 1

-----------------------------------------------------------------------------
(* The runtime map and its idle timers.                                    *)

\* (Mutant first: normalizeThreadLifecycle is forgotten.)
PatchThreadAsIs(newStatus, newRun) == status' = newStatus /\ activeRun' = newRun

\* patchThread: a record that is neither running nor interrupted has no active run.
PatchThread(newStatus, newRun) ==
  /\ status' = newStatus
  /\ activeRun' = IF newStatus \in {"running", "interrupted"} THEN newRun ELSE None

\* scheduleDispose: arms the timer of r again.
ScheduleDispose(r) == timers' = timers \cup {r}

\* (Mutant first: the runtime leaves the map and is not disposed.)
UnmapThread == mapped' = None /\ UNCHANGED rt

\* disposeThread: whatever runtime the map holds for the thread goes, with its timer.
DisposeThread ==
  /\ mapped' = None
  /\ rt' = [rt EXCEPT ![mapped] = "gone"]

\* getOrCreateRuntime, first part: a session is being opened.
\* A runtime nothing refers to any more makes room for a new one, disposed or not.
Unused(r) ==
  /\ r \notin timers \cup {mapped, opRt}
  /\ \A m \in Messages : held[m] # r
Opening == {r \in Runtimes : rt[r] = "opening"}
StartOpening(r) ==
  /\ Unused(r) /\ \A s \in 1..(r - 1) : ~ Unused(s)
  /\ rt' = [rt EXCEPT ![r] = "opening"]
  /\ timedOut' = timedOut \ {r}
  /\ raced' = (raced \/ Opening # {})
  /\ UNCHANGED <<mapped, streaming, timers>>

\* getOrCreateRuntime, second part: the session is mapped and registered.
Opened(r) ==
  /\ rt' = [rt EXCEPT ![r] = "live"]
  /\ mapped' = r
  /\ ScheduleDispose(r)
  /\ PatchThread(IF Visible THEN status ELSE "idle", activeRun)
  /\ UNCHANGED streaming

-----------------------------------------------------------------------------
(* The bot: a prompt message, from its arrival to its answer.              *)

\* The handler reads the thread's record; its later steps use this reading.
Arrive(m) ==
  /\ pc[m] = "new"
  /\ pc' = [pc EXCEPT ![m] = "asking"]
  /\ seen' = [seen EXCEPT ![m] = Visible]
  /\ wrapped' = IF status = "interrupted" THEN wrapped \cup {m} ELSE wrapped
  /\ crowd' = crowd \cup Unbegun
                    \cup {x \in {m} : InFlight # {} \/ queue # <<>> \/ recovery # "none"}
                    \cup {p \in {activeRun, found} \ {None} : recovery # "none"}
  /\ UNCHANGED <<record, held, placeholders, operations, sessions, transcript, startup,
                 faults, began, timedOut, raced, reloadFailed>>

\* queueIfActive found no turn to steer: the first time the handler sends its
\* placeholder and asks again, the second time it claims the record.
NotQueued(m) ==
  IF m \notin placeholders
    THEN /\ pc' = [pc EXCEPT ![m] = "asking"]
         /\ placeholders' = placeholders \cup {m}
         /\ UNCHANGED record
    ELSE /\ pc' = [pc EXCEPT ![m] = "patched"]
         /\ PatchThread("running", m)
         /\ placeholders' = placeholders \ {m}

\* queueMessageOnSession: the message steers the turn that streams on r.
Steered(m, r) ==
  /\ streaming[r] # None
  /\ pc' = [pc EXCEPT ![m] = "steered"]
  /\ placeholders' = placeholders \ {m}
  /\ UNCHANGED record

\* queueMessageForThreadIfActive with a mapped runtime and a visible run.
AskVisible(m) ==
  /\ pc[m] = "asking" /\ seen[m] /\ mapped # None
  /\ \/ Steered(m, mapped)
     \/ streaming[mapped] = None /\ NotQueued(m)
  /\ UNCHANGED <<seen, held, operations, sessions, transcript, wrapped, startup, faults,
                 history>>

\* ... and no visible run in the record the handler read: nothing to do, unless
\* the runtime streams.
AskHidden(m) ==
  /\ pc[m] = "asking" /\ ~ seen[m]
  /\ mapped # None => streaming[mapped] = None
  /\ NotQueued(m)
  /\ UNCHANGED <<seen, held, operations, sessions, transcript, wrapped, startup, faults,
                 history>>

\* (Mutant first: the runtime is disposed and its turn is not aborted.)
DisposeUntracked(m) ==
  /\ pc[m] = "asking" /\ ~ seen[m] /\ mapped # None /\ streaming[mapped] # None
  /\ DisposeThread
  /\ timers' = timers \ {mapped}
  /\ NotQueued(m)
  /\ UNCHANGED <<seen, held, operations, streaming, transcript, wrapped, startup, faults,
                 history>>

\* abortUntrackedRuntime: a turn that streams behind a record without a visible
\* run is taken for a leftover; it is aborted and its runtime disposed.  The
\* operation of that turn goes on as if it had ended, and may arm the timer again.
AbortUntracked(m) ==
  /\ pc[m] = "asking" /\ ~ seen[m] /\ mapped # None /\ streaming[mapped] # None
  /\ streaming' = [streaming EXCEPT ![mapped] = None]
  /\ at' = "ok"
  /\ DisposeThread
  /\ timers' \in {timers \ {mapped}, timers \cup {mapped}}
  /\ NotQueued(m)
  /\ timedOut' = timedOut \ {mapped}
  /\ UNCHANGED <<seen, held, queue, opRt, requested, transcript, wrapped, startup, faults,
                 crowd, began, raced, reloadFailed>>

\* ... and no mapped runtime: a visible run's session is opened to steer it.
AskUnmapped(m) ==
  /\ pc[m] = "asking" /\ seen[m] /\ mapped = None
  /\ \E r \in Runtimes :
       StartOpening(r) /\ held' = [held EXCEPT ![m] = r]
  /\ pc' = [pc EXCEPT ![m] = "opening"]
  /\ UNCHANGED <<record, seen, placeholders, operations, transcript, wrapped, startup, faults,
                 crowd, began, reloadFailed>>

HandlerOpened(m) ==
  /\ pc[m] = "opening"
  /\ Opened(held[m])
  /\ pc' = [pc EXCEPT ![m] = "opened"]
  /\ UNCHANGED <<seen, held, placeholders, operations, transcript, wrapped, startup, faults,
                 history>>

\* Opening fails: before the placeholder the message is dropped, after it the
\* prompt fails.
HandlerOpenFails(m) ==
  /\ pc[m] = "opening" /\ Fault
  /\ rt' = [rt EXCEPT ![held[m]] = "gone"]
  /\ held' = [held EXCEPT ![m] = None]
  /\ pc' = [pc EXCEPT ![m] = IF m \in placeholders THEN "erring" ELSE "failed"]
  /\ UNCHANGED <<record, seen, placeholders, operations, mapped, streaming, timers,
                 transcript, wrapped, startup, history>>

\* The opened session is steered if it streams by now.
AskOpened(m) ==
  /\ pc[m] = "opened"
  /\ held' = [held EXCEPT ![m] = None]
  /\ \/ Steered(m, held[m]) /\ UNCHANGED timers
     \/ streaming[held[m]] = None /\ NotQueued(m) /\ ScheduleDispose(held[m])
  /\ UNCHANGED <<seen, operations, mapped, rt, streaming, transcript, wrapped, startup,
                 faults, history>>

\* enqueuePrompt, once the typing indicator, the rename and the card are done; the
\* rename or the card may fail.
EnqueuePrompt(m) ==
  /\ pc[m] = "patched"
  /\ seen' = [seen EXCEPT ![m] = FALSE]
  /\ \/ /\ queue' = Append(queue, m)
        /\ pc' = [pc EXCEPT ![m] = "waiting"]
        /\ UNCHANGED faults
     \/ Fault /\ pc' = [pc EXCEPT ![m] = "erring"] /\ UNCHANGED queue
  /\ UNCHANGED <<record, held, placeholders, at, opRt, requested, sessions,
                 transcript, wrapped, startup, history>>

\* The entry of the prompt is recorded, the answer is posted and the title turn
\* counted; each may fail.
PostAnswer(m) ==
  /\ pc[m] = "answering"
  /\ \/ pc' = [pc EXCEPT ![m] = "answered"] /\ UNCHANGED faults
     \/ pc' = [pc EXCEPT ![m] = "erring"] /\ Fault
  /\ UNCHANGED <<record, seen, held, placeholders, operations, sessions, transcript, wrapped,
                 startup, history>>

\* (Mutant first: the catch leaves the record alone.)
HandlerFailsSilently(m) ==
  /\ pc[m] = "erring"
  /\ pc' = [pc EXCEPT ![m] = "failed"]
  /\ UNCHANGED <<record, seen, held, placeholders, operations, sessions, transcript, wrapped,
                 startup, faults, history>>

\* The catch of runPromptWithPlaceholder, after the card has stopped.
HandlerFails(m) ==
  /\ pc[m] = "erring"
  /\ pc' = [pc EXCEPT ![m] = "failed"]
  /\ PatchThread("error", None)
  /\ UNCHANGED <<seen, held, placeholders, operations, sessions, transcript, wrapped,
                 startup, faults, history>>

-----------------------------------------------------------------------------
(* The runtime manager's chained operations.                               *)

\* /pi reload and /pi compact: chained behind whatever runs, without a look at the record.
RequestCommand(c) ==
  /\ c \notin requested
  /\ requested' = requested \cup {c}
  /\ queue' = Append(queue, c)
  /\ crowd' = crowd \cup Unbegun
  /\ UNCHANGED <<record, handlers, at, opRt, sessions, transcript, wrapped, startup, faults,
                 began, timedOut, raced, reloadFailed>>

\* enqueueOperation: an operation runs when the one before it has settled.
Running(o) == queue # <<>> /\ Head(queue) = o

\* getOrCreateRuntime in an operation: the mapped runtime, or a new session.
OpStarts(o) ==
  /\ Running(o) /\ at = "start"
  /\ \/ /\ mapped # None
        /\ at' = "fetched" /\ opRt' = mapped
        /\ ScheduleDispose(mapped)
        /\ UNCHANGED <<mapped, rt, streaming, raced, timedOut>>
     \/ /\ mapped = None
        /\ at' = "opening"
        /\ \E r \in Runtimes : StartOpening(r) /\ opRt' = r
  /\ UNCHANGED <<record, handlers, queue, requested, transcript, wrapped, startup, faults,
                 crowd, began, reloadFailed>>

OpOpened(o) ==
  /\ Running(o) /\ at = "opening"
  /\ at' = "fetched"
  /\ Opened(opRt)
  /\ UNCHANGED <<handlers, queue, opRt, requested, transcript, wrapped, startup, faults,
                 history>>

\* (Mutant first: the patch of prompt() forgets the active run.)
TurnBeginsUntracked(m) ==
  /\ Running(m) /\ at = "fetched"
  /\ at' = "turn"
  /\ PatchThread("running", None)
  /\ streaming' = [streaming EXCEPT ![opRt] = m]
  /\ open' = TRUE
  /\ began' = began \cup {m}
  /\ UNCHANGED <<handlers, queue, opRt, requested, mapped, rt, timers, answer, wrapped,
                 startup, faults, crowd, timedOut, raced, reloadFailed>>

\* prompt(): the record says running again, with the active run it still has, and
\* the session takes the prompt.  No session streams here, so the disposition to
\* queue the prompt instead is never taken (OneTurn).
TurnBegins(m) ==
  /\ Running(m) /\ at = "fetched"
  /\ at' = "turn"
  /\ PatchThread("running", activeRun)
  /\ streaming' = [streaming EXCEPT ![opRt] = m]
  /\ open' = TRUE
  /\ began' = began \cup {m}
  /\ UNCHANGED <<handlers, queue, opRt, requested, mapped, rt, timers, answer, wrapped,
                 startup, faults, crowd, timedOut, raced, reloadFailed>>

\* The turn ends: with an answer, with a provider error, or with an error that a
\* new login has cured, in which case prompt() starts over.
TurnEnds(m) ==
  /\ Running(m) /\ at = "turn"
  /\ streaming' = [streaming EXCEPT ![opRt] = None]
  /\ ScheduleDispose(opRt)
  /\ \/ /\ at' = "ok"
        /\ answer' = m /\ open' = FALSE
        /\ UNCHANGED <<opRt, faults, crowd>>
     \/ at' = "error" /\ Fault /\ UNCHANGED <<opRt, transcript, crowd>>
     \/ /\ at' = "start" /\ opRt' = None /\ Fault /\ UNCHANGED transcript
        /\ crowd' = crowd \cup {x \in {m} : InFlight # {m} \/ mapped # opRt}
  /\ timedOut' = timedOut \ {opRt}
  /\ UNCHANGED <<record, handlers, queue, requested, mapped, rt, wrapped, startup,
                 began, raced, reloadFailed>>

\* abort(): ESC stops the turn of the mapped runtime, whichever prompt it serves.
Esc ==
  /\ mapped # None /\ streaming[mapped] # None
  /\ streaming' = [streaming EXCEPT ![mapped] = None]
  /\ at' = "ok" /\ ScheduleDispose(mapped)
  /\ UNCHANGED <<record, handlers, queue, opRt, requested, mapped, rt, transcript, wrapped,
                 startup, faults, history>>

OpOver == queue' = Tail(queue) /\ at' = "start" /\ opRt' = None

\* (Mutant first: prompt() does not await its turn.)
PromptDoneEarly(m) ==
  /\ Running(m) /\ at \in {"turn", "ok"}
  /\ OpOver
  /\ PatchThread("idle", None)
  /\ pc' = [pc EXCEPT ![m] = "answering"]
  /\ UNCHANGED <<seen, held, placeholders, requested, sessions, transcript, wrapped, startup,
                 faults, history>>

\* The operation resolves: the record is idle and the handler has its answer.
PromptDone(m) ==
  /\ Running(m) /\ at = "ok"
  /\ OpOver
  /\ PatchThread("idle", None)
  /\ pc' = [pc EXCEPT ![m] = "answering"]
  /\ UNCHANGED <<seen, held, placeholders, requested, sessions, transcript, wrapped, startup,
                 faults, history>>

\* (Mutant first: the chain goes on from a rejected operation as rejected.)
PromptFailsForGood(m) ==
  /\ Running(m) /\ at = "error"
  /\ pc' = [pc EXCEPT ![m] = "erring"]
  /\ UNCHANGED <<record, seen, held, placeholders, operations, sessions, transcript, wrapped,
                 startup, faults, history>>

\* The operation rejects: opening failed, or the provider did.
PromptFails(m) ==
  /\ Running(m)
  /\ \/ /\ at = "error"
        /\ UNCHANGED <<rt, faults>>
     \/ /\ at = "opening" /\ Fault
        /\ rt' = [rt EXCEPT ![opRt] = "gone"]
  /\ OpOver
  /\ pc' = [pc EXCEPT ![m] = "erring"]
  /\ UNCHANGED <<record, seen, held, placeholders, requested, mapped, streaming, timers,
                 transcript, wrapped, startup, history>>

\* reload() and compact(): the record says running while the session works.
CommandBegins(c) ==
  /\ Running(c) /\ at = "fetched"
  /\ at' = "turn"
  /\ PatchThread("running", activeRun)
  /\ UNCHANGED <<handlers, queue, opRt, requested, sessions, transcript, wrapped, startup,
                 faults, history>>

\* ... and idle when it is done, or when compacting fails.
CommandDone(c) ==
  /\ Running(c) /\ at = "turn"
  /\ OpOver
  /\ PatchThread("idle", None)
  /\ ScheduleDispose(opRt)
  /\ UNCHANGED <<handlers, requested, mapped, rt, streaming, transcript, wrapped, startup,
                 faults, history>>

\* A reload that fails leaves the record as it is.
ReloadFails ==
  /\ Running(Reload) /\ at = "turn" /\ Fault
  /\ OpOver
  /\ ScheduleDispose(opRt)
  /\ reloadFailed' = TRUE
  /\ UNCHANGED <<record, handlers, requested, mapped, rt, streaming, transcript, wrapped,
                 startup, crowd, began, timedOut, raced>>

-----------------------------------------------------------------------------
(* Idle timers, crashes and the recovery at the next start.                *)

\* The timer of r fires: the thread's mapped runtime is disposed, r or not.  The
\* mapped runtime's own timer does not fire between a fetch and its turn, which
\* are milliseconds apart; a timer left over from another runtime may.
TimerFires(r) ==
  /\ r \in timers
  /\ r = mapped => /\ ~ (at = "fetched" /\ opRt = r)
                   /\ \A m \in Messages : ~ (pc[m] = "opened" /\ held[m] = r)
  /\ IF mapped = None
       THEN timers' = timers \ {r} /\ UNCHANGED <<mapped, rt, timedOut>>
       ELSE /\ DisposeThread
            /\ timers' = timers \ {r, mapped}
            /\ timedOut' = timedOut \cup {x \in {mapped} : x = opRt /\ at \in {"fetched", "turn"}}
  /\ UNCHANGED <<record, handlers, operations, streaming, transcript, wrapped, startup,
                 faults, crowd, began, raced, reloadFailed>>

\* The process dies and starts again: markRunningThreadsInterrupted keeps what was
\* running apart, and everything in memory is gone.
Crash ==
  /\ Fault
  /\ pc' = [m \in Messages |-> IF pc[m] \in Settled \cup {"new"} THEN pc[m] ELSE "lost"]
  /\ held' = [m \in Messages |-> None]
  /\ queue' = <<>> /\ at' = "start" /\ opRt' = None
  /\ mapped' = None /\ timers' = {}
  /\ rt' = [r \in Runtimes |-> "gone"]
  /\ streaming' = [r \in Runtimes |-> None]
  /\ status' = IF status = "running" THEN "interrupted" ELSE status
  /\ UNCHANGED activeRun
  /\ recovery' \in {"resume", "reconcile"} /\ found' = None
  /\ timedOut' = {} /\ raced' = FALSE
  /\ seen' = [m \in Messages |-> FALSE] /\ placeholders' = {}
  /\ UNCHANGED <<requested, transcript, wrapped, crowd, began, reloadFailed>>

\* The bot is ready: it lists the interrupted threads and fetches their placeholders.
RecoveryReads ==
  /\ recovery # "none" /\ found = None
  /\ IF status = "interrupted" /\ activeRun # None
       THEN found' = activeRun /\ UNCHANGED recovery
       ELSE recovery' = "none" /\ UNCHANGED found
  /\ UNCHANGED <<record, handlers, operations, sessions, transcript, wrapped, faults, history>>

RecoveryOver == recovery' = "none" /\ found' = None

\* (Mutant first: any answer in the session file will do.)
AnyAnswer == answer # None

\* getPersistedFinalAssistant: the session file ends with a finished answer.
FinalLeaf == answer # None /\ ~ open

\* The placeholder cannot be fetched: the thread is left as it is.
RecoveryFails ==
  /\ found # None /\ Fault
  /\ RecoveryOver
  /\ UNCHANGED <<record, handlers, operations, sessions, transcript, wrapped, history>>

\* The answer at the end of the session file is posted as the interrupted run's.
RecoverAnswer ==
  /\ found # None /\ FinalLeaf
  /\ RecoveryOver
  /\ PatchThread("idle", None)
  /\ pc' = [pc EXCEPT ![found] = IF @ = "lost" THEN "recovered" ELSE @]
  /\ UNCHANGED <<seen, held, placeholders, operations, sessions, transcript, wrapped, faults,
                 crowd, began, timedOut, raced, reloadFailed>>

\* autoResumeInterruptedThreads: the interrupted prompt runs again, wrapped in a
\* recovery prompt, on its placeholder.
Resume ==
  /\ found # None /\ ~ FinalLeaf /\ recovery = "resume" /\ found \notin wrapped
  /\ RecoveryOver
  /\ pc' = [pc EXCEPT ![found] = "asking"]
  /\ seen' = [seen EXCEPT ![found] = FALSE]
  /\ placeholders' = placeholders \cup {found}
  /\ wrapped' = wrapped \cup {found}
  /\ crowd' = crowd \cup Unbegun \cup {found}
  /\ UNCHANGED <<record, held, operations, sessions, transcript, faults,
                 began, timedOut, raced, reloadFailed>>

\* A run that was itself a recovery is not recovered again.
SkipRecursiveRecovery ==
  /\ found # None /\ ~ FinalLeaf /\ recovery = "resume" /\ found \in wrapped
  /\ RecoveryOver
  /\ PatchThread("interrupted", None)
  /\ UNCHANGED <<handlers, operations, sessions, transcript, wrapped, faults, history>>

\* reconcileInterruptedThreadPlaceholders: only the card says so.
ReconcilePlaceholder ==
  /\ found # None /\ ~ FinalLeaf /\ recovery = "reconcile"
  /\ RecoveryOver
  /\ UNCHANGED <<record, handlers, operations, sessions, transcript, wrapped, faults, history>>

-----------------------------------------------------------------------------
Handler(m) ==
  \/ AskVisible(m) \/ AskHidden(m) \/ AbortUntracked(m) \/ AskUnmapped(m)
  \/ HandlerOpened(m) \/ HandlerOpenFails(m) \/ AskOpened(m) \/ EnqueuePrompt(m) \/ PostAnswer(m) \/ HandlerFails(m)

PromptOp(m) ==
  \/ OpStarts(m) \/ OpOpened(m) \/ TurnBegins(m) \/ TurnEnds(m) \/ PromptDone(m) \/ PromptFails(m)

CommandOp(c) == OpStarts(c) \/ OpOpened(c) \/ CommandBegins(c) \/ CommandDone(c)

Startup ==
  \/ RecoveryReads \/ RecoveryFails \/ RecoverAnswer \/ Resume \/ SkipRecursiveRecovery
  \/ ReconcilePlaceholder

Next ==
  \/ \E m \in Messages : Arrive(m) \/ Handler(m) \/ PromptOp(m)
  \/ \E c \in Commands : RequestCommand(c) \/ CommandOp(c)
  \/ ReloadFails \/ Esc \/ Crash \/ Startup
  \/ \E r \in Runtimes : TimerFires(r)

\* Code that can run does: the handlers, the operations and the recovery.  A turn
\* ends and a timer fires; nothing makes messages, commands or faults come.
Fairness ==
  /\ \A m \in Messages : WF_vars(Handler(m)) /\ WF_vars(PromptOp(m))
  /\ \A c \in Commands : WF_vars(CommandOp(c))
  /\ WF_vars(Startup)
  /\ \A r \in Runtimes : WF_vars(TimerFires(r))

Spec == Init /\ [][Next]_vars /\ Fairness

-----------------------------------------------------------------------------
\* Operations are chained: the session file never has two turns writing to it,
\* however many runtimes were opened over it and however late the timers fire.
OneTurn == Cardinality({r \in Runtimes : streaming[r] # None}) <= 1

\* A prompt that had the thread to itself until its turn began is never aborted by
\* a later message: that message finds the run in the record and steers it.  A
\* handler that still posts an earlier answer is company: should that fail, its
\* catch writes over the record.  (A turn that starts over begins again: a prompt
\* that has company by then, or whose runtime was disposed, does not have the
\* thread to itself.)
LoneTurnIsSafe ==
  [][\A m \in Messages : AbortUntracked(m) => streaming[mapped] \in crowd]_vars

\* What README.md 132 says, that messages become steering input when a run is
\* active, does not hold of every message: one whose record shows no run aborts it.
ActiveRunIsSteered ==
  [][\A m \in Messages, r \in Runtimes :
       Handler(m) /\ streaming[r] # None => streaming'[r] = streaming[r]]_vars

\* A turn under way can be steered and stopped with ESC: its runtime stays mapped,
\* unless an idle timer fired or two sessions were being opened at once.
TurnIsReachable ==
  \A r \in Runtimes : streaming[r] # None => mapped = r \/ r \in timedOut \/ raced

\* A runtime that the map has let go of is disposed, unless two sessions were being
\* opened at once and the second took the place of the first.
NoOrphanRuntime == \A r \in Runtimes : rt[r] = "live" => mapped = r \/ raced

\* Nothing under way, no handler and no operation: the record does not say running,
\* unless a reload failed.
Quiet == InFlight = {} /\ queue = <<>>
QuietThreadIsIdle == Quiet /\ status = "running" => reloadFailed

\* What the recovery posts for an interrupted prompt whose turn had begun is the
\* answer to that prompt, unless another prompt was under way.
RecoveredAnswerIsItsOwn ==
  [][RecoverAnswer => answer = found \/ found \notin began \/ found \in crowd]_vars

\* Every prompt comes to an end: it steers a turn, is answered, fails, or is lost
\* or recovered in a restart.
PromptsSettle == \A m \in Messages : (pc[m] # "new") ~> (pc[m] \in Settled)
=============================================================================
