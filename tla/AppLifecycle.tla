---------------------------- MODULE AppLifecycle ----------------------------
(***************************************************************************)
(* The daemon process: app-lifecycle-machine.ts, the Discord bot it starts *)
(* and stops (startBot of discord-bot.ts) and the worker lanes the bot     *)
(* starts (WorkerLanes).                                                   *)
(*                                                                         *)
(* A promise that is under way when a signal arrives is not cancelled: the *)
(* machine drops its result, the promise goes on.  So the module keeps     *)
(* what is open in the process (open, parts) apart from what the machine   *)
(* remembers and will close (known, holds).                                *)
(***************************************************************************)
EXTENDS WorkerLanes, Sequences, FiniteSets

CONSTANT MaxFaults   \* bound on steps that fail

ASSUME AppLifecycleAssumption == MaxFaults \in Nat

VARIABLES
  state,     \* the machine's state
  roles,     \* input.roles
  enabled,   \* config.runControl.enabled
  known,     \* context: the resources the machine remembers
  open,      \* the resources open in this process
  late,      \* the starting state whose promise a signal left under way
  cut,       \* ghost: the state in which the signal arrived
  holds,     \* holds[s]: the resources in the context that the shutdown
             \* begun in state s was given and has not closed yet
  at,        \* at[s]: the position of that shutdown in CloseOrder, 0 before
  closeFailed, \* the shutdowns that failed to close something
  login,     \* where the ClientReady handler is
  parts,     \* what the handler has started and not stopped
  botStop,   \* where the first call of bot.stop() is
  unheard,   \* a signal made that call: nobody catches its rejection
  broken,    \* ghost: resources and parts whose closing threw, and resources
             \* opened by a step of the startup that then threw
  faults     \* faults so far

lifeVars == <<state, roles, enabled, known, late, cut>>
shutVars == <<holds, at, closeFailed>>
botVars == <<login, parts, botStop, unheard>>
vars == <<lifeVars, open, shutVars, botVars, broken, faults, laneVars>>

Roles == {"bot", "worker", "reconcile"}
Resources == {"reconcile", "bot", "pi", "store", "registry"}
Parts == {"subagents", "links", "worker"}

Starting == {"warmingRunQueue", "warmingRegistry", "resolvingDiscordSecrets",
             "warmingPiSession", "connectingDiscord"}
Shutdowns == {"draining", "failing"}
Ended == {"stopped", "failed"}

NeedsDiscord == roles \cap {"bot", "worker"} # {}

TypeOK ==
  /\ LanesTypeOK
  /\ state \in Starting \cup Shutdowns \cup Ended \cup {"running", "exited"}
  /\ roles \in SUBSET Roles /\ enabled \in BOOLEAN
  /\ known \subseteq Resources /\ open \subseteq Resources
  /\ late \in Starting \cup {"none"}
  /\ cut \in Starting \cup {"none", "running", "failing"}
  /\ holds \in [Shutdowns -> SUBSET Resources]
  /\ at \in [Shutdowns -> 0..6]
  /\ closeFailed \subseteq Shutdowns
  /\ login \in {"off", "loggingIn", "registering", "linking", "recovering", "ready", "failed"}
  /\ parts \subseteq Parts
  /\ botStop \in {"no", "links", "worker", "done", "threw"} /\ unheard \in BOOLEAN
  /\ broken \subseteq Resources \cup Parts
  /\ faults \in 0..MaxFaults

\* index.ts: without run control the process has the bot role.
Init ==
  /\ enabled \in BOOLEAN
  /\ roles \in IF enabled THEN SUBSET Roles \ {{}} ELSE {{"bot"}}
  /\ state = "warmingRunQueue" /\ known = {} /\ open = {}
  /\ late = "none" /\ cut = "none"
  /\ holds = [s \in Shutdowns |-> {}] /\ at = [s \in Shutdowns |-> 0]
  /\ closeFailed = {}
  /\ login = "off" /\ parts = {} /\ botStop = "no" /\ unheard = FALSE
  /\ broken = {} /\ faults = 0
  /\ LanesInit

Fault == faults < MaxFaults /\ faults' = faults + 1

-----------------------------------------------------------------------------
\* Startup.

\* The state after each, and the resource its promise opens.  Starting the
\* reconcile loop awaits nothing: it happens within the registry's step.
Opens(s) ==
  CASE s = "warmingRunQueue" -> IF enabled THEN {"store"} ELSE {}
    [] s = "warmingRegistry" -> {"registry"}
    [] s = "warmingPiSession" -> {"pi"}
    [] OTHER -> {}

NextState(s) ==
  CASE s = "warmingRunQueue" -> "warmingRegistry"
    [] s = "warmingRegistry" -> IF NeedsDiscord THEN "resolvingDiscordSecrets" ELSE "running"
    [] s = "resolvingDiscordSecrets" -> "warmingPiSession"
    [] s = "warmingPiSession" -> "connectingDiscord"

ReconcileLoop(s) ==
  IF s = "warmingRegistry" /\ enabled /\ "reconcile" \in roles THEN {"reconcile"} ELSE {}

\* The promise of the current state resolves and the machine remembers it.
Warm ==
  /\ state \in Starting \ {"connectingDiscord"}
  /\ LET opened == Opens(state) \cup ReconcileLoop(state) IN
       open' = open \cup opened /\ known' = known \cup opened
  /\ state' = NextState(state)
  /\ login' = IF state = "warmingPiSession" THEN "loggingIn" ELSE login
  /\ UNCHANGED <<roles, enabled, late, cut, shutVars, parts, botStop, unheard, broken, faults,
                 laneVars>>

BeginShutdown(s, context) ==
  /\ holds' = [holds EXCEPT ![s] = context]
  /\ at' = [at EXCEPT ![s] = 1]

\* What the step of s may have opened when it fails: without run control the
\* registry is open when markRunningThreadsInterrupted throws.
OpenedByThen(s) == IF s = "warmingRegistry" /\ ~ enabled THEN {"registry"} ELSE {}

\* The promise rejects; what it has opened is not in the context.
WarmFails ==
  /\ state \in Starting \ {"connectingDiscord"}
  /\ Fault
  /\ state' = "failing"
  /\ BeginShutdown("failing", known)
  /\ \E opened \in {{}, OpenedByThen(state)} :
       open' = open \cup opened /\ broken' = broken \cup opened
  /\ UNCHANGED <<roles, enabled, known, late, cut, closeFailed, botVars, laneVars>>

\* A promise that lost its listener: what it opens stays open.
LateWarm ==
  /\ late \in Starting \ {"connectingDiscord"}
  /\ late' = "none"
  /\ \/ open' = open \cup Opens(late) /\ UNCHANGED faults
     \/ Fault /\ open' \in {open, open \cup OpenedByThen(late)}
  /\ UNCHANGED <<state, roles, enabled, known, cut, shutVars, botVars, broken, laneVars>>

-----------------------------------------------------------------------------
\* The bot: the ClientReady handler, one action per await.

ClientUp == botStop \notin {"done", "threw"}

\* What follows registerSlashCommands up to the next await: the lanes, the
\* subagent bridge.  Without the bot role the handler is done here.
StartParts ==
  LET worker == IF enabled /\ "worker" \in roles THEN {"worker"} ELSE {}
      bridges == IF "bot" \in roles THEN {"subagents"} ELSE {} IN
  /\ parts' = parts \cup worker \cup bridges
  /\ IF worker # {} THEN StartLanes ELSE UNCHANGED laneVars

\* resolveReady: the machine runs unless the bot was told to stop before.
BecomeReady ==
  /\ login' = "ready"
  /\ IF state = "connectingDiscord" /\ botStop = "no"
       THEN state' = "running" /\ known' = known \cup {"bot"}
       ELSE UNCHANGED <<state, known>>
  /\ UNCHANGED <<roles, enabled, late, cut>>

LoggedIn ==
  /\ login = "loggingIn" /\ ClientUp
  /\ open' = open \cup {"bot"}
  /\ IF "bot" \in roles
       THEN login' = "registering" /\ UNCHANGED <<lifeVars, parts, laneVars>>
       ELSE StartParts /\ BecomeReady
  /\ UNCHANGED <<shutVars, botStop, unheard, broken, faults>>

Registered ==
  /\ login = "registering"
  /\ StartParts
  /\ login' = "linking"
  /\ UNCHANGED <<lifeVars, open, shutVars, botStop, unheard, broken, faults>>

\* The link bridge connects, or its failure is caught and only warned of.
Linked ==
  /\ login = "linking"
  /\ \/ parts' = parts \cup {"links"} /\ UNCHANGED faults
     \/ Fault /\ UNCHANGED parts
  /\ login' = "recovering"
  /\ UNCHANGED <<lifeVars, open, shutVars, botStop, unheard, broken, laneVars>>

Recovered ==
  /\ login = "recovering"
  /\ BecomeReady
  /\ UNCHANGED <<open, shutVars, parts, botStop, unheard, broken, faults, laneVars>>

\* The login or an await of the handler fails: rejectReady.
LoginFails ==
  /\ login \in {"loggingIn", "registering", "recovering"}
  /\ Fault
  /\ login' = "failed"
  /\ UNCHANGED <<lifeVars, open, shutVars, parts, botStop, unheard, broken, laneVars>>

\* await runControlWorker?.stop(), client.destroy(): nothing is waited for
\* when no worker was started.
StopWorker(left) ==
  IF "worker" \in left
    THEN botStop' = "worker" /\ StopLanes /\ UNCHANGED open
    ELSE botStop' = "done" /\ open' = open \ {"bot"} /\ UNCHANGED laneVars

\* stop(): only the first call does anything.  It awaits the link bridge.
CallStop ==
  IF botStop # "no"
    THEN UNCHANGED <<botStop, parts, open, laneVars>>
    ELSE /\ parts' = parts \ {"subagents"}
         /\ IF "links" \in parts
              THEN botStop' = "links" /\ UNCHANGED <<open, laneVars>>
              ELSE StopWorker(parts)

LinksStopped ==
  /\ botStop = "links"
  /\ parts' = parts \ {"links"}
  /\ StopWorker(parts)
  /\ UNCHANGED <<lifeVars, shutVars, login, unheard, broken, faults>>

\* Closing the Inngest connection throws: stop() goes no further, and no
\* later call of it does anything.  Where a signal called it first nobody
\* catches the rejection and the process exits (index.ts).
LinksStopThrows ==
  /\ botStop = "links"
  /\ Fault
  /\ IF ~ unheard
       THEN /\ botStop' = "threw" /\ broken' = broken \cup {"links"}
            /\ UNCHANGED <<lifeVars, open, login, parts, at, laneVars>>
       ELSE /\ state' = "exited" /\ login' = "failed" /\ botStop' = "done"
            /\ open' = {} /\ parts' = {} /\ at' = [s \in Shutdowns |-> 6] /\ LanesGone
            /\ UNCHANGED <<roles, enabled, known, late, cut, broken>>
  /\ UNCHANGED <<holds, closeFailed, unheard>>

\* Every lane is done: the client is destroyed.
WorkerStopped ==
  /\ botStop = "worker" /\ LanesDone
  /\ parts' = parts \ {"worker"} /\ botStop' = "done" /\ open' = open \ {"bot"}
  /\ UNCHANGED <<lifeVars, shutVars, login, unheard, broken, faults, laneVars>>

\* await bot.ready threw: the actor stops the bot, then fails.
ConnectFails ==
  /\ state = "connectingDiscord" /\ login = "failed" /\ botStop = "no"
  /\ CallStop
  /\ UNCHANGED <<lifeVars, shutVars, login, unheard, broken, faults>>

\* (Mutant first: the failed bot is not stopped.)
ConnectFailedAtOnce ==
  /\ state = "connectingDiscord" /\ login = "failed"
  /\ state' = "failing"
  /\ BeginShutdown("failing", known)
  /\ UNCHANGED <<roles, enabled, known, late, cut, open, closeFailed, botVars, broken, faults, laneVars>>

ConnectFailed ==
  /\ state = "connectingDiscord" /\ botStop \in {"done", "threw"}
  /\ state' = "failing"
  /\ BeginShutdown("failing", known)
  /\ UNCHANGED <<roles, enabled, known, late, cut, open, closeFailed, botVars, broken, faults, laneVars>>

-----------------------------------------------------------------------------
\* Signals and shutdown.

\* SIGINT or SIGTERM; a second one while draining is only logged.  A failing
\* machine is sent to draining too, and begins a second shutdown with what
\* the first has left in the context.
Signal ==
  /\ state \notin Ended \cup {"draining", "exited"}
  /\ state' = "draining" /\ cut' = state
  /\ late' = IF state \in Starting \ {"connectingDiscord"} THEN state ELSE "none"
  /\ BeginShutdown("draining", IF state = "failing" THEN holds["failing"] ELSE known)
  /\ IF state = "connectingDiscord" THEN CallStop ELSE UNCHANGED <<botStop, parts, open, laneVars>>
  /\ unheard' = (state = "connectingDiscord" /\ botStop = "no")
  /\ UNCHANGED <<roles, enabled, known, closeFailed, login, broken, faults>>

\* (Mutant first: the registry is closed before the bot is stopped.)
CloseOrderRegistryFirst == <<"reconcile", "registry", "bot", "pi", "store">>

CloseOrder == <<"reconcile", "bot", "pi", "store", "registry">>

Closing(s, r) == at[s] \in 1..5 /\ CloseOrder[at[s]] = r

\* (Mutant first: the shutdown runs past its last resource.)
ClosedTwice(s, r) ==
  /\ holds' = [holds EXCEPT ![s] = @ \ {r}]
  /\ at' = [at EXCEPT ![s] = IF r = "registry" THEN @ + 2 ELSE @ + 1]

\* closeAppResources: the next resource is closed, or is not in the context.
Closed(s, r) ==
  /\ holds' = [holds EXCEPT ![s] = @ \ {r}]
  /\ at' = [at EXCEPT ![s] = @ + 1]

CloseNext(s, r) ==
  /\ Closing(s, r) /\ (r = "bot" => "bot" \notin holds[s])
  /\ Closed(s, r)
  /\ open' = IF r \in holds[s] THEN open \ {r} ELSE open
  /\ UNCHANGED <<lifeVars, closeFailed, botVars, broken, faults, laneVars>>

\* A close that throws is remembered, and the rest is closed all the same.
CloseFails(s, r) ==
  /\ Closing(s, r) /\ r \in holds[s] \ {"bot", "reconcile"}
  /\ Fault
  /\ Closed(s, r)
  /\ closeFailed' = closeFailed \cup {s} /\ broken' = broken \cup {r}
  /\ UNCHANGED <<lifeVars, open, botVars, laneVars>>

CloseBotBegins(s) ==
  /\ Closing(s, "bot") /\ "bot" \in holds[s] /\ botStop = "no"
  /\ CallStop
  /\ UNCHANGED <<lifeVars, shutVars, login, unheard, broken, faults>>

CloseBotEnds(s) ==
  /\ Closing(s, "bot") /\ "bot" \in holds[s] /\ botStop \in {"done", "threw"}
  /\ Closed(s, "bot")
  /\ closeFailed' = IF botStop = "threw" THEN closeFailed \cup {s} ELSE closeFailed
  /\ UNCHANGED <<lifeVars, open, botVars, broken, faults, laneVars>>

\* The shutdown of the current state is over; one that a signal replaced
\* goes on unheard.
ShutdownOver(s) ==
  /\ at[s] = 6 /\ state = s
  /\ state' = IF s = "draining" /\ s \notin closeFailed THEN "stopped" ELSE "failed"
  /\ UNCHANGED <<roles, enabled, known, late, cut, open, shutVars, botVars, broken, faults, laneVars>>

-----------------------------------------------------------------------------
\* The lanes.

LaneWorks(l) ==
  /\ LaneStep(l, "store" \in open)
  /\ UNCHANGED <<lifeVars, open, shutVars, botVars, broken, faults>>

LaneFails(l) ==
  /\ LaneFault(l) /\ Fault
  /\ UNCHANGED <<lifeVars, open, shutVars, botVars, broken>>

Startup == Warm \/ LateWarm \/ LoggedIn \/ Registered \/ Linked \/ Recovered

BotStopping == ConnectFails \/ ConnectFailed \/ LinksStopped \/ WorkerStopped

Shutdown(s) ==
  \/ \E r \in Resources : CloseNext(s, r)
  \/ CloseBotBegins(s) \/ CloseBotEnds(s) \/ ShutdownOver(s)

Next ==
  \/ Startup \/ BotStopping
  \/ \E s \in Shutdowns : Shutdown(s)
  \/ \E l \in Lanes : LaneWorks(l)
  \/ Signal
  \/ WarmFails \/ LoginFails \/ LinksStopThrows
  \/ \E s \in Shutdowns, r \in Resources : CloseFails(s, r)
  \/ \E l \in Lanes : LaneFails(l)

\* Promises settle and timers fire; nothing is assumed of signals, faults or
\* of when a job comes.  A job that is handled ends.
Fairness ==
  /\ WF_vars(Startup) /\ WF_vars(BotStopping)
  /\ \A s \in Shutdowns : WF_vars(Shutdown(s))
  /\ \A l \in Lanes : WF_vars(LaneWorks(l))

Spec == Init /\ [][Next]_vars /\ Fairness

-----------------------------------------------------------------------------
\* Properties.

\* Nothing of the app's own goes on: neither a promise of the startup or of
\* the bot nor a shutdown.
Quiet ==
  /\ state \in Ended /\ late = "none"
  /\ login \in {"off", "ready", "failed"} \/ (login = "loggingIn" /\ ~ClientUp)
  /\ botStop \notin {"links", "worker"}
  /\ \A s \in Shutdowns : at[s] \in {0, 6}

\* What a signal in the midst of startup leaves behind: the one resource
\* that was being started, or what the bot's handler starts after stop()
\* looked for it.
CutOff == IF cut = "connectingDiscord" THEN Parts ELSE IF cut \in Starting THEN Opens(cut) ELSE {}

\* bot.stop() that cannot close the link bridge stops neither the lanes nor
\* the client (discord-bot.ts 236-247).
Abandoned == IF "links" \in broken THEN {"bot", "worker"} ELSE {}

\* When the process is through with its shutdown, everything it opened is
\* closed, whatever failed and however many signals came.  All that is left is
\* what a signal cut off, what could not be closed, and the registry when its
\* own step threw after opening it: the context never had it
\* (closeAppResources, warmRegistry, startDiscordBot and bot.stop).
NothingLeftOpen == Quiet => open \cup parts \subseteq CutOff \cup broken \cup Abandoned

\* While a lane handles a job, the store it settles the run in, the Pi
\* sessions and the registry stay open: shutdown waits for the lanes first,
\* except when the signal came before the bot was ready (bot.stop() is then
\* not awaited, app-lifecycle-machine.ts 175) or the bot could not be stopped.
JobsKeepTheirServices ==
  (\E l \in Lanes : lane[l] = "handlingJob")
    => \/ {"store", "pi", "registry"} \subseteq open
       \/ cut = "connectingDiscord" \/ "links" \in broken

\* A lane that was told to stop takes at most the one job that its blocked
\* read was about to deliver: the drain waits for one turn per lane.
OneJobOvertime == \A l \in Lanes : overtime[l] <= 1

\* A signal ends the process: no lane, retry, second signal or failed close
\* holds up the shutdown for ever, as long as every turn ends.
SignalEndsTheApp == (state = "draining") ~> (state \in Ended \cup {"exited"})
=============================================================================
