-------------------------- MODULE AppLifecycleProofs --------------------------
(***************************************************************************)
(* What holds of the daemon's life for any number of lanes and faults:     *)
(* the types, one job after STOP, the services under a lane that works,    *)
(* and nothing left open when the shutdown is through.                     *)
(***************************************************************************)
EXTENDS AppLifecycle, TLAPS

-----------------------------------------------------------------------------
(***************************************************************************)
(* The invariant, in parts.                                                *)
(***************************************************************************)

\* A lane that took a job after STOP is done after it; a lane that was told to
\* stop never starts again in this process.
Overtime ==
  \A l \in Lanes :
    /\ overtime[l] <= 1
    /\ overtime[l] # 0 => lane[l] \in {"handlingJob", "done", "off"}
    /\ overtime[l] # 0 => l \in stopRequested
    /\ lane[l] = "off" /\ l \in stopRequested => state = "exited"

\* Only a process that is told to stop, or that fails, shuts anything down.
Shutting ==
  /\ state \in Starting \cup {"running"} => \A s \in Shutdowns : at[s] = 0
  /\ state \in Starting \cup {"running", "failing"} => cut = "none"
  /\ cut = "none" => state \in Starting \cup {"running", "failing", "failed"}
  /\ late # "none" => late = cut
  /\ state \in Shutdowns => at[state] # 0
  /\ state \in Ended => \E s \in Shutdowns : at[s] # 0
  /\ at["draining"] # 0 <=> cut # "none"

\* Until startup reaches Discord the bot has done nothing; the machine knows the
\* bot once the bot is ready.
Connecting ==
  /\ state \in Starting => (login = "off" <=> state # "connectingDiscord")
  /\ login = "off" => /\ parts = {} /\ botStop = "no"
                      /\ "bot" \notin open \cup known
                      /\ \A l \in Lanes : lane[l] = "off"
  /\ login \in {"loggingIn", "registering"} =>
       parts = {} /\ \A l \in Lanes : lane[l] = "off"
  /\ state = "connectingDiscord" => login # "ready" /\ "bot" \notin known
  /\ state = "running" /\ login # "off" => login = "ready" /\ "bot" \in known /\ botStop = "no"
  /\ "bot" \in known => login = "ready" /\ cut # "connectingDiscord"
  /\ state = "exited" => login = "failed" /\ parts = {} /\ open = {} /\ cut = "connectingDiscord"

\* The bot is stopped when its handler is over, unless a signal stops it before.
Stopping ==
  /\ botStop # "no" => cut = "connectingDiscord" \/ login \in {"failed", "ready"}
  /\ botStop # "no" /\ state = "connectingDiscord" => login = "failed"
  /\ cut = "connectingDiscord" => botStop # "no"
  /\ botStop # "no" => cut = "connectingDiscord" \/ "subagents" \notin parts
  /\ botStop \in {"worker", "done"} => cut = "connectingDiscord" \/ "links" \notin parts
  /\ botStop = "done" => /\ cut = "connectingDiscord" \/ parts = {}
                         /\ "bot" \notin open
  /\ botStop = "threw" => "links" \in broken
  /\ unheard => cut = "connectingDiscord"

\* Lanes work for a worker that was started and not stopped.
Working ==
  /\ "worker" \notin parts => LanesDone
  /\ \A l \in Lanes : lane[l] # "off" => enabled

\* The bot is through: its handler never ran, or stop() has ended, or a signal
\* came before it was ready.
BotThrough == login = "off" \/ botStop \in {"done", "threw"} \/ cut = "connectingDiscord"

\* A shutdown was given the bot unless the bot was through, and gets past the bot
\* when it is.
BotFirst ==
  \A s \in Shutdowns :
    /\ holds[s] \subseteq known
    /\ at[s] # 0 => BotThrough \/ "bot" \in holds[s]
    /\ at[s] > 2 => BotThrough

\* A shutdown that has not begun holds nothing, and one that has does not hold what
\* it has passed.
Passed ==
  \A s \in Shutdowns :
    \/ state = "exited"
    \/ /\ at[s] = 0 => holds[s] = {}
       /\ at[s] > 1 => "reconcile" \notin holds[s]
       /\ at[s] > 2 => "bot" \notin holds[s]
       /\ at[s] > 3 => "pi" \notin holds[s]
       /\ at[s] > 4 => "store" \notin holds[s]
       /\ at[s] > 5 => "registry" \notin holds[s]

\* What startup has opened.
Warmed ==
  /\ state \in Starting \ {"warmingRunQueue"} /\ enabled => "store" \in open
  /\ state \in {"resolvingDiscordSecrets", "warmingPiSession", "connectingDiscord"} =>
       "registry" \in open
  /\ state = "connectingDiscord" => "pi" \in open

\* Once the bot was started, its services are open until a shutdown is past the bot.
Serving ==
  login # "off" /\ state # "exited" =>
    \/ /\ {"pi", "registry"} \subseteq open
       /\ enabled => "store" \in open
    \/ \E s \in Shutdowns : at[s] > 2

\* What is open is known, then in the hands of a shutdown, or it was cut off or
\* could not be closed.
Tracked ==
  \A r \in open \ {"bot"} :
    \/ r \in known /\ \A s \in Shutdowns : at[s] = 0
    \/ \E s \in Shutdowns : r \in holds[s]
    \/ cut \in Starting \ {"connectingDiscord"} /\ r \in Opens(cut)
    \/ r \in broken

AppInv ==
  /\ TypeOK /\ Overtime /\ Shutting /\ Connecting /\ Stopping /\ Working
  /\ BotFirst /\ Passed /\ Warmed /\ Serving /\ Tracked

-----------------------------------------------------------------------------
(***************************************************************************)
(* Every step keeps the invariant, part by part.                           *)
(***************************************************************************)

\* TypeOK in parts.
LifeOK ==
  /\ state \in Starting \cup Shutdowns \cup Ended \cup {"running", "exited"}
  /\ roles \in SUBSET Roles /\ enabled \in BOOLEAN
  /\ known \subseteq Resources
  /\ late \in Starting \cup {"none"}
  /\ cut \in Starting \cup {"none", "running", "failing"}

ProcessOK ==
  /\ open \subseteq Resources
  /\ broken \subseteq Resources \cup Parts
  /\ faults \in 0..MaxFaults

ShutOK ==
  /\ holds \in [Shutdowns -> SUBSET Resources]
  /\ at \in [Shutdowns -> 0..6]
  /\ closeFailed \subseteq Shutdowns

BotOK ==
  /\ login \in {"off", "loggingIn", "registering", "linking", "recovering", "ready", "failed"}
  /\ parts \subseteq Parts
  /\ botStop \in {"no", "links", "worker", "done", "threw"} /\ unheard \in BOOLEAN

\* The parts are TypeOK, before a step and after it.
LEMMA TypeParts ==
  /\ TypeOK <=> LifeOK /\ ProcessOK /\ ShutOK /\ BotOK /\ LanesTypeOK
  /\ TypeOK' <=> LifeOK' /\ ProcessOK' /\ ShutOK' /\ BotOK' /\ LanesTypeOK'
  BY DEF TypeOK, LifeOK, ProcessOK, ShutOK, BotOK

\* Every step keeps the types.
LEMMA TypeStep == AppInv /\ [Next]_vars => TypeOK'
<1> SUFFICES ASSUME AppInv, [Next]_vars PROVE TypeOK'
  OBVIOUS
<1> USE AppLifecycleAssumption DEF AppInv, TypeOK, LanesTypeOK, Connecting, LaneState, Roles, Resources, Parts, NeedsDiscord, Starting, Shutdowns, Ended, lifeVars, shutVars, botVars, laneVars
<1>1. ASSUME Warm PROVE TypeOK'
  BY <1>1 DEF Warm, NextState, Opens, ReconcileLoop
<1>2. ASSUME LateWarm PROVE TypeOK'
  BY <1>2 DEF LateWarm, Opens, OpenedByThen, Fault
<1>3. ASSUME LoggedIn PROVE TypeOK'
  <2>1. LifeOK'
    BY <1>3 DEF LoggedIn, LifeOK, ClientUp, StartParts, StartLanes, BecomeReady
  <2>2. ProcessOK'
    BY <1>3 DEF LoggedIn, ProcessOK, ClientUp, StartParts, StartLanes, BecomeReady
  <2>3. ShutOK'
    BY <1>3 DEF LoggedIn, ShutOK, ClientUp, StartParts, StartLanes, BecomeReady
  <2>4. BotOK'
    BY <1>3 DEF LoggedIn, BotOK, ClientUp, StartParts, StartLanes, BecomeReady
  <2>5. LanesTypeOK'
    BY <1>3 DEF LoggedIn, LanesTypeOK, ClientUp, StartParts, StartLanes, BecomeReady
  <2> QED
    BY <2>1, <2>2, <2>3, <2>4, <2>5, TypeParts
<1>4. ASSUME Registered PROVE TypeOK'
  BY <1>4 DEF Registered, StartParts, StartLanes
<1>5. ASSUME Linked PROVE TypeOK'
  <2>1. LifeOK'
    BY <1>5 DEF Linked, LifeOK, Fault
  <2>2. ProcessOK'
    BY <1>5 DEF Linked, ProcessOK, Fault
  <2>3. ShutOK'
    BY <1>5 DEF Linked, ShutOK, Fault
  <2>4. BotOK'
    BY <1>5 DEF Linked, BotOK, Fault
  <2>5. LanesTypeOK'
    BY <1>5 DEF Linked, LanesTypeOK, Fault
  <2> QED
    BY <2>1, <2>2, <2>3, <2>4, <2>5, TypeParts
<1>6. ASSUME Recovered PROVE TypeOK'
  <2>1. LifeOK'
    BY <1>6 DEF Recovered, LifeOK, BecomeReady
  <2>2. ProcessOK'
    BY <1>6 DEF Recovered, ProcessOK, BecomeReady
  <2>3. ShutOK'
    BY <1>6 DEF Recovered, ShutOK, BecomeReady
  <2>4. BotOK'
    BY <1>6 DEF Recovered, BotOK, BecomeReady
  <2>5. LanesTypeOK'
    BY <1>6 DEF Recovered, LanesTypeOK, BecomeReady
  <2> QED
    BY <2>1, <2>2, <2>3, <2>4, <2>5, TypeParts
<1>7. ASSUME ConnectFails PROVE TypeOK'
  BY <1>7 DEF ConnectFails, CallStop, StopWorker, StopLanes
<1>8. ASSUME ConnectFailed PROVE TypeOK'
  BY <1>8 DEF ConnectFailed, BeginShutdown
<1>9. ASSUME LinksStopped PROVE TypeOK'
  <2>1. LifeOK'
    BY <1>9 DEF LinksStopped, LifeOK, StopWorker, StopLanes
  <2>2. ProcessOK'
    BY <1>9 DEF LinksStopped, ProcessOK, StopWorker, StopLanes
  <2>3. ShutOK'
    BY <1>9 DEF LinksStopped, ShutOK, StopWorker, StopLanes
  <2>4. BotOK'
    BY <1>9 DEF LinksStopped, BotOK, StopWorker, StopLanes
  <2>5. LanesTypeOK'
    BY <1>9 DEF LinksStopped, LanesTypeOK, StopWorker, StopLanes
  <2> QED
    BY <2>1, <2>2, <2>3, <2>4, <2>5, TypeParts
<1>10. ASSUME WorkerStopped PROVE TypeOK'
  BY <1>10 DEF WorkerStopped, LanesDone
<1>11. ASSUME NEW s \in Shutdowns, CloseBotBegins(s) PROVE TypeOK'
  <2>1. LifeOK'
    BY <1>11 DEF CloseBotBegins, LifeOK, Closing, CloseOrder, CallStop, StopWorker, StopLanes
  <2>2. ProcessOK'
    BY <1>11 DEF CloseBotBegins, ProcessOK, Closing, CloseOrder, CallStop, StopWorker, StopLanes
  <2>3. ShutOK'
    BY <1>11 DEF CloseBotBegins, ShutOK, Closing, CloseOrder, CallStop, StopWorker, StopLanes
  <2>4. BotOK'
    BY <1>11 DEF CloseBotBegins, BotOK, Closing, CloseOrder, CallStop, StopWorker, StopLanes
  <2>5. LanesTypeOK'
    BY <1>11 DEF CloseBotBegins, LanesTypeOK, Closing, CloseOrder, CallStop, StopWorker, StopLanes
  <2> QED
    BY <2>1, <2>2, <2>3, <2>4, <2>5, TypeParts
<1>12. ASSUME NEW s \in Shutdowns, CloseBotEnds(s) PROVE TypeOK'
  BY <1>12 DEF CloseBotEnds, Closing, CloseOrder, Closed
<1>13. ASSUME NEW s \in Shutdowns, ShutdownOver(s) PROVE TypeOK'
  BY <1>13 DEF ShutdownOver
<1>14. ASSUME NEW s \in Shutdowns, NEW r \in Resources, CloseNext(s, r) PROVE TypeOK'
  BY <1>14 DEF CloseNext, Closing, CloseOrder, Closed
<1>15. ASSUME NEW s \in Shutdowns, NEW r \in Resources, CloseFails(s, r) PROVE TypeOK'
  BY <1>15 DEF CloseFails, Closing, CloseOrder, Closed, Fault
<1>16. ASSUME NEW l \in Lanes, LaneWorks(l) PROVE TypeOK'
  BY <1>16 DEF LaneWorks, LaneStep, Ensured, DequeueJob, DequeueNothing, EnsureFails, DequeueFails, RetryDelayOver, CycleOver, Enter
<1>17. ASSUME NEW l \in Lanes, LaneFails(l) PROVE TypeOK'
  BY <1>17 DEF LaneFails, LaneFault, EnsureFails, DequeueFails, Enter, Fault
<1>18. ASSUME Signal PROVE TypeOK'
  <2>1. LifeOK'
    BY <1>18 DEF Signal, LifeOK, BeginShutdown, CallStop, StopWorker, StopLanes
  <2>2. ProcessOK'
    BY <1>18 DEF Signal, ProcessOK, BeginShutdown, CallStop, StopWorker, StopLanes
  <2>3. ShutOK'
    BY <1>18 DEF Signal, ShutOK, BeginShutdown, CallStop, StopWorker, StopLanes
  <2>4. BotOK'
    BY <1>18 DEF Signal, BotOK, BeginShutdown, CallStop, StopWorker, StopLanes
  <2>5. LanesTypeOK'
    BY <1>18 DEF Signal, LanesTypeOK, BeginShutdown, CallStop, StopWorker, StopLanes
  <2> QED
    BY <2>1, <2>2, <2>3, <2>4, <2>5, TypeParts
<1>19. ASSUME WarmFails PROVE TypeOK'
  <2>1. LifeOK'
    BY <1>19 DEF WarmFails, LifeOK, Fault
  <2>2. ProcessOK'
    <3>1. faults' \in 0..MaxFaults
      BY <1>19 DEF WarmFails, Fault
    <3>2. \A opened \in {{}, OpenedByThen(state)} : opened \subseteq Resources
      BY DEF OpenedByThen, Resources
    <3>3. open' \subseteq Resources /\ broken' \subseteq Resources \cup Parts
      BY <1>19, <3>2 DEF WarmFails
    <3> QED
      BY <3>1, <3>3 DEF ProcessOK
  <2>3. ShutOK'
    BY <1>19 DEF WarmFails, BeginShutdown, ShutOK
  <2>4. BotOK' /\ LanesTypeOK'
    BY <1>19 DEF WarmFails, BotOK, LanesTypeOK
  <2> QED
    BY <2>1, <2>2, <2>3, <2>4, TypeParts
<1>20. ASSUME LoginFails PROVE TypeOK'
  BY <1>20 DEF LoginFails, Fault
<1>21. ASSUME LinksStopThrows PROVE TypeOK'
  <2>1. LifeOK'
    BY <1>21 DEF LinksStopThrows, LifeOK, Fault, LanesGone
  <2>2. ProcessOK'
    <3>1. faults' \in 0..MaxFaults
      BY <1>21 DEF LinksStopThrows, Fault
    <3>2. open' \subseteq Resources /\ broken' \subseteq Resources \cup Parts
      BY <1>21 DEF LinksStopThrows
    <3> QED
      BY <3>1, <3>2 DEF ProcessOK
  <2>3. ShutOK'
    BY <1>21 DEF LinksStopThrows, ShutOK, Fault, LanesGone
  <2>4. BotOK'
    BY <1>21 DEF LinksStopThrows, BotOK, Fault, LanesGone
  <2>5. LanesTypeOK'
    BY <1>21 DEF LinksStopThrows, LanesTypeOK, Fault, LanesGone
  <2> QED
    BY <2>1, <2>2, <2>3, <2>4, <2>5, TypeParts
<1>22. ASSUME UNCHANGED vars PROVE TypeOK'
  BY <1>22 DEF vars
<1>23. QED
  BY <1>1, <1>2, <1>3, <1>4, <1>5, <1>6, <1>7, <1>8, <1>9, <1>10, <1>11, <1>12, <1>13, <1>14, <1>15, <1>16, <1>17, <1>18, <1>19, <1>20, <1>21, <1>22
    DEF Next, Startup, BotStopping, Shutdown

\* A lane is told to stop once, and takes one job after that at most.
LEMMA OvertimeStep == AppInv /\ [Next]_vars => Overtime'
<1> SUFFICES ASSUME AppInv, [Next]_vars PROVE Overtime'
  OBVIOUS
<1> USE AppLifecycleAssumption DEF AppInv, TypeOK, LanesTypeOK, Overtime, Connecting, Starting, Shutdowns, Ended, lifeVars, shutVars, botVars, laneVars
<1>1. ASSUME Warm PROVE Overtime'
  BY <1>1 DEF Warm, NextState, Opens, ReconcileLoop
<1>2. ASSUME LateWarm PROVE Overtime'
  BY <1>2 DEF LateWarm, Opens, OpenedByThen, Fault
<1>3. ASSUME LoggedIn PROVE Overtime'
  BY <1>3 DEF LoggedIn, ClientUp, StartParts, StartLanes, BecomeReady
<1>4. ASSUME Registered PROVE Overtime'
  BY <1>4 DEF Registered, StartParts, StartLanes
<1>5. ASSUME Linked PROVE Overtime'
  BY <1>5 DEF Linked, Fault
<1>6. ASSUME Recovered PROVE Overtime'
  BY <1>6 DEF Recovered, BecomeReady
<1>7. ASSUME ConnectFails PROVE Overtime'
  BY <1>7 DEF ConnectFails, CallStop, StopWorker, StopLanes
<1>8. ASSUME ConnectFailed PROVE Overtime'
  BY <1>8 DEF ConnectFailed, BeginShutdown
<1>9. ASSUME LinksStopped PROVE Overtime'
  BY <1>9 DEF LinksStopped, StopWorker, StopLanes
<1>10. ASSUME WorkerStopped PROVE Overtime'
  BY <1>10 DEF WorkerStopped, LanesDone
<1>11. ASSUME NEW s \in Shutdowns, CloseBotBegins(s) PROVE Overtime'
  BY <1>11 DEF CloseBotBegins, Closing, CloseOrder, CallStop, StopWorker, StopLanes
<1>12. ASSUME NEW s \in Shutdowns, CloseBotEnds(s) PROVE Overtime'
  BY <1>12 DEF CloseBotEnds, Closing, CloseOrder, Closed
<1>13. ASSUME NEW s \in Shutdowns, ShutdownOver(s) PROVE Overtime'
  BY <1>13 DEF ShutdownOver
<1>14. ASSUME NEW s \in Shutdowns, NEW r \in Resources, CloseNext(s, r) PROVE Overtime'
  BY <1>14 DEF CloseNext, Closing, CloseOrder, Closed
<1>15. ASSUME NEW s \in Shutdowns, NEW r \in Resources, CloseFails(s, r) PROVE Overtime'
  BY <1>15 DEF CloseFails, Closing, CloseOrder, Closed, Fault
<1>16. ASSUME NEW l \in Lanes, LaneWorks(l) PROVE Overtime'
  BY <1>16 DEF LaneWorks, LaneStep, Ensured, DequeueJob, DequeueNothing, EnsureFails, DequeueFails, RetryDelayOver, CycleOver, Enter
<1>17. ASSUME NEW l \in Lanes, LaneFails(l) PROVE Overtime'
  BY <1>17 DEF LaneFails, LaneFault, EnsureFails, DequeueFails, Enter, Fault
<1>18. ASSUME Signal PROVE Overtime'
  BY <1>18 DEF Signal, BeginShutdown, CallStop, StopWorker, StopLanes
<1>19. ASSUME WarmFails PROVE Overtime'
  BY <1>19 DEF WarmFails, OpenedByThen, BeginShutdown, Fault
<1>20. ASSUME LoginFails PROVE Overtime'
  BY <1>20 DEF LoginFails, Fault
<1>21. ASSUME LinksStopThrows PROVE Overtime'
  BY <1>21 DEF LinksStopThrows, Fault, LanesGone
<1>22. ASSUME UNCHANGED vars PROVE Overtime'
  BY <1>22 DEF vars
<1>23. QED
  BY <1>1, <1>2, <1>3, <1>4, <1>5, <1>6, <1>7, <1>8, <1>9, <1>10, <1>11, <1>12, <1>13, <1>14, <1>15, <1>16, <1>17, <1>18, <1>19, <1>20, <1>21, <1>22
    DEF Next, Startup, BotStopping, Shutdown

\* Shutdowns begin with a signal or a failure.
LEMMA ShuttingStep == AppInv /\ [Next]_vars => Shutting'
<1> SUFFICES ASSUME AppInv, [Next]_vars PROVE Shutting'
  OBVIOUS
<1> USE AppLifecycleAssumption DEF AppInv, TypeOK, Shutting, Connecting, NeedsDiscord, Starting, Shutdowns, Ended, lifeVars, shutVars, botVars, laneVars
<1>1. ASSUME Warm PROVE Shutting'
  BY <1>1 DEF Warm, NextState, Opens, ReconcileLoop
<1>2. ASSUME LateWarm PROVE Shutting'
  BY <1>2 DEF LateWarm, Opens, OpenedByThen, Fault
<1>3. ASSUME LoggedIn PROVE Shutting'
  BY <1>3 DEF LoggedIn, ClientUp, StartParts, StartLanes, BecomeReady
<1>4. ASSUME Registered PROVE Shutting'
  BY <1>4 DEF Registered, StartParts, StartLanes
<1>5. ASSUME Linked PROVE Shutting'
  BY <1>5 DEF Linked, Fault
<1>6. ASSUME Recovered PROVE Shutting'
  BY <1>6 DEF Recovered, BecomeReady
<1>7. ASSUME ConnectFails PROVE Shutting'
  BY <1>7 DEF ConnectFails, CallStop, StopWorker, StopLanes
<1>8. ASSUME ConnectFailed PROVE Shutting'
  BY <1>8 DEF ConnectFailed, BeginShutdown
<1>9. ASSUME LinksStopped PROVE Shutting'
  BY <1>9 DEF LinksStopped, StopWorker, StopLanes
<1>10. ASSUME WorkerStopped PROVE Shutting'
  BY <1>10 DEF WorkerStopped, LanesDone
<1>11. ASSUME NEW s \in Shutdowns, CloseBotBegins(s) PROVE Shutting'
  BY <1>11 DEF CloseBotBegins, Closing, CloseOrder, CallStop, StopWorker, StopLanes
<1>12. ASSUME NEW s \in Shutdowns, CloseBotEnds(s) PROVE Shutting'
  BY <1>12 DEF CloseBotEnds, Closing, CloseOrder, Closed
<1>13. ASSUME NEW s \in Shutdowns, ShutdownOver(s) PROVE Shutting'
  BY <1>13 DEF ShutdownOver
<1>14. ASSUME NEW s \in Shutdowns, NEW r \in Resources, CloseNext(s, r) PROVE Shutting'
  BY <1>14 DEF CloseNext, Closing, CloseOrder, Closed
<1>15. ASSUME NEW s \in Shutdowns, NEW r \in Resources, CloseFails(s, r) PROVE Shutting'
  BY <1>15 DEF CloseFails, Closing, CloseOrder, Closed, Fault
<1>16. ASSUME NEW l \in Lanes, LaneWorks(l) PROVE Shutting'
  BY <1>16 DEF LaneWorks, LaneStep, Ensured, DequeueJob, DequeueNothing, EnsureFails, DequeueFails, RetryDelayOver, CycleOver, Enter
<1>17. ASSUME NEW l \in Lanes, LaneFails(l) PROVE Shutting'
  BY <1>17 DEF LaneFails, LaneFault, EnsureFails, DequeueFails, Enter, Fault
<1>18. ASSUME Signal PROVE Shutting'
  BY <1>18 DEF Signal, BeginShutdown, CallStop, StopWorker, StopLanes
<1>19. ASSUME WarmFails PROVE Shutting'
  BY <1>19 DEF WarmFails, OpenedByThen, BeginShutdown, Fault
<1>20. ASSUME LoginFails PROVE Shutting'
  BY <1>20 DEF LoginFails, Fault
<1>21. ASSUME LinksStopThrows PROVE Shutting'
  BY <1>21 DEF LinksStopThrows, Stopping, Fault, LanesGone
<1>22. ASSUME UNCHANGED vars PROVE Shutting'
  BY <1>22 DEF vars
<1>23. QED
  BY <1>1, <1>2, <1>3, <1>4, <1>5, <1>6, <1>7, <1>8, <1>9, <1>10, <1>11, <1>12, <1>13, <1>14, <1>15, <1>16, <1>17, <1>18, <1>19, <1>20, <1>21, <1>22
    DEF Next, Startup, BotStopping, Shutdown

\* The bot starts after the startup's resources and is known once it is ready.
LEMMA ConnectingStep == AppInv /\ [Next]_vars => Connecting'
<1> SUFFICES ASSUME AppInv, [Next]_vars PROVE Connecting'
  OBVIOUS
<1> USE AppLifecycleAssumption DEF AppInv, TypeOK, LanesTypeOK, Connecting, Shutting, Stopping, BotFirst, NeedsDiscord, Resources, Parts, Starting, Shutdowns, Ended, lifeVars, shutVars, botVars, laneVars
<1>1. ASSUME Warm PROVE Connecting'
  BY <1>1 DEF Warm, NextState, Opens, ReconcileLoop
<1>2. ASSUME LateWarm PROVE Connecting'
  BY <1>2 DEF LateWarm, Opens, OpenedByThen, Fault
<1>3. ASSUME LoggedIn PROVE Connecting'
  BY <1>3 DEF LoggedIn, ClientUp, StartParts, StartLanes, BecomeReady
<1>4. ASSUME Registered PROVE Connecting'
  BY <1>4 DEF Registered, StartParts, StartLanes
<1>5. ASSUME Linked PROVE Connecting'
  BY <1>5 DEF Linked, Fault
<1>6. ASSUME Recovered PROVE Connecting'
  BY <1>6 DEF Recovered, BecomeReady
<1>7. ASSUME ConnectFails PROVE Connecting'
  BY <1>7 DEF ConnectFails, CallStop, StopWorker, StopLanes
<1>8. ASSUME ConnectFailed PROVE Connecting'
  BY <1>8 DEF ConnectFailed, BeginShutdown
<1>9. ASSUME LinksStopped PROVE Connecting'
  BY <1>9 DEF LinksStopped, StopWorker, StopLanes
<1>10. ASSUME WorkerStopped PROVE Connecting'
  BY <1>10 DEF WorkerStopped, LanesDone
<1>11. ASSUME NEW s \in Shutdowns, CloseBotBegins(s) PROVE Connecting'
  BY <1>11 DEF CloseBotBegins, Closing, CloseOrder, CallStop, StopWorker, StopLanes
<1>12. ASSUME NEW s \in Shutdowns, CloseBotEnds(s) PROVE Connecting'
  BY <1>12 DEF CloseBotEnds, Closing, CloseOrder, Closed
<1>13. ASSUME NEW s \in Shutdowns, ShutdownOver(s) PROVE Connecting'
  BY <1>13 DEF ShutdownOver
<1>14. ASSUME NEW s \in Shutdowns, NEW r \in Resources, CloseNext(s, r) PROVE Connecting'
  BY <1>14 DEF CloseNext, Closing, CloseOrder, Closed
<1>15. ASSUME NEW s \in Shutdowns, NEW r \in Resources, CloseFails(s, r) PROVE Connecting'
  BY <1>15 DEF CloseFails, Closing, CloseOrder, Closed, Fault
<1>16. ASSUME NEW l \in Lanes, LaneWorks(l) PROVE Connecting'
  BY <1>16 DEF LaneWorks, LaneStep, Ensured, DequeueJob, DequeueNothing, EnsureFails, DequeueFails, RetryDelayOver, CycleOver, Enter
<1>17. ASSUME NEW l \in Lanes, LaneFails(l) PROVE Connecting'
  BY <1>17 DEF LaneFails, LaneFault, EnsureFails, DequeueFails, Enter, Fault
<1>18. ASSUME Signal PROVE Connecting'
  BY <1>18 DEF Signal, BeginShutdown, CallStop, StopWorker, StopLanes
<1>19. ASSUME WarmFails PROVE Connecting'
  BY <1>19 DEF WarmFails, OpenedByThen, BeginShutdown, Fault
<1>20. ASSUME LoginFails PROVE Connecting'
  BY <1>20 DEF LoginFails, Fault
<1>21. ASSUME LinksStopThrows PROVE Connecting'
  BY <1>21 DEF LinksStopThrows, Fault, LanesGone
<1>22. ASSUME UNCHANGED vars PROVE Connecting'
  BY <1>22 DEF vars
<1>23. QED
  BY <1>1, <1>2, <1>3, <1>4, <1>5, <1>6, <1>7, <1>8, <1>9, <1>10, <1>11, <1>12, <1>13, <1>14, <1>15, <1>16, <1>17, <1>18, <1>19, <1>20, <1>21, <1>22
    DEF Next, Startup, BotStopping, Shutdown

\* The bot is stopped when its handler is over or a signal cut it off.
LEMMA StoppingStep == AppInv /\ [Next]_vars => Stopping'
<1> SUFFICES ASSUME AppInv, [Next]_vars PROVE Stopping'
  OBVIOUS
<1> USE AppLifecycleAssumption DEF AppInv, TypeOK, Connecting, Shutting, Stopping, BotFirst, NeedsDiscord, Parts, Starting, Shutdowns, Ended, lifeVars, shutVars, botVars, laneVars
<1>1. ASSUME Warm PROVE Stopping'
  BY <1>1 DEF Warm, NextState, Opens, ReconcileLoop
<1>2. ASSUME LateWarm PROVE Stopping'
  BY <1>2 DEF LateWarm, Opens, OpenedByThen, Fault
<1>3. ASSUME LoggedIn PROVE Stopping'
  BY <1>3 DEF LoggedIn, ClientUp, StartParts, StartLanes, BecomeReady
<1>4. ASSUME Registered PROVE Stopping'
  BY <1>4 DEF Registered, StartParts, StartLanes
<1>5. ASSUME Linked PROVE Stopping'
  BY <1>5 DEF Linked, Fault
<1>6. ASSUME Recovered PROVE Stopping'
  BY <1>6 DEF Recovered, BecomeReady
<1>7. ASSUME ConnectFails PROVE Stopping'
  BY <1>7 DEF ConnectFails, CallStop, StopWorker, StopLanes
<1>8. ASSUME ConnectFailed PROVE Stopping'
  BY <1>8 DEF ConnectFailed, BeginShutdown
<1>9. ASSUME LinksStopped PROVE Stopping'
  BY <1>9 DEF LinksStopped, StopWorker, StopLanes
<1>10. ASSUME WorkerStopped PROVE Stopping'
  BY <1>10 DEF WorkerStopped, LanesDone
<1>11. ASSUME NEW s \in Shutdowns, CloseBotBegins(s) PROVE Stopping'
  BY <1>11 DEF CloseBotBegins, Closing, CloseOrder, CallStop, StopWorker, StopLanes
<1>12. ASSUME NEW s \in Shutdowns, CloseBotEnds(s) PROVE Stopping'
  BY <1>12 DEF CloseBotEnds, Closing, CloseOrder, Closed
<1>13. ASSUME NEW s \in Shutdowns, ShutdownOver(s) PROVE Stopping'
  BY <1>13 DEF ShutdownOver
<1>14. ASSUME NEW s \in Shutdowns, NEW r \in Resources, CloseNext(s, r) PROVE Stopping'
  BY <1>14 DEF CloseNext, Closing, CloseOrder, Closed
<1>15. ASSUME NEW s \in Shutdowns, NEW r \in Resources, CloseFails(s, r) PROVE Stopping'
  BY <1>15 DEF CloseFails, Closing, CloseOrder, Closed, Fault
<1>16. ASSUME NEW l \in Lanes, LaneWorks(l) PROVE Stopping'
  BY <1>16 DEF LaneWorks, LaneStep, Ensured, DequeueJob, DequeueNothing, EnsureFails, DequeueFails, RetryDelayOver, CycleOver, Enter
<1>17. ASSUME NEW l \in Lanes, LaneFails(l) PROVE Stopping'
  BY <1>17 DEF LaneFails, LaneFault, EnsureFails, DequeueFails, Enter, Fault
<1>18. ASSUME Signal PROVE Stopping'
  BY <1>18 DEF Signal, BeginShutdown, CallStop, StopWorker, StopLanes
<1>19. ASSUME WarmFails PROVE Stopping'
  BY <1>19 DEF WarmFails, OpenedByThen, BeginShutdown, Fault
<1>20. ASSUME LoginFails PROVE Stopping'
  BY <1>20 DEF LoginFails, Fault
<1>21. ASSUME LinksStopThrows PROVE Stopping'
  BY <1>21 DEF LinksStopThrows, Fault, LanesGone
<1>22. ASSUME UNCHANGED vars PROVE Stopping'
  BY <1>22 DEF vars
<1>23. QED
  BY <1>1, <1>2, <1>3, <1>4, <1>5, <1>6, <1>7, <1>8, <1>9, <1>10, <1>11, <1>12, <1>13, <1>14, <1>15, <1>16, <1>17, <1>18, <1>19, <1>20, <1>21, <1>22
    DEF Next, Startup, BotStopping, Shutdown

\* Lanes are started with the worker and done before it is taken as stopped.
LEMMA WorkingStep == AppInv /\ [Next]_vars => Working'
<1> SUFFICES ASSUME AppInv, [Next]_vars PROVE Working'
  OBVIOUS
<1> USE AppLifecycleAssumption DEF AppInv, TypeOK, LanesTypeOK, Connecting, Working, LanesDone, Starting, Shutdowns, Ended, lifeVars, shutVars, botVars, laneVars
<1>1. ASSUME Warm PROVE Working'
  BY <1>1 DEF Warm, NextState, Opens, ReconcileLoop
<1>2. ASSUME LateWarm PROVE Working'
  BY <1>2 DEF LateWarm, Opens, OpenedByThen, Fault
<1>3. ASSUME LoggedIn PROVE Working'
  BY <1>3 DEF LoggedIn, ClientUp, StartParts, StartLanes, BecomeReady
<1>4. ASSUME Registered PROVE Working'
  BY <1>4 DEF Registered, StartParts, StartLanes
<1>5. ASSUME Linked PROVE Working'
  BY <1>5 DEF Linked, Fault
<1>6. ASSUME Recovered PROVE Working'
  BY <1>6 DEF Recovered, BecomeReady
<1>7. ASSUME ConnectFails PROVE Working'
  BY <1>7 DEF ConnectFails, CallStop, StopWorker, StopLanes
<1>8. ASSUME ConnectFailed PROVE Working'
  BY <1>8 DEF ConnectFailed, BeginShutdown
<1>9. ASSUME LinksStopped PROVE Working'
  BY <1>9 DEF LinksStopped, StopWorker, StopLanes
<1>10. ASSUME WorkerStopped PROVE Working'
  BY <1>10 DEF WorkerStopped, LanesDone
<1>11. ASSUME NEW s \in Shutdowns, CloseBotBegins(s) PROVE Working'
  BY <1>11 DEF CloseBotBegins, Closing, CloseOrder, CallStop, StopWorker, StopLanes
<1>12. ASSUME NEW s \in Shutdowns, CloseBotEnds(s) PROVE Working'
  BY <1>12 DEF CloseBotEnds, Closing, CloseOrder, Closed
<1>13. ASSUME NEW s \in Shutdowns, ShutdownOver(s) PROVE Working'
  BY <1>13 DEF ShutdownOver
<1>14. ASSUME NEW s \in Shutdowns, NEW r \in Resources, CloseNext(s, r) PROVE Working'
  BY <1>14 DEF CloseNext, Closing, CloseOrder, Closed
<1>15. ASSUME NEW s \in Shutdowns, NEW r \in Resources, CloseFails(s, r) PROVE Working'
  BY <1>15 DEF CloseFails, Closing, CloseOrder, Closed, Fault
<1>16. ASSUME NEW l \in Lanes, LaneWorks(l) PROVE Working'
  BY <1>16 DEF LaneWorks, LaneStep, Ensured, DequeueJob, DequeueNothing, EnsureFails, DequeueFails, RetryDelayOver, CycleOver, Enter
<1>17. ASSUME NEW l \in Lanes, LaneFails(l) PROVE Working'
  BY <1>17 DEF LaneFails, LaneFault, EnsureFails, DequeueFails, Enter, Fault
<1>18. ASSUME Signal PROVE Working'
  BY <1>18 DEF Signal, BeginShutdown, CallStop, StopWorker, StopLanes
<1>19. ASSUME WarmFails PROVE Working'
  BY <1>19 DEF WarmFails, OpenedByThen, BeginShutdown, Fault
<1>20. ASSUME LoginFails PROVE Working'
  BY <1>20 DEF LoginFails, Fault
<1>21. ASSUME LinksStopThrows PROVE Working'
  BY <1>21 DEF LinksStopThrows, Fault, LanesGone
<1>22. ASSUME UNCHANGED vars PROVE Working'
  BY <1>22 DEF vars
<1>23. QED
  BY <1>1, <1>2, <1>3, <1>4, <1>5, <1>6, <1>7, <1>8, <1>9, <1>10, <1>11, <1>12, <1>13, <1>14, <1>15, <1>16, <1>17, <1>18, <1>19, <1>20, <1>21, <1>22
    DEF Next, Startup, BotStopping, Shutdown

\* No shutdown gets past the bot before the bot is through.
LEMMA BotFirstStep == AppInv /\ [Next]_vars => BotFirst'
<1> SUFFICES ASSUME AppInv, [Next]_vars PROVE BotFirst'
  OBVIOUS
<1> USE AppLifecycleAssumption DEF AppInv, TypeOK, Connecting, Shutting, Stopping, BotFirst, BotThrough, Starting, Shutdowns, Ended, lifeVars, shutVars, botVars, laneVars
<1>1. ASSUME Warm PROVE BotFirst'
  BY <1>1 DEF Warm, NextState, Opens, ReconcileLoop
<1>2. ASSUME LateWarm PROVE BotFirst'
  BY <1>2 DEF LateWarm, Opens, OpenedByThen, Fault
<1>3. ASSUME LoggedIn PROVE BotFirst'
  BY <1>3 DEF LoggedIn, ClientUp, StartParts, StartLanes, BecomeReady
<1>4. ASSUME Registered PROVE BotFirst'
  BY <1>4 DEF Registered, StartParts, StartLanes
<1>5. ASSUME Linked PROVE BotFirst'
  BY <1>5 DEF Linked, Fault
<1>6. ASSUME Recovered PROVE BotFirst'
  BY <1>6 DEF Recovered, BecomeReady
<1>7. ASSUME ConnectFails PROVE BotFirst'
  BY <1>7 DEF ConnectFails, CallStop, StopWorker, StopLanes
<1>8. ASSUME ConnectFailed PROVE BotFirst'
  BY <1>8 DEF ConnectFailed, BeginShutdown
<1>9. ASSUME LinksStopped PROVE BotFirst'
  BY <1>9 DEF LinksStopped, StopWorker, StopLanes
<1>10. ASSUME WorkerStopped PROVE BotFirst'
  BY <1>10 DEF WorkerStopped, LanesDone
<1>11. ASSUME NEW s \in Shutdowns, CloseBotBegins(s) PROVE BotFirst'
  BY <1>11 DEF CloseBotBegins, Closing, CloseOrder, CallStop, StopWorker, StopLanes
<1>12. ASSUME NEW s \in Shutdowns, CloseBotEnds(s) PROVE BotFirst'
  BY <1>12 DEF CloseBotEnds, Closing, CloseOrder, Closed
<1>13. ASSUME NEW s \in Shutdowns, ShutdownOver(s) PROVE BotFirst'
  BY <1>13 DEF ShutdownOver
<1>14. ASSUME NEW s \in Shutdowns, NEW r \in Resources, CloseNext(s, r) PROVE BotFirst'
  BY <1>14 DEF CloseNext, Closing, CloseOrder, Closed
<1>15. ASSUME NEW s \in Shutdowns, NEW r \in Resources, CloseFails(s, r) PROVE BotFirst'
  BY <1>15 DEF CloseFails, Closing, CloseOrder, Closed, Fault
<1>16. ASSUME NEW l \in Lanes, LaneWorks(l) PROVE BotFirst'
  BY <1>16 DEF LaneWorks, LaneStep, Ensured, DequeueJob, DequeueNothing, EnsureFails, DequeueFails, RetryDelayOver, CycleOver, Enter
<1>17. ASSUME NEW l \in Lanes, LaneFails(l) PROVE BotFirst'
  BY <1>17 DEF LaneFails, LaneFault, EnsureFails, DequeueFails, Enter, Fault
<1>18. ASSUME Signal PROVE BotFirst'
  BY <1>18 DEF Signal, BeginShutdown, CallStop, StopWorker, StopLanes
<1>19. ASSUME WarmFails PROVE BotFirst'
  BY <1>19 DEF WarmFails, OpenedByThen, BeginShutdown, Fault
<1>20. ASSUME LoginFails PROVE BotFirst'
  BY <1>20 DEF LoginFails, Fault
<1>21. ASSUME LinksStopThrows PROVE BotFirst'
  BY <1>21 DEF LinksStopThrows, Fault, LanesGone
<1>22. ASSUME UNCHANGED vars PROVE BotFirst'
  BY <1>22 DEF vars
<1>23. QED
  BY <1>1, <1>2, <1>3, <1>4, <1>5, <1>6, <1>7, <1>8, <1>9, <1>10, <1>11, <1>12, <1>13, <1>14, <1>15, <1>16, <1>17, <1>18, <1>19, <1>20, <1>21, <1>22
    DEF Next, Startup, BotStopping, Shutdown

\* A shutdown gives up what it closes.
LEMMA PassedStep == AppInv /\ [Next]_vars => Passed'
<1> SUFFICES ASSUME AppInv, [Next]_vars PROVE Passed'
  OBVIOUS
<1> USE AppLifecycleAssumption DEF AppInv, TypeOK, Shutting, Passed, Resources, Starting, Shutdowns, Ended, lifeVars, shutVars, botVars, laneVars
<1>1. ASSUME Warm PROVE Passed'
  BY <1>1 DEF Warm, NextState, Opens, ReconcileLoop
<1>2. ASSUME LateWarm PROVE Passed'
  BY <1>2 DEF LateWarm, Opens, OpenedByThen, Fault
<1>3. ASSUME LoggedIn PROVE Passed'
  BY <1>3 DEF LoggedIn, ClientUp, StartParts, StartLanes, BecomeReady
<1>4. ASSUME Registered PROVE Passed'
  BY <1>4 DEF Registered, StartParts, StartLanes
<1>5. ASSUME Linked PROVE Passed'
  BY <1>5 DEF Linked, Fault
<1>6. ASSUME Recovered PROVE Passed'
  BY <1>6 DEF Recovered, BecomeReady
<1>7. ASSUME ConnectFails PROVE Passed'
  BY <1>7 DEF ConnectFails, CallStop, StopWorker, StopLanes
<1>8. ASSUME ConnectFailed PROVE Passed'
  BY <1>8 DEF ConnectFailed, BeginShutdown
<1>9. ASSUME LinksStopped PROVE Passed'
  BY <1>9 DEF LinksStopped, StopWorker, StopLanes
<1>10. ASSUME WorkerStopped PROVE Passed'
  BY <1>10 DEF WorkerStopped, LanesDone
<1>11. ASSUME NEW s \in Shutdowns, CloseBotBegins(s) PROVE Passed'
  BY <1>11 DEF CloseBotBegins, Closing, CloseOrder, CallStop, StopWorker, StopLanes
<1>12. ASSUME NEW s \in Shutdowns, CloseBotEnds(s) PROVE Passed'
  BY <1>12 DEF CloseBotEnds, Closing, CloseOrder, Closed
<1>13. ASSUME NEW s \in Shutdowns, ShutdownOver(s) PROVE Passed'
  BY <1>13 DEF ShutdownOver
<1>14. ASSUME NEW s \in Shutdowns, NEW r \in Resources, CloseNext(s, r) PROVE Passed'
  BY <1>14 DEF CloseNext, Closing, CloseOrder, Closed
<1>15. ASSUME NEW s \in Shutdowns, NEW r \in Resources, CloseFails(s, r) PROVE Passed'
  BY <1>15 DEF CloseFails, Closing, CloseOrder, Closed, Fault
<1>16. ASSUME NEW l \in Lanes, LaneWorks(l) PROVE Passed'
  BY <1>16 DEF LaneWorks, LaneStep, Ensured, DequeueJob, DequeueNothing, EnsureFails, DequeueFails, RetryDelayOver, CycleOver, Enter
<1>17. ASSUME NEW l \in Lanes, LaneFails(l) PROVE Passed'
  BY <1>17 DEF LaneFails, LaneFault, EnsureFails, DequeueFails, Enter, Fault
<1>18. ASSUME Signal PROVE Passed'
  BY <1>18 DEF Signal, BeginShutdown, CallStop, StopWorker, StopLanes
<1>19. ASSUME WarmFails PROVE Passed'
  BY <1>19 DEF WarmFails, OpenedByThen, BeginShutdown, Fault
<1>20. ASSUME LoginFails PROVE Passed'
  BY <1>20 DEF LoginFails, Fault
<1>21. ASSUME LinksStopThrows PROVE Passed'
  BY <1>21 DEF LinksStopThrows, Fault, LanesGone
<1>22. ASSUME UNCHANGED vars PROVE Passed'
  BY <1>22 DEF vars
<1>23. QED
  BY <1>1, <1>2, <1>3, <1>4, <1>5, <1>6, <1>7, <1>8, <1>9, <1>10, <1>11, <1>12, <1>13, <1>14, <1>15, <1>16, <1>17, <1>18, <1>19, <1>20, <1>21, <1>22
    DEF Next, Startup, BotStopping, Shutdown

\* Startup opens its resources in order.
LEMMA WarmedStep == AppInv /\ [Next]_vars => Warmed'
<1> SUFFICES ASSUME AppInv, [Next]_vars PROVE Warmed'
  OBVIOUS
<1> USE AppLifecycleAssumption DEF AppInv, TypeOK, Shutting, Warmed, NeedsDiscord, Starting, Shutdowns, Ended, lifeVars, shutVars, botVars, laneVars
<1>1. ASSUME Warm PROVE Warmed'
  BY <1>1 DEF Warm, NextState, Opens, ReconcileLoop
<1>2. ASSUME LateWarm PROVE Warmed'
  BY <1>2 DEF LateWarm, Opens, OpenedByThen, Fault
<1>3. ASSUME LoggedIn PROVE Warmed'
  BY <1>3 DEF LoggedIn, ClientUp, StartParts, StartLanes, BecomeReady
<1>4. ASSUME Registered PROVE Warmed'
  BY <1>4 DEF Registered, StartParts, StartLanes
<1>5. ASSUME Linked PROVE Warmed'
  BY <1>5 DEF Linked, Fault
<1>6. ASSUME Recovered PROVE Warmed'
  BY <1>6 DEF Recovered, BecomeReady
<1>7. ASSUME ConnectFails PROVE Warmed'
  BY <1>7 DEF ConnectFails, CallStop, StopWorker, StopLanes
<1>8. ASSUME ConnectFailed PROVE Warmed'
  BY <1>8 DEF ConnectFailed, BeginShutdown
<1>9. ASSUME LinksStopped PROVE Warmed'
  BY <1>9 DEF LinksStopped, StopWorker, StopLanes
<1>10. ASSUME WorkerStopped PROVE Warmed'
  BY <1>10 DEF WorkerStopped, LanesDone
<1>11. ASSUME NEW s \in Shutdowns, CloseBotBegins(s) PROVE Warmed'
  BY <1>11 DEF CloseBotBegins, Closing, CloseOrder, CallStop, StopWorker, StopLanes
<1>12. ASSUME NEW s \in Shutdowns, CloseBotEnds(s) PROVE Warmed'
  BY <1>12 DEF CloseBotEnds, Closing, CloseOrder, Closed
<1>13. ASSUME NEW s \in Shutdowns, ShutdownOver(s) PROVE Warmed'
  BY <1>13 DEF ShutdownOver
<1>14. ASSUME NEW s \in Shutdowns, NEW r \in Resources, CloseNext(s, r) PROVE Warmed'
  BY <1>14 DEF CloseNext, Closing, CloseOrder, Closed
<1>15. ASSUME NEW s \in Shutdowns, NEW r \in Resources, CloseFails(s, r) PROVE Warmed'
  BY <1>15 DEF CloseFails, Closing, CloseOrder, Closed, Fault
<1>16. ASSUME NEW l \in Lanes, LaneWorks(l) PROVE Warmed'
  BY <1>16 DEF LaneWorks, LaneStep, Ensured, DequeueJob, DequeueNothing, EnsureFails, DequeueFails, RetryDelayOver, CycleOver, Enter
<1>17. ASSUME NEW l \in Lanes, LaneFails(l) PROVE Warmed'
  BY <1>17 DEF LaneFails, LaneFault, EnsureFails, DequeueFails, Enter, Fault
<1>18. ASSUME Signal PROVE Warmed'
  BY <1>18 DEF Signal, BeginShutdown, CallStop, StopWorker, StopLanes
<1>19. ASSUME WarmFails PROVE Warmed'
  BY <1>19 DEF WarmFails, OpenedByThen, BeginShutdown, Fault
<1>20. ASSUME LoginFails PROVE Warmed'
  BY <1>20 DEF LoginFails, Fault
<1>21. ASSUME LinksStopThrows PROVE Warmed'
  BY <1>21 DEF LinksStopThrows, Fault, LanesGone
<1>22. ASSUME UNCHANGED vars PROVE Warmed'
  BY <1>22 DEF vars
<1>23. QED
  BY <1>1, <1>2, <1>3, <1>4, <1>5, <1>6, <1>7, <1>8, <1>9, <1>10, <1>11, <1>12, <1>13, <1>14, <1>15, <1>16, <1>17, <1>18, <1>19, <1>20, <1>21, <1>22
    DEF Next, Startup, BotStopping, Shutdown

\* Only a shutdown past the bot closes the bot's services.
LEMMA ServingStep == AppInv /\ [Next]_vars => Serving'
<1> SUFFICES ASSUME AppInv, [Next]_vars PROVE Serving'
  OBVIOUS
<1> USE AppLifecycleAssumption DEF AppInv, TypeOK, Connecting, Shutting, Warmed, Serving, NeedsDiscord, Starting, Shutdowns, Ended, lifeVars, shutVars, botVars, laneVars
<1>1. ASSUME Warm PROVE Serving'
  BY <1>1 DEF Warm, NextState, Opens, ReconcileLoop
<1>2. ASSUME LateWarm PROVE Serving'
  BY <1>2 DEF LateWarm, Opens, OpenedByThen, Fault
<1>3. ASSUME LoggedIn PROVE Serving'
  BY <1>3 DEF LoggedIn, ClientUp, StartParts, StartLanes, BecomeReady
<1>4. ASSUME Registered PROVE Serving'
  BY <1>4 DEF Registered, StartParts, StartLanes
<1>5. ASSUME Linked PROVE Serving'
  BY <1>5 DEF Linked, Fault
<1>6. ASSUME Recovered PROVE Serving'
  BY <1>6 DEF Recovered, BecomeReady
<1>7. ASSUME ConnectFails PROVE Serving'
  BY <1>7 DEF ConnectFails, CallStop, StopWorker, StopLanes
<1>8. ASSUME ConnectFailed PROVE Serving'
  BY <1>8 DEF ConnectFailed, BeginShutdown
<1>9. ASSUME LinksStopped PROVE Serving'
  BY <1>9 DEF LinksStopped, StopWorker, StopLanes
<1>10. ASSUME WorkerStopped PROVE Serving'
  BY <1>10 DEF WorkerStopped, LanesDone
<1>11. ASSUME NEW s \in Shutdowns, CloseBotBegins(s) PROVE Serving'
  BY <1>11 DEF CloseBotBegins, Closing, CloseOrder, CallStop, StopWorker, StopLanes
<1>12. ASSUME NEW s \in Shutdowns, CloseBotEnds(s) PROVE Serving'
  BY <1>12 DEF CloseBotEnds, Closing, CloseOrder, Closed
<1>13. ASSUME NEW s \in Shutdowns, ShutdownOver(s) PROVE Serving'
  BY <1>13 DEF ShutdownOver
<1>14. ASSUME NEW s \in Shutdowns, NEW r \in Resources, CloseNext(s, r) PROVE Serving'
  BY <1>14 DEF CloseNext, Closing, CloseOrder, Closed
<1>15. ASSUME NEW s \in Shutdowns, NEW r \in Resources, CloseFails(s, r) PROVE Serving'
  BY <1>15 DEF CloseFails, Closing, CloseOrder, Closed, Fault
<1>16. ASSUME NEW l \in Lanes, LaneWorks(l) PROVE Serving'
  BY <1>16 DEF LaneWorks, LaneStep, Ensured, DequeueJob, DequeueNothing, EnsureFails, DequeueFails, RetryDelayOver, CycleOver, Enter
<1>17. ASSUME NEW l \in Lanes, LaneFails(l) PROVE Serving'
  BY <1>17 DEF LaneFails, LaneFault, EnsureFails, DequeueFails, Enter, Fault
<1>18. ASSUME Signal PROVE Serving'
  BY <1>18 DEF Signal, BeginShutdown, CallStop, StopWorker, StopLanes
<1>19. ASSUME WarmFails PROVE Serving'
  BY <1>19 DEF WarmFails, OpenedByThen, BeginShutdown, Fault
<1>20. ASSUME LoginFails PROVE Serving'
  BY <1>20 DEF LoginFails, Fault
<1>21. ASSUME LinksStopThrows PROVE Serving'
  BY <1>21 DEF LinksStopThrows, Fault, LanesGone
<1>22. ASSUME UNCHANGED vars PROVE Serving'
  BY <1>22 DEF vars
<1>23. QED
  BY <1>1, <1>2, <1>3, <1>4, <1>5, <1>6, <1>7, <1>8, <1>9, <1>10, <1>11, <1>12, <1>13, <1>14, <1>15, <1>16, <1>17, <1>18, <1>19, <1>20, <1>21, <1>22
    DEF Next, Startup, BotStopping, Shutdown

\* Nothing open is forgotten.
LEMMA TrackedStep == AppInv /\ [Next]_vars => Tracked'
<1> SUFFICES ASSUME AppInv, [Next]_vars PROVE Tracked'
  OBVIOUS
<1> USE AppLifecycleAssumption DEF AppInv, TypeOK, Connecting, Shutting, Tracked, BotFirst, Passed, Opens, Resources, Starting, Shutdowns, Ended, lifeVars, shutVars, botVars, laneVars
<1>1. ASSUME Warm PROVE Tracked'
  BY <1>1 DEF Warm, NextState, Opens, ReconcileLoop
<1>2. ASSUME LateWarm PROVE Tracked'
  BY <1>2 DEF LateWarm, Opens, OpenedByThen, Fault
<1>3. ASSUME LoggedIn PROVE Tracked'
  BY <1>3 DEF LoggedIn, ClientUp, StartParts, StartLanes, BecomeReady
<1>4. ASSUME Registered PROVE Tracked'
  BY <1>4 DEF Registered, StartParts, StartLanes
<1>5. ASSUME Linked PROVE Tracked'
  BY <1>5 DEF Linked, Fault
<1>6. ASSUME Recovered PROVE Tracked'
  BY <1>6 DEF Recovered, BecomeReady
<1>7. ASSUME ConnectFails PROVE Tracked'
  BY <1>7 DEF ConnectFails, CallStop, StopWorker, StopLanes
<1>8. ASSUME ConnectFailed PROVE Tracked'
  BY <1>8 DEF ConnectFailed, BeginShutdown
<1>9. ASSUME LinksStopped PROVE Tracked'
  BY <1>9 DEF LinksStopped, StopWorker, StopLanes
<1>10. ASSUME WorkerStopped PROVE Tracked'
  BY <1>10 DEF WorkerStopped, LanesDone
<1>11. ASSUME NEW s \in Shutdowns, CloseBotBegins(s) PROVE Tracked'
  BY <1>11 DEF CloseBotBegins, Closing, CloseOrder, CallStop, StopWorker, StopLanes
<1>12. ASSUME NEW s \in Shutdowns, CloseBotEnds(s) PROVE Tracked'
  BY <1>12 DEF CloseBotEnds, Closing, CloseOrder, Closed
<1>13. ASSUME NEW s \in Shutdowns, ShutdownOver(s) PROVE Tracked'
  BY <1>13 DEF ShutdownOver
<1>14. ASSUME NEW s \in Shutdowns, NEW r \in Resources, CloseNext(s, r) PROVE Tracked'
  BY <1>14 DEF CloseNext, Closing, CloseOrder, Closed
<1>15. ASSUME NEW s \in Shutdowns, NEW r \in Resources, CloseFails(s, r) PROVE Tracked'
  BY <1>15 DEF CloseFails, Closing, CloseOrder, Closed, Fault
<1>16. ASSUME NEW l \in Lanes, LaneWorks(l) PROVE Tracked'
  BY <1>16 DEF LaneWorks, LaneStep, Ensured, DequeueJob, DequeueNothing, EnsureFails, DequeueFails, RetryDelayOver, CycleOver, Enter
<1>17. ASSUME NEW l \in Lanes, LaneFails(l) PROVE Tracked'
  BY <1>17 DEF LaneFails, LaneFault, EnsureFails, DequeueFails, Enter, Fault
<1>18. ASSUME Signal PROVE Tracked'
  <2>1. CASE state = "connectingDiscord"
    BY <1>18, <2>1 DEF Signal, BeginShutdown, CallStop, StopWorker, StopLanes
  <2>2. CASE state = "failing"
    BY <1>18, <2>2 DEF Signal, BeginShutdown
  <2>3. CASE state = "running"
    BY <1>18, <2>3 DEF Signal, BeginShutdown
  <2>4. CASE state \in Starting \ {"connectingDiscord"}
    BY <1>18, <2>4 DEF Signal, BeginShutdown
  <2> QED
    BY <1>18, <2>1, <2>2, <2>3, <2>4 DEF Signal
<1>19. ASSUME WarmFails PROVE Tracked'
  BY <1>19 DEF WarmFails, OpenedByThen, BeginShutdown, Fault
<1>20. ASSUME LoginFails PROVE Tracked'
  BY <1>20 DEF LoginFails, Fault
<1>21. ASSUME LinksStopThrows PROVE Tracked'
  BY <1>21 DEF LinksStopThrows, Fault, LanesGone
<1>22. ASSUME UNCHANGED vars PROVE Tracked'
  BY <1>22 DEF vars
<1>23. QED
  BY <1>1, <1>2, <1>3, <1>4, <1>5, <1>6, <1>7, <1>8, <1>9, <1>10, <1>11, <1>12, <1>13, <1>14, <1>15, <1>16, <1>17, <1>18, <1>19, <1>20, <1>21, <1>22
    DEF Next, Startup, BotStopping, Shutdown

\* The process begins with nothing open and nothing begun.
LEMMA AppInit == Init => AppInv
<1> SUFFICES ASSUME Init PROVE AppInv
  OBVIOUS
<1> USE AppLifecycleAssumption DEF Init, LanesInit, Starting, Shutdowns, Ended
<1>1. TypeOK
  <2>1. LifeOK
    <3>1. roles \in SUBSET Roles
      BY DEF Roles
    <3> QED
      BY <3>1 DEF LifeOK
  <2>2. ProcessOK /\ ShutOK
    BY DEF ProcessOK, ShutOK
  <2>3. BotOK
    <3>1. unheard \in BOOLEAN
      OBVIOUS
    <3> QED
      BY <3>1 DEF BotOK
  <2>4. LanesTypeOK
    BY DEF LanesTypeOK, LaneState
  <2> QED
    BY <2>1, <2>2, <2>3, <2>4, TypeParts
<1>2. Overtime /\ Working
  BY DEF Overtime, Working, LanesDone
<1>3. Shutting /\ Connecting /\ Stopping
  BY DEF Shutting, Connecting, Stopping
<1>4. BotFirst /\ Passed /\ Warmed /\ Serving /\ Tracked
  BY DEF BotFirst, Passed, Warmed, Serving, Tracked
<1> QED
  BY <1>1, <1>2, <1>3, <1>4 DEF AppInv

\* The invariant holds of every reachable state.
LEMMA AppInvariant == Spec => []AppInv
<1>1. AppInv /\ [Next]_vars => AppInv'
  BY TypeStep, OvertimeStep, ShuttingStep, ConnectingStep, StoppingStep, WorkingStep,
     BotFirstStep, PassedStep, WarmedStep, ServingStep, TrackedStep DEF AppInv
<1> QED
  BY <1>1, AppInit, PTL DEF Spec

-----------------------------------------------------------------------------
\* The machine, its shutdowns, the bot and the lanes keep their types
\* (app-lifecycle-machine.ts, worker-lane-machine.ts).
THEOREM TypeCorrect == Spec => []TypeOK
<1>1. AppInv => TypeOK
  BY DEF AppInv
<1> QED
  BY <1>1, AppInvariant, PTL

\* However many lanes there are, whatever fails and whenever STOP comes, a lane
\* takes at most one job after it (routingAfterCycle, the blocked dequeue).
THEOREM StoppedLanesFinish == Spec => []OneJobOvertime
<1>1. AppInv => OneJobOvertime
  BY DEF AppInv, Overtime, OneJobOvertime
<1> QED
  BY <1>1, AppInvariant, PTL

\* No shutdown closes the store, the Pi sessions or the registry under a lane that
\* handles a job, but for a signal before the bot is ready and a bot that cannot
\* be stopped (closeAppResources, bot.stop, RunControlWorker.stop).
THEOREM LanesKeepTheirServices == Spec => []JobsKeepTheirServices
<1>1. ASSUME AppInv PROVE JobsKeepTheirServices
  <2>1. SUFFICES ASSUME NEW l \in Lanes, lane[l] = "handlingJob",
                        cut # "connectingDiscord", "links" \notin broken
                 PROVE  {"store", "pi", "registry"} \subseteq open
    BY DEF JobsKeepTheirServices
  <2>2. "worker" \in parts /\ enabled /\ login # "off"
    BY <1>1, <2>1 DEF AppInv, Working, LanesDone, Connecting
  <2>3. state # "exited"
    BY <1>1, <2>1 DEF AppInv, Connecting
  <2>4. ~ BotThrough
    BY <1>1, <2>1, <2>2 DEF AppInv, Stopping, BotThrough
  <2>5. \A s \in Shutdowns : ~ (at[s] > 2)
    BY <1>1, <2>4 DEF AppInv, BotFirst
  <2> QED
    BY <1>1, <2>2, <2>3, <2>5 DEF AppInv, Serving
<1> QED
  BY <1>1, AppInvariant, PTL

\* When the process is through with its shutdown everything it opened is closed,
\* but for what the signal cut off, what could not be closed and a registry whose
\* startup step threw after opening it, whatever else failed and however many
\* signals came (closeAppResources, warmRegistry, startDiscordBot, bot.stop).
THEOREM ShutdownIsComplete == Spec => []NothingLeftOpen
<1>1. ASSUME AppInv, Quiet PROVE open \cup parts \subseteq CutOff \cup broken \cup Abandoned
  <2>1. state # "exited" /\ state \in Ended /\ \E s \in Shutdowns : at[s] # 0
    BY <1>1 DEF AppInv, Shutting, Quiet, Ended
  <2>2. \A s \in Shutdowns : at[s] = 0 \/ at[s] = 6
    BY <1>1 DEF Quiet
  <2>3. BotThrough
    BY <1>1, <2>1, <2>2 DEF AppInv, BotFirst
  <2>4. \A s \in Shutdowns : holds[s] = {}
    BY <1>1, <2>1, <2>2 DEF AppInv, TypeOK, Passed, Resources
  <2>5. \A r \in open \ {"bot"} : r \in CutOff \cup broken
    BY <1>1, <2>1, <2>4 DEF AppInv, Tracked, CutOff
  <2>6. "bot" \in open => "bot" \in Abandoned
    BY <1>1, <2>3 DEF AppInv, TypeOK, Connecting, Stopping, BotThrough, Quiet, Abandoned
  <2>7. parts \subseteq CutOff \cup broken \cup Abandoned
    BY <1>1, <2>3 DEF AppInv, TypeOK, Parts, Connecting, Stopping, BotThrough, CutOff, Abandoned
  <2> QED
    BY <2>5, <2>6, <2>7
<1> QED
  BY <1>1, AppInvariant, PTL DEF NothingLeftOpen
==============================================================================
