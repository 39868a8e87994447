---------------------------- MODULE ReleaseDeploy ----------------------------
(***************************************************************************)
(* The release commands (release-deploy.ts, release-transition.ts) over    *)
(* the files of ReleaseFiles, the LaunchAgent they restart                 *)
(* (launch-agent.ts) and the run control they inspect.                     *)
(*                                                                         *)
(* A command is a fixed list of steps.  Automatic rollback runs the steps  *)
(* of a rollback inside a deploy: rollingBack after an unsafe postflight,  *)
(* compensating after a failure that came after the activation.            *)
(***************************************************************************)
EXTENDS ReleaseFiles, DeploySafety, Sequences, SequencesExt

CONSTANTS
  Repo,         \* the build in the repository, run while nothing is current
  MaxCommands,  \* bound on the commands the operator gives
  MaxFaults     \* bound on failed steps and on daemons and commands that die

ASSUME ReleaseDeployAssumption ==
  /\ Repo \notin Releases \cup {None}
  /\ MaxCommands \in Nat /\ MaxFaults \in Nat

VARIABLES
  mode,       \* the command under way, or "none"
  step,       \* the step it is at
  release,    \* the release it is about: its own for a deploy
  previous,   \* activation.previousReleaseId of a deploy
  before,     \* its preflight inspection
  after,      \* the postflight inspection of a deploy
  windowOver, \* whether a lease TTL passed between the two
  verdict,    \* how a deploy's transition ended; of the failures, whether a
              \* compensating rollback was completed or tried in vain
  force,      \* --force
  origin      \* current, config and daemon when the command began

VARIABLES
  plist,      \* what the LaunchAgent's plist starts: "repo" or "current"
  loaded,     \* the LaunchAgent is loaded
  daemon,     \* the process launchd keeps: [image, config], or None
  leaving,    \* images of processes booted out that have not exited yet
  blind,      \* ps failed when the start last looked for such processes
  risked      \* ghost: a start went ahead beside one, forced or blind

VARIABLES
  active,     \* run control: the run each thread's pointer names
  runState,   \* the state of each run
  dead,       \* the dead-lettered runs
  enabled,    \* config.runControl.enabled
  commands,   \* commands so far
  faults      \* faults so far

commandVars == <<mode, step, release, previous, before, after, windowOver,
                 verdict, force, origin>>
agentVars == <<plist, loaded, daemon, leaving, blind, risked>>
workVars == <<active, runState, dead, enabled>>
vars == <<fileVars, commandVars, agentVars, workVars, commands, faults>>

Images == Releases \cup {Repo}

SnapshotSteps == <<"build", "copy", "move", "recordSnapshot">>
FlipSteps == <<"flip", "recordActivation">>
RestartSteps == <<"plist", "bootout", "exitWait", "bootstrap">>

\* (Mutant first: the service is restarted before the release is current.)
DeployStepsRestartFirst ==
  SnapshotSteps \o <<"preflight", "guard", "canary">> \o RestartSteps \o FlipSteps
    \o <<"postflight", "recordDeploy">>

DeploySteps ==
  SnapshotSteps \o <<"preflight", "guard", "canary">> \o FlipSteps \o RestartSteps
    \o <<"postflight", "recordDeploy">>

\* (Mutant first: a rollback that leaves the newer config in place.)
RollbackStepsKeepingConfig ==
  <<"preflight", "guard", "canary">> \o FlipSteps \o RestartSteps
    \o <<"postflight", "recordRollback">>

RollbackSteps ==
  <<"preflight", "guard", "canary", "backup", "replace", "recordRestore">>
    \o FlipSteps \o RestartSteps \o <<"postflight", "recordRollback">>

StepsOf == [snapshot |-> SnapshotSteps, activate |-> FlipSteps, install |-> RestartSteps,
            deploy |-> DeploySteps, rollback |-> RollbackSteps]

AllSteps == {"idle"} \cup UNION {ToSet(StepsOf[c]) : c \in DOMAIN StepsOf}

Nested == {"rollingBack", "compensating"}

Script == StepsOf[IF mode \in Nested THEN "rollback" ELSE mode]

\* The release the files and the restart are about: a nested rollback is
\* about the one that was current before.
Target == IF mode \in Nested THEN previous ELSE release

NoInspection ==
  [active |-> [t \in Threads |-> Nobody], state |-> [r \in Runs |-> "unknown"],
   dead |-> {}, pending |-> FALSE, errors |-> FALSE]

NoOrigin == [current |-> None, config |-> 1, plist |-> "repo", image |-> None]

TypeOK ==
  /\ FilesTypeOK
  /\ mode \in DOMAIN StepsOf \cup Nested \cup {"none"}
  /\ step \in AllSteps
  /\ (mode = "none") <=> (step = "idle")
  /\ release \in Releases \cup {None} /\ previous \in Releases \cup {None}
  /\ before \in Inspection /\ after \in Inspection /\ windowOver \in BOOLEAN
  /\ verdict \in {"none", "safe", "waiting", "rolled-back",
                  "failed", "compensated", "unrepaired"}
  /\ force \in BOOLEAN /\ blind \in BOOLEAN /\ risked \in BOOLEAN
  /\ plist \in {"repo", "current"} /\ loaded \in BOOLEAN
  /\ daemon \in [image : Images, config : Configs] \cup {None}
  /\ leaving \subseteq Images
  /\ active \in [Threads -> Runs \cup {Nobody}]
  /\ runState \in [Runs -> {"unborn", "orphaned"} \cup (RunState \ {"unknown"})]
  /\ dead \subseteq Runs /\ enabled \in BOOLEAN
  /\ commands \in 0..MaxCommands /\ faults \in 0..MaxFaults

Init ==
  /\ FilesInit
  /\ mode = "none" /\ step = "idle" /\ release = None /\ previous = None
  /\ before = NoInspection /\ after = NoInspection /\ windowOver = FALSE
  /\ verdict = "none" /\ force = FALSE /\ origin = NoOrigin
  /\ plist = (IF current = None THEN "repo" ELSE "current")
  /\ daemon = [image |-> IF current = None THEN Repo ELSE current, config |-> 1]
  /\ loaded = TRUE /\ leaving = {} /\ blind = FALSE /\ risked = FALSE
  /\ active = [t \in Threads |-> Nobody]
  /\ runState = [r \in Runs |-> "unborn"]
  /\ dead = {}
  /\ enabled \in BOOLEAN
  /\ commands = 0 /\ faults = 0

-----------------------------------------------------------------------------
(* How a command moves from step to step.                                  *)

\* (Mutant first: a command ends without being cleared.)
ForgetKeepingMode ==
  /\ mode' = mode /\ step' = "idle" /\ release' = None /\ previous' = None
  /\ before' = NoInspection /\ after' = NoInspection /\ windowOver' = FALSE
  /\ verdict' = "none" /\ force' = FALSE /\ origin' = NoOrigin

Forget ==
  /\ mode' = "none" /\ step' = "idle" /\ release' = None /\ previous' = None
  /\ before' = NoInspection /\ after' = NoInspection /\ windowOver' = FALSE
  /\ verdict' = "none" /\ force' = FALSE /\ origin' = NoOrigin

Advance ==
  LET i == CHOOSE j \in DOMAIN Script : Script[j] = step IN
  IF i = Len(Script)
    THEN Forget
    ELSE /\ step' = Script[i + 1]
         /\ UNCHANGED <<mode, release, previous, before, after, windowOver,
                        verdict, force, origin>>

\* The transition of a deploy is over; runReleaseDeployCommand records it.
Conclude(v) ==
  /\ verdict' = v /\ mode' = "deploy" /\ step' = "recordDeploy"
  /\ UNCHANGED <<release, previous, before, after, windowOver, force, origin>>

RollBack(m) ==
  /\ mode' = m /\ step' = "preflight"
  /\ UNCHANGED <<release, previous, before, after, windowOver, verdict, force, origin>>

\* The context holds an activation only once activateRelease has returned.
AfterActivation == ToSet(RestartSteps) \cup {"postflight"}

\* (Mutant first: a failed restart is not compensated.)
FailStepUncompensated ==
  CASE mode \in Nested -> Conclude("unrepaired")
    [] mode = "deploy" /\ step \notin ToSet(SnapshotSteps) \cup {"recordDeploy"} ->
         Conclude("failed")
    [] OTHER -> Forget

\* onError of the transition's states.  Outside the transition the command
\* throws and is over.
FailStep ==
  CASE mode \in Nested -> Conclude("unrepaired")
    [] mode = "deploy" /\ step \in AfterActivation /\ previous # None ->
         RollBack("compensating")
    [] mode = "deploy" /\ step \in AfterActivation /\ previous = None ->
         Conclude("failed")
    [] mode = "deploy" /\ step \in {"preflight", "guard", "canary"} \cup ToSet(FlipSteps) ->
         Conclude("failed")
    [] OTHER -> Forget

CountFault == faults < MaxFaults /\ faults' = faults + 1

-----------------------------------------------------------------------------
(* Commands.  One runs at a time: an operator at a terminal.               *)

Begin(c, r) ==
  /\ step = "idle"
  /\ commands < MaxCommands /\ commands' = commands + 1
  /\ mode' = c /\ release' = r
  /\ step' = StepsOf[c][1]
  /\ force' \in BOOLEAN /\ (force' => c \in {"install", "deploy", "rollback"})
  /\ origin' = [current |-> current, config |-> config, plist |-> plist,
                image |-> IF daemon = None THEN None ELSE daemon.image]
  /\ UNCHANGED <<fileVars, previous, before, after, windowOver, verdict,
                 agentVars, workVars, faults>>

\* A step that leaves the files, the agent and the inspections alone.
Pass ==
  /\ step \in {"build", "guard", "canary"}
  /\ step = "canary" => Resolvable(Target)
  /\ Advance
  /\ UNCHANGED <<fileVars, agentVars, workVars, faults>>

\* The error of a failed step: the build or the guard refuses, the doctor of
\* the canary exits with an error, a file or launchctl command fails.  A ps that
\* fails is no error to the wait (WaitForExit).
StepFails ==
  /\ step \notin {"idle", "exitWait"}
  /\ CountFault
  /\ FailStep
  /\ IF step \in {"move", "recordSnapshot"}
       THEN RemoveBundle(release)
       ELSE UNCHANGED fileVars
  /\ UNCHANGED <<agentVars, workVars>>

\* The target does not resolve: no ledger entry, or no complete bundle.
Unresolved ==
  /\ step \in {"canary", "backup", "flip"}
  /\ ~Resolvable(Target)
  /\ FailStep
  /\ UNCHANGED <<fileVars, agentVars, workVars, faults>>

\* The command dies with its terminal.
CommandDies ==
  /\ step # "idle"
  /\ CountFault
  /\ Forget
  /\ UNCHANGED <<fileVars, agentVars, workVars>>

-----------------------------------------------------------------------------
(* createReleaseSnapshot.                                                  *)

\* (Mutant first: the cleanup removes a bundle whoever made it.)
CopyRemovingAny ==
  /\ step = "copy"
  /\ IF MayReserve(release) THEN ReserveBundle(release) /\ Advance
                            ELSE RemoveBundle(release) /\ FailStep
  /\ UNCHANGED <<agentVars, workVars, faults>>

\* Only a directory this snapshot made (releasePathOwned) is ever removed.
Copy ==
  /\ step = "copy"
  /\ IF MayReserve(release) THEN ReserveBundle(release) /\ Advance
                            ELSE UNCHANGED fileVars /\ FailStep
  /\ UNCHANGED <<agentVars, workVars, faults>>

Move ==
  /\ step = "move"
  /\ CompleteBundle(release)
  /\ Advance
  /\ UNCHANGED <<agentVars, workVars, faults>>

LedgerEvent ==
  CASE step = "recordSnapshot" -> "snapshot"
    [] step = "recordActivation" -> "activate"
    [] step = "recordRestore" -> "config-restore"
    [] step = "recordDeploy" -> "deploy"
    [] step = "recordRollback" /\ mode \in Nested -> "automatic-rollback"
    [] OTHER -> "rollback"

Safety == ClassifyDeploySafety(enabled, before, after, windowOver)

\* rollbackRelease and rollbackAfterMutationFailure refuse a rollback whose
\* own postflight is bad.  A rollback of the operator's only reports it.
AfterRollback ==
  \/ mode \notin Nested /\ Advance
  \/ /\ mode \in Nested
     /\ IF Safety \in {"unsafe", "unknown"} THEN Conclude("unrepaired")
        ELSE Conclude(IF mode = "compensating" THEN "compensated" ELSE "rolled-back")

Record ==
  /\ step \in {"recordSnapshot", "recordActivation", "recordRestore",
              "recordDeploy", "recordRollback"}
  /\ AppendLedger(LedgerEvent, Target)
  /\ IF step = "recordRollback" THEN AfterRollback ELSE Advance
  /\ UNCHANGED <<agentVars, workVars, faults>>

-----------------------------------------------------------------------------
(* backupAndRestoreReleaseConfig and activateRelease.                      *)

Backup ==
  /\ step = "backup" /\ Resolvable(Target)
  /\ BackupConfig
  /\ Advance
  /\ UNCHANGED <<agentVars, workVars, faults>>

Replace ==
  /\ step = "replace"
  /\ ReplaceConfig(Target)
  /\ Advance
  /\ UNCHANGED <<agentVars, workVars, faults>>

\* readCurrentReleaseId, then the rename of a new symlink over the old one.
Flip ==
  /\ step = "flip" /\ Resolvable(Target)
  /\ FlipCurrent(Target)
  /\ IF mode = "deploy"
       THEN /\ previous' = current /\ step' = "recordActivation"
            /\ UNCHANGED <<mode, release, before, after, windowOver, verdict, force, origin>>
       ELSE Advance
  /\ UNCHANGED <<agentVars, workVars, faults>>

-----------------------------------------------------------------------------
(* The LaunchAgent.                                                        *)

StartImage == IF plist = "current" THEN current ELSE Repo

Started == [image |-> StartImage, config |-> config]

\* Runs whose process has exited keep their lease for the rest of its TTL.
Orphan(rs) ==
  runState' = [r \in Runs |-> IF r \in rs /\ runState[r] = "running"
                                THEN "orphaned" ELSE runState[r]]

\* resolveLaunchAgentEntrypoint: releases/current if there is one.
WritePlist ==
  /\ step = "plist"
  /\ plist' = IF current = None THEN "repo" ELSE "current"
  /\ Advance
  /\ UNCHANGED <<fileVars, loaded, daemon, leaving, blind, risked, workVars, faults>>

\* startLaunchAgent with restart: bootoutLaunchAgent when it is loaded.
Bootout ==
  /\ step = "bootout"
  /\ loaded' = FALSE /\ daemon' = None
  /\ leaving' = IF daemon = None THEN leaving ELSE leaving \cup {daemon.image}
  /\ Advance
  /\ UNCHANGED <<fileVars, plist, blind, risked, workVars, faults>>

\* (Mutant first: the start does not wait for the old process.)
WaitForNothing ==
  /\ step = "exitWait"
  /\ Advance
  /\ UNCHANGED <<fileVars, agentVars, workVars, faults>>

\* waitForDaemonProcessesToExit: nothing is left, or --force, or ps fails, which
\* looks like nothing being left (listProcesses).
WaitForExit ==
  /\ step = "exitWait"
  /\ \/ (leaving = {} \/ force) /\ blind' = FALSE /\ UNCHANGED faults
     \/ blind' = TRUE /\ CountFault
  /\ Advance
  /\ UNCHANGED <<fileVars, plist, loaded, daemon, leaving, risked, workVars>>

\* Five seconds have passed and a process is still there.
ExitTooSlow ==
  /\ step = "exitWait"
  /\ leaving # {} /\ ~force
  /\ FailStep
  /\ UNCHANGED <<fileVars, agentVars, workVars, faults>>

\* launchctl bootstrap and kickstart; a kickstart may fail after the
\* bootstrap has started the process.
Bootstrap ==
  /\ step = "bootstrap"
  /\ loaded' = TRUE /\ daemon' = Started
  /\ risked' = (risked \/ (leaving # {} /\ (force \/ blind)))
  /\ blind' = FALSE
  /\ \/ Advance /\ UNCHANGED faults
     \/ CountFault /\ FailStep
  /\ UNCHANGED <<fileVars, plist, leaving, workVars>>

\* A process that was told to go has drained and exited.
Exits(image) ==
  /\ image \in leaving
  /\ leaving' = leaving \ {image}
  /\ \E rs \in (IF daemon = None /\ leaving' = {} THEN {Runs} ELSE SUBSET Runs) : Orphan(rs)
  /\ UNCHANGED <<fileVars, commandVars, plist, loaded, daemon, blind, risked,
                 active, dead, enabled, faults>>

\* The daemon crashes; KeepAlive starts the plist's program again.
DaemonCrashes ==
  /\ daemon # None
  /\ CountFault
  /\ daemon' = None
  /\ \E rs \in (IF leaving = {} THEN {Runs} ELSE SUBSET Runs) : Orphan(rs)
  /\ UNCHANGED <<fileVars, commandVars, plist, loaded, leaving, blind, risked,
                 active, dead, enabled>>

KeptAlive ==
  /\ loaded /\ daemon = None
  /\ daemon' = Started
  /\ UNCHANGED <<fileVars, commandVars, plist, loaded, leaving, blind, risked, workVars,
                 faults>>

-----------------------------------------------------------------------------
(* Inspections.                                                            *)

\* An orphaned run still has a live lease.  Jobs that were delivered and not
\* acknowledged are pending.
Inspected ==
  [active |-> active,
   state |-> [r \in Runs |-> CASE runState[r] = "unborn" -> "unknown"
                               [] runState[r] = "orphaned" -> "running"
                               [] OTHER -> runState[r]],
   dead |-> dead,
   pending |-> \E r \in Runs : runState[r] \in {"running", "orphaned", "lapsed"},
   errors |-> FALSE]

\* With run control disabled an inspection is empty.
Inspect == IF enabled THEN Inspected ELSE NoInspection

Preflight ==
  /\ step = "preflight"
  /\ before' = Inspect
  /\ step' = "guard"
  /\ UNCHANGED <<fileVars, mode, release, previous, after, windowOver, verdict,
                 force, origin, agentVars, workVars, faults>>

\* shouldRollback, failedWithoutRollback, or success.
Classified(safety) ==
  IF safety \in {"unsafe", "unknown"} /\ previous # None
    THEN verdict' = verdict /\ mode' = "rollingBack" /\ step' = "preflight"
    ELSE /\ verdict' = IF safety \in {"unsafe", "unknown"} THEN "failed" ELSE safety
         /\ mode' = mode /\ step' = "recordDeploy"

Postflight ==
  /\ step = "postflight"
  /\ \E errors \in BOOLEAN :
       /\ errors => faults < MaxFaults
       /\ after' = [Inspect EXCEPT !.errors = errors]
       /\ faults' = IF errors THEN faults + 1 ELSE faults
  /\ windowOver' \in BOOLEAN
  /\ IF mode = "deploy"
       THEN Classified(ClassifyDeploySafety(enabled, before, after', windowOver'))
       ELSE step' = "recordRollback" /\ UNCHANGED <<mode, verdict>>
  /\ UNCHANGED <<fileVars, release, previous, before, force, origin, agentVars, workVars>>

-----------------------------------------------------------------------------
(* Meanwhile: the operator between commands, and the runs.                 *)

OperatorEdits ==
  /\ step = "idle"
  /\ \E v \in Configs : EditConfig(v)
  /\ UNCHANGED <<commandVars, agentVars, workVars, faults>>

SetRun(r, s) ==
  /\ runState' = [runState EXCEPT ![r] = s]
  /\ UNCHANGED <<fileVars, commandVars, agentVars, enabled, faults>>

Prompted(t, r) ==
  /\ enabled /\ daemon # None /\ active[t] = Nobody /\ runState[r] = "unborn"
  /\ active' = [active EXCEPT ![t] = r]
  /\ SetRun(r, "queued") /\ UNCHANGED dead

Claimed(r) ==
  /\ daemon # None /\ runState[r] \in {"queued", "lapsed"}
  /\ SetRun(r, "running") /\ UNCHANGED <<active, dead>>

LeaseLapses(r) ==
  /\ runState[r] = "orphaned"
  /\ SetRun(r, "lapsed") /\ UNCHANGED <<active, dead>>

\* markTerminal, and one command later clearActiveIfMatches.
Settles(r) ==
  /\ runState[r] = "running" /\ (daemon # None \/ leaving # {})
  /\ SetRun(r, "terminal") /\ UNCHANGED <<active, dead>>

Unpointed(t) ==
  /\ active[t] # Nobody /\ runState[active[t]] = "terminal"
  /\ active' = [active EXCEPT ![t] = Nobody]
  /\ UNCHANGED <<fileVars, commandVars, agentVars, runState, dead, enabled, faults>>

\* recordRetryLater: the attempts of a run are used up.
DeadLettered(t) ==
  /\ daemon # None /\ active[t] # Nobody /\ runState[active[t]] = "running"
  /\ dead' = dead \cup {active[t]}
  /\ active' = [active EXCEPT ![t] = Nobody]
  /\ SetRun(active[t], "terminal")

RunsGoOn ==
  \/ \E r \in Runs : Claimed(r) \/ LeaseLapses(r) \/ Settles(r)
  \/ \E t \in Threads, r \in Runs : Prompted(t, r)
  \/ \E t \in Threads : Unpointed(t) \/ DeadLettered(t)

CommandSteps ==
  \/ Pass \/ StepFails \/ Unresolved \/ CommandDies
  \/ Copy \/ Move \/ Record \/ Backup \/ Replace \/ Flip
  \/ WritePlist \/ Bootout \/ WaitForExit \/ ExitTooSlow \/ Bootstrap
  \/ Preflight \/ Postflight

AgentSteps == DaemonCrashes \/ KeptAlive \/ \E image \in Images : Exits(image)

Next ==
  \/ \E c \in DOMAIN StepsOf, r \in Releases : Begin(c, r)
  \/ /\ CommandSteps \/ AgentSteps \/ OperatorEdits \/ RunsGoOn
     /\ UNCHANGED commands

Spec == Init /\ [][Next]_vars

-----------------------------------------------------------------------------
(* Properties.                                                             *)

\* Two daemons would be two bots on one Discord connection.  Unless an
\* operator forces it or ps fails at the wrong moment, a start waits until the
\* process that was booted out, by this command or by one that failed before
\* it, has exited (startLaunchAgent, waitForDaemonProcessesToExit).
OneDaemon == risked \/ daemon = None \/ leaving = {}

\* Whatever fails or dies on the way, releases/current names a release whose
\* bundle is complete and listed: the cleanup of a failed snapshot never
\* removes a bundle it did not make (createReleaseSnapshot).
CurrentIsRunnable == current # None => Resolvable(current)

\* A restore never destroys the operator's config file: the version it found
\* is still live or backed up, also when the command fails halfway
\* (backupAndRestoreReleaseConfig).
ConfigIsKept == step # "idle" => origin.config \in backups \cup {config}

\* A deploy that fails without having flipped releases/current leaves current,
\* config and plist as they were, and launchd keeps the process it had or, if
\* that crashed, one that it starts from them (the order of
\* releaseDeployTransitionMachine).
HarmlessUntilFlipped ==
  verdict = "failed" /\ current # release =>
    /\ current = origin.current /\ config = origin.config /\ plist = origin.plist
    /\ daemon # None => daemon.image \in {origin.image, StartImage}

\* A deploy that fails after it flipped releases/current has tried to roll
\* back, if there was a release to go back to.  The one exception is a flip
\* whose ledger entry could not be appended: activateRelease then fails with
\* the new release current, and the transition knows of no activation.
FlippedDeployIsCompensated ==
  verdict = "failed" /\ current = release /\ previous # None =>
    release \notin activated

\* A completed automatic rollback restores all of the previous release: the
\* symlink, its config and a daemon that runs both (runReleaseRollbackCommand).
RollbackRestores ==
  verdict \in {"rolled-back", "compensated"} =>
    /\ current = previous /\ config = savedConfig[previous]
    /\ loaded
    /\ daemon # None => daemon = [image |-> previous, config |-> savedConfig[previous]]

\* A deploy is reported good only when its release is what launchd keeps
\* running, and not merely what the symlink names.
GoodDeployRuns ==
  verdict \in {"safe", "waiting"} =>
    /\ current = release /\ loaded /\ plist = "current"
    /\ daemon # None => daemon.image = release

\* A deploy is reported good only if no run that was active before the
\* restart had lost its thread or been dead-lettered by the time of the
\* postflight, and no other run had died (classifyDeploySafety).
GoodDeployLostNothing ==
  verdict \in {"safe", "waiting"} =>
    /\ \A t \in Busy(before) : /\ after.active[t] = before.active[t]
                               /\ after.state[after.active[t]] \in {"queued", "running", "lapsed"}
    /\ after.dead \subseteq before.dead
=============================================================================
