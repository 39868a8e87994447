-------------------------- MODULE ReleaseDeployProofs --------------------------
(***************************************************************************)
(* What holds of the release commands for any releases, runs, threads,     *)
(* number of commands and faults: one daemon, a current release that can   *)
(* run, a config that is kept, and what a deploy's verdict promises.       *)
(***************************************************************************)
EXTENDS ReleaseDeploy, TLAPS

-----------------------------------------------------------------------------
(***************************************************************************)
(* The invariant, in parts.  A command is at a step of its list, and what  *)
(* the steps before have done still holds.                                 *)
(***************************************************************************)

\* The steps after the flip, after the plist is written, after the start.
PostFlip == {"recordActivation", "plist", "bootout", "exitWait", "bootstrap",
             "postflight", "recordRollback"}
PostPlist == {"bootout", "exitWait", "bootstrap", "postflight", "recordRollback"}
PostStart == {"postflight", "recordRollback"}

\* The steps of a deploy that leave everything but its own bundle alone.
PreFlip == {"build", "copy", "move", "recordSnapshot", "preflight", "guard", "canary", "flip"}

SnapshotNames == {"build", "copy", "move", "recordSnapshot"}
RestartNames == {"plist", "bootout", "exitWait", "bootstrap"}
DeployNames ==
  SnapshotNames \cup RestartNames
    \cup {"preflight", "guard", "canary", "flip", "recordActivation", "postflight", "recordDeploy"}
RollbackNames ==
  RestartNames \cup {"preflight", "guard", "canary", "backup", "replace", "recordRestore",
                     "flip", "recordActivation", "postflight", "recordRollback"}

\* A command is at a step of its own.
OnScript ==
  /\ mode \in {"none", "snapshot", "activate", "install", "deploy", "rollback"} \cup Nested
  /\ mode = "none" => step = "idle"
  /\ mode = "snapshot" => step \in SnapshotNames
  /\ mode = "activate" => step \in {"flip", "recordActivation"}
  /\ mode = "install" => step \in RestartNames
  /\ mode = "deploy" => step \in DeployNames
  /\ mode \in Nested \cup {"rollback"} => step \in RollbackNames

\* A deploy has a verdict when its transition is over, and something to go back
\* to when it rolls back.
Verdicts ==
  /\ verdict # "none" <=> step = "recordDeploy"
  /\ mode # "none" => release \in Releases
  /\ mode \in Nested => previous \in Releases
  /\ mode \notin Nested \cup {"deploy"} => previous = None
  /\ mode = "deploy" /\ step \in PreFlip => previous = None

\* What the ledger lists is complete, and current is listed.
Ledger ==
  /\ \A r \in listed : bundle[r] = "complete"
  /\ \A r \in Releases : bundle[r] # "absent" => savedConfig[r] \in Configs
  /\ activated \subseteq listed
  /\ current # None => current \in listed

\* A release that a snapshot is making is not in the ledger.
Fresh ==
  /\ step \in {"move", "recordSnapshot"} => release \notin listed
  /\ step = "move" => bundle[release] = "reserved"
  /\ step = "recordSnapshot" => bundle[release] = "complete"
  /\ mode = "deploy" /\ step \in {"preflight", "guard", "canary", "flip", "recordActivation"} =>
       release \notin activated

\* The steps after the flip are about the current release, and the steps after
\* the start about what launchd keeps.
Restarted ==
  /\ plist = "current" => current # None
  /\ mode # "install" /\ step \in PostFlip => current = Target /\ current # None
  /\ mode # "install" /\ step \in PostPlist => plist = "current"
  /\ mode # "install" /\ step \in PostStart =>
       loaded /\ (daemon # None => daemon = Started)

\* The config of the target is live after it was restored; what it replaced is
\* backed up.
Restored ==
  /\ step = "replace" => config \in backups /\ Target \in listed
  /\ mode \in Nested /\ step \in PostFlip \cup {"recordRestore", "flip"} =>
       config = savedConfig[previous]
  /\ ConfigIsKept

\* A loaded agent has nobody leaving, nor has a start that waited and could see.
Alone ==
  /\ OneDaemon
  /\ loaded /\ leaving # {} => risked
  /\ step = "bootstrap" => leaving = {} \/ force \/ blind

\* Until its flip a deploy has changed nothing.
Untouched ==
  mode = "deploy" /\ step \in PreFlip =>
    /\ current = origin.current /\ config = origin.config /\ plist = origin.plist
    /\ daemon # None => daemon.image \in {origin.image, StartImage}

\* A deploy that flipped current and ended well has left the plist on current.
Kept ==
  verdict \in {"safe", "waiting", "rolled-back", "compensated"} =>
    plist = "current" /\ current # None

\* What the verdict promises.
Promised ==
  /\ HarmlessUntilFlipped /\ FlippedDeployIsCompensated
  /\ Kept /\ RollbackRestores /\ GoodDeployRuns /\ GoodDeployLostNothing

ReleaseInv ==
  /\ TypeOK /\ OnScript /\ Verdicts /\ Ledger /\ Fresh /\ Restarted /\ Restored
  /\ Alone /\ Untouched /\ Promised

-----------------------------------------------------------------------------
(***************************************************************************)
(* How the lists order the steps.                                          *)
(***************************************************************************)

\* In a command of mode m, step t comes next after step s.
Follows(m, s, t) ==
  \/ s = "build" /\ t = "copy"
  \/ s = "copy" /\ t = "move"
  \/ s = "move" /\ t = "recordSnapshot"
  \/ s = "recordSnapshot" /\ t = "preflight" /\ m = "deploy"
  \/ s = "preflight" /\ t = "guard"
  \/ s = "guard" /\ t = "canary"
  \/ s = "canary" /\ t = "flip" /\ m = "deploy"
  \/ s = "canary" /\ t = "backup" /\ m # "deploy"
  \/ s = "backup" /\ t = "replace"
  \/ s = "replace" /\ t = "recordRestore"
  \/ s = "recordRestore" /\ t = "flip"
  \/ s = "flip" /\ t = "recordActivation"
  \/ s = "recordActivation" /\ t = "plist"
  \/ s = "plist" /\ t = "bootout"
  \/ s = "bootout" /\ t = "exitWait"
  \/ s = "exitWait" /\ t = "bootstrap"
  \/ s = "bootstrap" /\ t = "postflight"
  \/ s = "postflight" /\ t = "recordDeploy" /\ m = "deploy"
  \/ s = "postflight" /\ t = "recordRollback" /\ m # "deploy"

\* The steps of a deploy, one by one.
LEMMA DeployList ==
  /\ Len(DeploySteps) = 15 /\ DOMAIN DeploySteps = 1..15
  /\ DeploySteps[1] = "build" /\ DeploySteps[2] = "copy" /\ DeploySteps[3] = "move"
  /\ DeploySteps[4] = "recordSnapshot" /\ DeploySteps[5] = "preflight"
  /\ DeploySteps[6] = "guard" /\ DeploySteps[7] = "canary" /\ DeploySteps[8] = "flip"
  /\ DeploySteps[9] = "recordActivation" /\ DeploySteps[10] = "plist"
  /\ DeploySteps[11] = "bootout" /\ DeploySteps[12] = "exitWait"
  /\ DeploySteps[13] = "bootstrap" /\ DeploySteps[14] = "postflight"
  /\ DeploySteps[15] = "recordDeploy"
  BY DEF DeploySteps, SnapshotSteps, FlipSteps, RestartSteps

\* The steps of a rollback, one by one.
LEMMA RollbackList ==
  /\ Len(RollbackSteps) = 14 /\ DOMAIN RollbackSteps = 1..14
  /\ RollbackSteps[1] = "preflight" /\ RollbackSteps[2] = "guard"
  /\ RollbackSteps[3] = "canary" /\ RollbackSteps[4] = "backup"
  /\ RollbackSteps[5] = "replace" /\ RollbackSteps[6] = "recordRestore"
  /\ RollbackSteps[7] = "flip" /\ RollbackSteps[8] = "recordActivation"
  /\ RollbackSteps[9] = "plist" /\ RollbackSteps[10] = "bootout"
  /\ RollbackSteps[11] = "exitWait" /\ RollbackSteps[12] = "bootstrap"
  /\ RollbackSteps[13] = "postflight" /\ RollbackSteps[14] = "recordRollback"
  BY DEF RollbackSteps, FlipSteps, RestartSteps

\* The steps of the short commands.
LEMMA ShortLists ==
  /\ Len(SnapshotSteps) = 4 /\ DOMAIN SnapshotSteps = 1..4
  /\ SnapshotSteps[1] = "build" /\ SnapshotSteps[2] = "copy"
  /\ SnapshotSteps[3] = "move" /\ SnapshotSteps[4] = "recordSnapshot"
  /\ Len(FlipSteps) = 2 /\ DOMAIN FlipSteps = 1..2
  /\ FlipSteps[1] = "flip" /\ FlipSteps[2] = "recordActivation"
  /\ Len(RestartSteps) = 4 /\ DOMAIN RestartSteps = 1..4
  /\ RestartSteps[1] = "plist" /\ RestartSteps[2] = "bootout"
  /\ RestartSteps[3] = "exitWait" /\ RestartSteps[4] = "bootstrap"
  BY DEF SnapshotSteps, FlipSteps, RestartSteps

\* The commands and their lists.
LEMMA Commands ==
  /\ DOMAIN StepsOf = {"snapshot", "activate", "install", "deploy", "rollback"}
  /\ StepsOf["snapshot"] = SnapshotSteps /\ StepsOf["activate"] = FlipSteps
  /\ StepsOf["install"] = RestartSteps /\ StepsOf["deploy"] = DeploySteps
  /\ StepsOf["rollback"] = RollbackSteps
  BY DEF StepsOf

\* A command that moves on ends, or is at the next step of its list.
LEMMA AdvanceOrder ==
  ASSUME OnScript, step # "idle", Advance
  PROVE  \/ Forget
         \/ /\ Follows(mode, step, step') /\ OnScript'
            /\ UNCHANGED <<mode, release, previous, before, after, windowOver,
                           verdict, force, origin>>
<1> DEFINE i == CHOOSE j \in DOMAIN Script : Script[j] = step
<1>1. /\ i = Len(Script) => Forget
      /\ i # Len(Script) =>
           /\ step' = Script[i + 1]
           /\ UNCHANGED <<mode, release, previous, before, after, windowOver,
                          verdict, force, origin>>
  BY DEF Advance
<1>2. CASE mode = "deploy"
  <2>1. Script = DeploySteps
    BY <1>2, Commands DEF Script, Nested
  <2>2. \E j \in DOMAIN Script : Script[j] = step
    BY <1>2, <2>1, DeployList DEF OnScript, DeployNames, SnapshotNames, RestartNames
  <2>3. i \in 1..15 /\ DeploySteps[i] = step
    BY <2>1, <2>2, DeployList
  <2> HIDE DEF i
  <2>4. i # 15 => Follows(mode, step, DeploySteps[i + 1])
    BY <1>2, <2>3, DeployList DEF Follows
  <2>5. i # 15 => DeploySteps[i + 1] \in DeployNames
    BY <2>3, DeployList DEF DeployNames, SnapshotNames, RestartNames
  <2> QED
    BY <1>1, <1>2, <2>1, <2>4, <2>5, DeployList DEF OnScript, Nested
<1>3. CASE mode \in Nested \cup {"rollback"}
  <2>1. Script = RollbackSteps
    BY <1>3, Commands DEF Script, Nested
  <2>2. \E j \in DOMAIN Script : Script[j] = step
    BY <1>3, <2>1, RollbackList DEF OnScript, RollbackNames, RestartNames
  <2>3. i \in 1..14 /\ RollbackSteps[i] = step
    BY <2>1, <2>2, RollbackList
  <2> HIDE DEF i
  <2>4. i # 14 => Follows(mode, step, RollbackSteps[i + 1])
    BY <1>3, <2>3, RollbackList DEF Follows, Nested
  <2>5. i # 14 => RollbackSteps[i + 1] \in RollbackNames
    BY <2>3, RollbackList DEF RollbackNames, RestartNames
  <2> QED
    BY <1>1, <1>3, <2>1, <2>4, <2>5, RollbackList DEF OnScript, Nested
<1>4. CASE mode = "snapshot"
  <2>1. Script = SnapshotSteps
    BY <1>4, Commands DEF Script, Nested
  <2>2. \E j \in DOMAIN Script : Script[j] = step
    BY <1>4, <2>1, ShortLists DEF OnScript, SnapshotNames
  <2>3. i \in 1..4 /\ SnapshotSteps[i] = step
    BY <2>1, <2>2, ShortLists
  <2> HIDE DEF i
  <2>4. i # 4 => Follows(mode, step, SnapshotSteps[i + 1]) /\ SnapshotSteps[i + 1] \in SnapshotNames
    BY <1>4, <2>3, ShortLists DEF Follows, SnapshotNames
  <2> QED
    BY <1>1, <1>4, <2>1, <2>4, ShortLists DEF OnScript, Nested
<1>5. CASE mode = "activate"
  <2>1. Script = FlipSteps
    BY <1>5, Commands DEF Script, Nested
  <2>2. \E j \in DOMAIN Script : Script[j] = step
    BY <1>5, <2>1, ShortLists DEF OnScript
  <2>3. i \in 1..2 /\ FlipSteps[i] = step
    BY <2>1, <2>2, ShortLists
  <2> HIDE DEF i
  <2>4. i # 2 => Follows(mode, step, FlipSteps[i + 1]) /\ FlipSteps[i + 1] \in {"flip", "recordActivation"}
    BY <1>5, <2>3, ShortLists DEF Follows
  <2> QED
    BY <1>1, <1>5, <2>1, <2>4, ShortLists DEF OnScript, Nested
<1>6. CASE mode = "install"
  <2>1. Script = RestartSteps
    BY <1>6, Commands DEF Script, Nested
  <2>2. \E j \in DOMAIN Script : Script[j] = step
    BY <1>6, <2>1, ShortLists DEF OnScript, RestartNames
  <2>3. i \in 1..4 /\ RestartSteps[i] = step
    BY <2>1, <2>2, ShortLists
  <2> HIDE DEF i
  <2>4. i # 4 => Follows(mode, step, RestartSteps[i + 1]) /\ RestartSteps[i + 1] \in RestartNames
    BY <1>6, <2>3, ShortLists DEF Follows, RestartNames
  <2> QED
    BY <1>1, <1>6, <2>1, <2>4, ShortLists DEF OnScript, Nested
<1> QED
  BY <1>2, <1>3, <1>4, <1>5, <1>6 DEF OnScript, Nested

\* What the failure of a step does to the command.
LEMMA FailCases ==
  ASSUME OnScript, FailStep
  PROVE  \/ Forget
         \/ mode \in Nested /\ Conclude("unrepaired")
         \/ /\ mode = "deploy" /\ previous # None /\ RollBack("compensating")
            /\ step \in RestartNames \cup {"postflight"}
         \/ /\ mode = "deploy" /\ Conclude("failed")
            /\ \/ step \in {"preflight", "guard", "canary", "flip", "recordActivation"}
               \/ step \in RestartNames \cup {"postflight"} /\ previous = None
<1>1. AfterActivation = RestartNames \cup {"postflight"}
  BY ShortLists DEF AfterActivation, RestartNames, ToSet
<1>2. ToSet(FlipSteps) = {"flip", "recordActivation"}
  BY ShortLists DEF ToSet
<1> QED
  BY <1>1, <1>2 DEF FailStep

\* What the end of a rollback does to the command.
LEMMA RollbackCases ==
  ASSUME AfterRollback
  PROVE  \/ mode \notin Nested /\ Advance
         \/ /\ mode \in Nested
            /\ \E v \in {"unrepaired", "compensated", "rolled-back"} : Conclude(v)
  BY DEF AfterRollback

\* Two of the ledger's events are read back.
LEMMA LedgerEvents ==
  /\ step = "recordSnapshot" => LedgerEvent = "snapshot"
  /\ step = "recordActivation" => LedgerEvent = "activate"
  /\ step \in {"recordRestore", "recordDeploy", "recordRollback"} =>
       LedgerEvent \notin {"snapshot", "activate"}
  BY DEF LedgerEvent

\* What a postflight makes of a deploy or of a rollback.
LEMMA PostflightCases ==
  ASSUME Postflight
  PROVE  \/ /\ mode = "deploy" /\ mode' = mode /\ step' = "recordDeploy"
            /\ verdict' \in {"safe", "waiting"}
            /\ verdict' = ClassifyDeploySafety(enabled, before, after', windowOver')
         \/ /\ mode = "deploy" /\ previous # None
            /\ mode' = "rollingBack" /\ step' = "preflight" /\ verdict' = verdict
         \/ /\ mode = "deploy" /\ previous = None
            /\ mode' = mode /\ step' = "recordDeploy" /\ verdict' = "failed"
         \/ mode # "deploy" /\ step' = "recordRollback" /\ UNCHANGED <<mode, verdict>>
<1> DEFINE S == ClassifyDeploySafety(enabled, before, after', windowOver')
<1>1. CASE mode # "deploy"
  BY <1>1 DEF Postflight
<1>2. CASE mode = "deploy"
  <2>1. Classified(S)
    BY <1>2 DEF Postflight
  <2>2. S \in {"unknown", "unsafe", "waiting", "safe"}
    BY DEF ClassifyDeploySafety
  <2> HIDE DEF S
  <2>3. \/ S \notin {"unsafe", "unknown"} /\ verdict' = S /\ mode' = mode /\ step' = "recordDeploy"
        \/ previous # None /\ verdict' = verdict /\ mode' = "rollingBack" /\ step' = "preflight"
        \/ previous = None /\ verdict' = "failed" /\ mode' = mode /\ step' = "recordDeploy"
    BY <2>1 DEF Classified
  <2> QED
    BY <1>2, <2>2, <2>3 DEF S
<1> QED
  BY <1>1, <1>2

\* A command begins with the first step of its list.
LEMMA BeginOrder ==
  ASSUME NEW c \in DOMAIN StepsOf
  PROVE  /\ c \in {"snapshot", "activate", "install", "deploy", "rollback"}
         /\ c \in {"snapshot", "deploy"} => StepsOf[c][1] = "build"
         /\ c = "activate" => StepsOf[c][1] = "flip"
         /\ c = "install" => StepsOf[c][1] = "plist"
         /\ c = "rollback" => StepsOf[c][1] = "preflight"
  BY Commands, DeployList, RollbackList, ShortLists

\* Releases, the repository's build and None are told apart.
LEMMA Constants ==
  /\ None \notin Releases /\ Repo \notin Releases \cup {None}
  /\ MaxConfig \in Nat \ {0} /\ MaxCommands \in Nat /\ MaxFaults \in Nat
  /\ Nobody \notin Runs
  BY ReleaseFilesAssumption, DeploySafetyAssumption, ReleaseDeployAssumption

\* The empty inspection is an inspection.
LEMMA NothingInspected == NoInspection \in Inspection
  BY DEF NoInspection, Inspection, RunState

\* What is read of run control is an inspection.
LEMMA InspectOK == TypeOK => Inspect \in Inspection
<1> SUFFICES ASSUME TypeOK PROVE Inspect \in Inspection
  OBVIOUS
<1>2. Inspected \in Inspection
  <2>1. \A r \in Runs :
          (CASE runState[r] = "unborn" -> "unknown"
             [] runState[r] = "orphaned" -> "running"
             [] OTHER -> runState[r]) \in RunState
    BY DEF TypeOK, RunState
  <2>2. [r \in Runs |-> CASE runState[r] = "unborn" -> "unknown"
                          [] runState[r] = "orphaned" -> "running"
                          [] OTHER -> runState[r]] \in [Runs -> RunState]
    BY <2>1
  <2>3. (\E r \in Runs : runState[r] \in {"running", "orphaned", "lapsed"}) \in BOOLEAN
    OBVIOUS
  <2>4. active \in [Threads -> Runs \cup {Nobody}] /\ dead \in SUBSET Runs
    BY DEF TypeOK
  <2> QED
    BY <2>2, <2>3, <2>4 DEF Inspected, Inspection
<1> QED
  BY <1>2, NothingInspected DEF Inspect

\* What a postflight records, and the fault it may count.
LEMMA PostflightInspects ==
  ASSUME TypeOK, Postflight
  PROVE  /\ after' \in Inspection /\ windowOver' \in BOOLEAN /\ UNCHANGED before
         /\ faults' \in 0..MaxFaults
<1>1. PICK e \in BOOLEAN :
        /\ e => faults < MaxFaults
        /\ after' = [Inspect EXCEPT !.errors = e]
        /\ faults' = IF e THEN faults + 1 ELSE faults
  BY DEF Postflight
<1>2. \A i \in Inspection, x \in BOOLEAN : [i EXCEPT !.errors = x] \in Inspection
  BY DEF Inspection
<1>3. after' \in Inspection
  BY <1>1, <1>2, InspectOK
<1>4. faults \in 0..MaxFaults /\ MaxFaults \in Nat
  BY ReleaseDeployAssumption DEF TypeOK
<1>5. faults' \in 0..MaxFaults
  BY <1>1, <1>4
<1> QED
  BY <1>3, <1>5 DEF Postflight

\* What a postflight that is not bad says of two inspections
\* (classifyDeploySafety).
LEMMA ClassifiedGood ==
  ASSUME NEW b \in Inspection, NEW a \in Inspection, NEW w \in BOOLEAN,
         ClassifyDeploySafety(enabled, b, a, w) \in {"safe", "waiting"}
  PROVE  /\ \A t \in Busy(b) : /\ a.active[t] = b.active[t]
                              /\ a.state[a.active[t]] \in {"queued", "running", "lapsed"}
         /\ a.dead \subseteq b.dead
<1>1. {"unsafe", "unknown"} \cap Severities(b, a, w) = {}
  BY DEF ClassifyDeploySafety
<1>2. ASSUME NEW t \in Busy(b)
      PROVE  /\ a.active[t] = b.active[t]
             /\ a.state[a.active[t]] \in {"queued", "running", "lapsed"}
  <2>1. PreflightSeverity(b, a, t, w) \notin {"unsafe", "unknown"}
    BY <1>1 DEF Severities
  <2>2. a.active[t] = b.active[t] /\ a.state[a.active[t]] \notin {"unknown", "terminal"}
    BY <2>1 DEF PreflightSeverity
  <2>3. t \in Threads /\ b.active[t] \in Runs
    BY DEF Busy, Inspection
  <2>4. a.state[a.active[t]] \in RunState
    BY <2>2, <2>3 DEF Inspection
  <2> QED
    BY <2>2, <2>4 DEF RunState
<1>3. a.dead \subseteq b.dead
  BY <1>1 DEF Severities
<1> QED
  BY <1>2, <1>3

-----------------------------------------------------------------------------
(***************************************************************************)
(* Every step keeps the invariant, part by part.                           *)
(***************************************************************************)

\* What the runs do leaves everything but run control alone.
LEMMA RunsOnly ==
  ASSUME RunsGoOn
  PROVE  UNCHANGED <<fileVars, commandVars, agentVars, enabled, faults>>
  BY DEF RunsGoOn, Claimed, LeaseLapses, Settles, Prompted, Unpointed, DeadLettered, SetRun

\* TypeOK in parts, besides FilesTypeOK and the names of OnScript.
CommandOK ==
  /\ release \in Releases \cup {None} /\ previous \in Releases \cup {None}
  /\ before \in Inspection /\ after \in Inspection /\ windowOver \in BOOLEAN
  /\ verdict \in {"none", "safe", "waiting", "rolled-back",
                  "failed", "compensated", "unrepaired"}
  /\ force \in BOOLEAN

AgentOK ==
  /\ plist \in {"repo", "current"} /\ loaded \in BOOLEAN
  /\ daemon \in [image : Images, config : Configs] \cup {None}
  /\ leaving \subseteq Images
  /\ blind \in BOOLEAN /\ risked \in BOOLEAN

WorkOK ==
  /\ active \in [Threads -> Runs \cup {Nobody}]
  /\ runState \in [Runs -> {"unborn", "orphaned"} \cup (RunState \ {"unknown"})]
  /\ dead \subseteq Runs /\ enabled \in BOOLEAN
  /\ faults \in 0..MaxFaults

\* Every name of a step is in a list.
LEMMA StepNames ==
  /\ DeployNames \cup RollbackNames \cup {"idle"} \subseteq AllSteps
  /\ "idle" \notin DeployNames \cup RollbackNames
<1>1. DeployNames \subseteq ToSet(DeploySteps)
  BY DeployList DEF ToSet, DeployNames, SnapshotNames, RestartNames
<1>2. RollbackNames \subseteq ToSet(RollbackSteps)
  BY RollbackList DEF ToSet, RollbackNames, RestartNames
<1>3. ToSet(DeploySteps) \cup ToSet(RollbackSteps) \cup {"idle"} \subseteq AllSteps
  <2>1. "deploy" \in DOMAIN StepsOf /\ "rollback" \in DOMAIN StepsOf
    BY Commands
  <2>2. ToSet(StepsOf["deploy"]) \subseteq AllSteps /\ ToSet(StepsOf["rollback"]) \subseteq AllSteps
    BY <2>1 DEF AllSteps
  <2>3. "idle" \in AllSteps
    BY DEF AllSteps
  <2> QED
    BY <2>2, <2>3, Commands
<1>4. "idle" \notin DeployNames \cup RollbackNames
  BY DEF DeployNames, RollbackNames, SnapshotNames, RestartNames
<1> QED
  BY <1>1, <1>2, <1>3, <1>4

\* The parts make TypeOK, before a step and after it.
LEMMA TypeParts ==
  /\ FilesTypeOK /\ CommandOK /\ AgentOK /\ WorkOK /\ OnScript /\ commands \in 0..MaxCommands
       => TypeOK
  /\ FilesTypeOK' /\ CommandOK' /\ AgentOK' /\ WorkOK' /\ OnScript' /\ commands' \in 0..MaxCommands
       => TypeOK'
<1>1. OnScript => /\ mode \in DOMAIN StepsOf \cup Nested \cup {"none"}
                  /\ step \in AllSteps
                  /\ (mode = "none") <=> (step = "idle")
  BY Commands, StepNames DEF OnScript, DeployNames, RollbackNames, SnapshotNames, RestartNames, Nested
<1>2. OnScript' => /\ mode' \in DOMAIN StepsOf \cup Nested \cup {"none"}
                   /\ step' \in AllSteps
                   /\ (mode' = "none") <=> (step' = "idle")
  BY Commands, StepNames DEF OnScript, DeployNames, RollbackNames, SnapshotNames, RestartNames, Nested
<1> QED
  BY <1>1, <1>2 DEF TypeOK, CommandOK, AgentOK, WorkOK

\* Every step keeps the types of the files.
LEMMA FilesStep == ReleaseInv /\ [Next]_vars => FilesTypeOK'
<1> SUFFICES ASSUME ReleaseInv, [Next]_vars PROVE FilesTypeOK'
  OBVIOUS
<1> USE Constants DEF ReleaseInv, TypeOK, FilesTypeOK, OnScript, Verdicts, Ledger, Restored, Target, Nested,
      Forget, Conclude, RollBack, CountFault, fileVars, commandVars, agentVars, workVars
<1>1. ASSUME NEW c \in DOMAIN StepsOf, NEW r \in Releases, Begin(c, r) PROVE FilesTypeOK'
  BY <1>1, BeginOrder DEF Begin
<1>2. ASSUME Pass PROVE FilesTypeOK'
  BY <1>2, AdvanceOrder DEF Pass, Resolvable
<1>3. ASSUME StepFails PROVE FilesTypeOK'
  BY <1>3, FailCases DEF StepFails, RemoveBundle
<1>4. ASSUME Unresolved PROVE FilesTypeOK'
  BY <1>4, FailCases DEF Unresolved, Resolvable
<1>5. ASSUME CommandDies PROVE FilesTypeOK'
  BY <1>5 DEF CommandDies
<1>6. ASSUME Copy PROVE FilesTypeOK'
  BY <1>6, AdvanceOrder, FailCases DEF Copy, MayReserve, ReserveBundle
<1>7. ASSUME Move PROVE FilesTypeOK'
  BY <1>7, AdvanceOrder DEF Move, CompleteBundle
<1>8. ASSUME Record PROVE FilesTypeOK'
  BY <1>8, AdvanceOrder, RollbackCases, LedgerEvents DEF Record, AppendLedger
<1>9. ASSUME Backup PROVE FilesTypeOK'
  BY <1>9, AdvanceOrder DEF Backup, BackupConfig, Resolvable
<1>10. ASSUME Replace PROVE FilesTypeOK'
  BY <1>10, AdvanceOrder DEF Replace, ReplaceConfig
<1>11. ASSUME Flip PROVE FilesTypeOK'
  BY <1>11, AdvanceOrder DEF Flip, FlipCurrent, Resolvable
<1>12. ASSUME WritePlist PROVE FilesTypeOK'
  BY <1>12, AdvanceOrder DEF WritePlist
<1>13. ASSUME Bootout PROVE FilesTypeOK'
  BY <1>13, AdvanceOrder DEF Bootout
<1>14. ASSUME WaitForExit PROVE FilesTypeOK'
  BY <1>14, AdvanceOrder DEF WaitForExit
<1>15. ASSUME ExitTooSlow PROVE FilesTypeOK'
  BY <1>15, FailCases DEF ExitTooSlow
<1>16. ASSUME Bootstrap PROVE FilesTypeOK'
  BY <1>16, AdvanceOrder, FailCases DEF Bootstrap, Started
<1>17. ASSUME Preflight PROVE FilesTypeOK'
  BY <1>17 DEF Preflight
<1>18. ASSUME Postflight PROVE FilesTypeOK'
  BY <1>18, PostflightCases, PostflightInspects DEF Postflight
<1>19. ASSUME DaemonCrashes PROVE FilesTypeOK'
  BY <1>19 DEF DaemonCrashes, Orphan
<1>20. ASSUME KeptAlive PROVE FilesTypeOK'
  BY <1>20 DEF KeptAlive, Started
<1>21. ASSUME NEW image \in Images, Exits(image) PROVE FilesTypeOK'
  BY <1>21 DEF Exits, Orphan
<1>22. ASSUME OperatorEdits PROVE FilesTypeOK'
  BY <1>22 DEF OperatorEdits, EditConfig
<1>23. ASSUME RunsGoOn PROVE FilesTypeOK'
  BY <1>23, RunsOnly
<1>24. ASSUME UNCHANGED vars PROVE FilesTypeOK'
  BY <1>24 DEF vars
<1>25. QED
  BY <1>1, <1>2, <1>3, <1>4, <1>5, <1>6, <1>7, <1>8, <1>9, <1>10, <1>11, <1>12, <1>13, <1>14, <1>15, <1>16, <1>17, <1>18, <1>19, <1>20, <1>21, <1>22, <1>23, <1>24
    DEF Next, CommandSteps, AgentSteps

\* Every step keeps the types of the command.
LEMMA CommandStep == ReleaseInv /\ [Next]_vars => CommandOK'
<1> SUFFICES ASSUME ReleaseInv, [Next]_vars PROVE CommandOK'
  OBVIOUS
<1> USE Constants, NothingInspected, InspectOK DEF ReleaseInv, TypeOK, FilesTypeOK, CommandOK, OnScript, Verdicts,
      Forget, Conclude, RollBack, CountFault, fileVars, commandVars, agentVars, workVars
<1>1. ASSUME NEW c \in DOMAIN StepsOf, NEW r \in Releases, Begin(c, r) PROVE CommandOK'
  BY <1>1, BeginOrder DEF Begin
<1>2. ASSUME Pass PROVE CommandOK'
  BY <1>2, AdvanceOrder DEF Pass, Resolvable
<1>3. ASSUME StepFails PROVE CommandOK'
  BY <1>3, FailCases DEF StepFails, RemoveBundle
<1>4. ASSUME Unresolved PROVE CommandOK'
  BY <1>4, FailCases DEF Unresolved, Resolvable
<1>5. ASSUME CommandDies PROVE CommandOK'
  BY <1>5 DEF CommandDies
<1>6. ASSUME Copy PROVE CommandOK'
  BY <1>6, AdvanceOrder, FailCases DEF Copy, MayReserve, ReserveBundle
<1>7. ASSUME Move PROVE CommandOK'
  BY <1>7, AdvanceOrder DEF Move, CompleteBundle
<1>8. ASSUME Record PROVE CommandOK'
  BY <1>8, AdvanceOrder, RollbackCases, LedgerEvents DEF Record, AppendLedger
<1>9. ASSUME Backup PROVE CommandOK'
  BY <1>9, AdvanceOrder DEF Backup, BackupConfig, Resolvable
<1>10. ASSUME Replace PROVE CommandOK'
  BY <1>10, AdvanceOrder DEF Replace, ReplaceConfig
<1>11. ASSUME Flip PROVE CommandOK'
  BY <1>11, AdvanceOrder DEF Flip, FlipCurrent, Resolvable
<1>12. ASSUME WritePlist PROVE CommandOK'
  BY <1>12, AdvanceOrder DEF WritePlist
<1>13. ASSUME Bootout PROVE CommandOK'
  BY <1>13, AdvanceOrder DEF Bootout
<1>14. ASSUME WaitForExit PROVE CommandOK'
  BY <1>14, AdvanceOrder DEF WaitForExit
<1>15. ASSUME ExitTooSlow PROVE CommandOK'
  BY <1>15, FailCases DEF ExitTooSlow
<1>16. ASSUME Bootstrap PROVE CommandOK'
  BY <1>16, AdvanceOrder, FailCases DEF Bootstrap, Started
<1>17. ASSUME Preflight PROVE CommandOK'
  BY <1>17 DEF Preflight
<1>18. ASSUME Postflight PROVE CommandOK'
  BY <1>18, PostflightCases, PostflightInspects DEF Postflight
<1>19. ASSUME DaemonCrashes PROVE CommandOK'
  BY <1>19 DEF DaemonCrashes, Orphan
<1>20. ASSUME KeptAlive PROVE CommandOK'
  BY <1>20 DEF KeptAlive, Started
<1>21. ASSUME NEW image \in Images, Exits(image) PROVE CommandOK'
  BY <1>21 DEF Exits, Orphan
<1>22. ASSUME OperatorEdits PROVE CommandOK'
  BY <1>22 DEF OperatorEdits, EditConfig
<1>23. ASSUME RunsGoOn PROVE CommandOK'
  BY <1>23, RunsOnly
<1>24. ASSUME UNCHANGED vars PROVE CommandOK'
  BY <1>24 DEF vars
<1>25. QED
  BY <1>1, <1>2, <1>3, <1>4, <1>5, <1>6, <1>7, <1>8, <1>9, <1>10, <1>11, <1>12, <1>13, <1>14, <1>15, <1>16, <1>17, <1>18, <1>19, <1>20, <1>21, <1>22, <1>23, <1>24
    DEF Next, CommandSteps, AgentSteps

\* Every step keeps the types of the agent.
LEMMA AgentStep == ReleaseInv /\ [Next]_vars => AgentOK'
<1> SUFFICES ASSUME ReleaseInv, [Next]_vars PROVE AgentOK'
  OBVIOUS
<1> USE Constants DEF ReleaseInv, TypeOK, FilesTypeOK, Restarted, Ledger, AgentOK, OnScript, StartImage, Started, Images,
      Forget, Conclude, RollBack, CountFault, fileVars, commandVars, agentVars, workVars
<1>1. ASSUME NEW c \in DOMAIN StepsOf, NEW r \in Releases, Begin(c, r) PROVE AgentOK'
  BY <1>1, BeginOrder DEF Begin
<1>2. ASSUME Pass PROVE AgentOK'
  BY <1>2, AdvanceOrder DEF Pass, Resolvable
<1>3. ASSUME StepFails PROVE AgentOK'
  BY <1>3, FailCases DEF StepFails, RemoveBundle
<1>4. ASSUME Unresolved PROVE AgentOK'
  BY <1>4, FailCases DEF Unresolved, Resolvable
<1>5. ASSUME CommandDies PROVE AgentOK'
  BY <1>5 DEF CommandDies
<1>6. ASSUME Copy PROVE AgentOK'
  BY <1>6, AdvanceOrder, FailCases DEF Copy, MayReserve, ReserveBundle
<1>7. ASSUME Move PROVE AgentOK'
  BY <1>7, AdvanceOrder DEF Move, CompleteBundle
<1>8. ASSUME Record PROVE AgentOK'
  BY <1>8, AdvanceOrder, RollbackCases, LedgerEvents DEF Record, AppendLedger
<1>9. ASSUME Backup PROVE AgentOK'
  BY <1>9, AdvanceOrder DEF Backup, BackupConfig, Resolvable
<1>10. ASSUME Replace PROVE AgentOK'
  BY <1>10, AdvanceOrder DEF Replace, ReplaceConfig
<1>11. ASSUME Flip PROVE AgentOK'
  BY <1>11, AdvanceOrder DEF Flip, FlipCurrent, Resolvable
<1>12. ASSUME WritePlist PROVE AgentOK'
  BY <1>12, AdvanceOrder DEF WritePlist
<1>13. ASSUME Bootout PROVE AgentOK'
  BY <1>13, AdvanceOrder DEF Bootout
<1>14. ASSUME WaitForExit PROVE AgentOK'
  BY <1>14, AdvanceOrder DEF WaitForExit
<1>15. ASSUME ExitTooSlow PROVE AgentOK'
  BY <1>15, FailCases DEF ExitTooSlow
<1>16. ASSUME Bootstrap PROVE AgentOK'
  BY <1>16, AdvanceOrder, FailCases DEF Bootstrap, Started
<1>17. ASSUME Preflight PROVE AgentOK'
  BY <1>17 DEF Preflight
<1>18. ASSUME Postflight PROVE AgentOK'
  BY <1>18, PostflightCases, PostflightInspects DEF Postflight
<1>19. ASSUME DaemonCrashes PROVE AgentOK'
  BY <1>19 DEF DaemonCrashes, Orphan
<1>20. ASSUME KeptAlive PROVE AgentOK'
  BY <1>20 DEF KeptAlive, Started
<1>21. ASSUME NEW image \in Images, Exits(image) PROVE AgentOK'
  BY <1>21 DEF Exits, Orphan
<1>22. ASSUME OperatorEdits PROVE AgentOK'
  BY <1>22 DEF OperatorEdits, EditConfig
<1>23. ASSUME RunsGoOn PROVE AgentOK'
  BY <1>23, RunsOnly
<1>24. ASSUME UNCHANGED vars PROVE AgentOK'
  BY <1>24 DEF vars
<1>25. QED
  BY <1>1, <1>2, <1>3, <1>4, <1>5, <1>6, <1>7, <1>8, <1>9, <1>10, <1>11, <1>12, <1>13, <1>14, <1>15, <1>16, <1>17, <1>18, <1>19, <1>20, <1>21, <1>22, <1>23, <1>24
    DEF Next, CommandSteps, AgentSteps

\* Every step keeps the types of run control.
LEMMA WorkStep == ReleaseInv /\ [Next]_vars => WorkOK'
<1> SUFFICES ASSUME ReleaseInv, [Next]_vars PROVE WorkOK'
  OBVIOUS
<1> USE Constants DEF ReleaseInv, TypeOK, WorkOK, OnScript, RunState,
      Forget, Conclude, RollBack, CountFault, fileVars, commandVars, agentVars, workVars
<1>1. ASSUME NEW c \in DOMAIN StepsOf, NEW r \in Releases, Begin(c, r) PROVE WorkOK'
  BY <1>1, BeginOrder DEF Begin
<1>2. ASSUME Pass PROVE WorkOK'
  BY <1>2, AdvanceOrder DEF Pass, Resolvable
<1>3. ASSUME StepFails PROVE WorkOK'
  BY <1>3, FailCases DEF StepFails, RemoveBundle
<1>4. ASSUME Unresolved PROVE WorkOK'
  BY <1>4, FailCases DEF Unresolved, Resolvable
<1>5. ASSUME CommandDies PROVE WorkOK'
  BY <1>5 DEF CommandDies
<1>6. ASSUME Copy PROVE WorkOK'
  BY <1>6, AdvanceOrder, FailCases DEF Copy, MayReserve, ReserveBundle
<1>7. ASSUME Move PROVE WorkOK'
  BY <1>7, AdvanceOrder DEF Move, CompleteBundle
<1>8. ASSUME Record PROVE WorkOK'
  BY <1>8, AdvanceOrder, RollbackCases, LedgerEvents DEF Record, AppendLedger
<1>9. ASSUME Backup PROVE WorkOK'
  BY <1>9, AdvanceOrder DEF Backup, BackupConfig, Resolvable
<1>10. ASSUME Replace PROVE WorkOK'
  BY <1>10, AdvanceOrder DEF Replace, ReplaceConfig
<1>11. ASSUME Flip PROVE WorkOK'
  BY <1>11, AdvanceOrder DEF Flip, FlipCurrent, Resolvable
<1>12. ASSUME WritePlist PROVE WorkOK'
  BY <1>12, AdvanceOrder DEF WritePlist
<1>13. ASSUME Bootout PROVE WorkOK'
  BY <1>13, AdvanceOrder DEF Bootout
<1>14. ASSUME WaitForExit PROVE WorkOK'
  BY <1>14, AdvanceOrder DEF WaitForExit
<1>15. ASSUME ExitTooSlow PROVE WorkOK'
  BY <1>15, FailCases DEF ExitTooSlow
<1>16. ASSUME Bootstrap PROVE WorkOK'
  BY <1>16, AdvanceOrder, FailCases DEF Bootstrap, Started
<1>17. ASSUME Preflight PROVE WorkOK'
  BY <1>17 DEF Preflight
<1>18. ASSUME Postflight PROVE WorkOK'
  BY <1>18, PostflightCases, PostflightInspects DEF Postflight
<1>19. ASSUME DaemonCrashes PROVE WorkOK'
  BY <1>19 DEF DaemonCrashes, Orphan
<1>20. ASSUME KeptAlive PROVE WorkOK'
  BY <1>20 DEF KeptAlive, Started
<1>21. ASSUME NEW image \in Images, Exits(image) PROVE WorkOK'
  BY <1>21 DEF Exits, Orphan
<1>22. ASSUME OperatorEdits PROVE WorkOK'
  BY <1>22 DEF OperatorEdits, EditConfig
<1>23. ASSUME NEW r \in Runs, Claimed(r) PROVE WorkOK'
  BY <1>23 DEF Claimed, SetRun
<1>24. ASSUME NEW r \in Runs, LeaseLapses(r) PROVE WorkOK'
  BY <1>24 DEF LeaseLapses, SetRun
<1>25. ASSUME NEW r \in Runs, Settles(r) PROVE WorkOK'
  BY <1>25 DEF Settles, SetRun
<1>26. ASSUME NEW t \in Threads, NEW r \in Runs, Prompted(t, r) PROVE WorkOK'
  BY <1>26 DEF Prompted, SetRun
<1>27. ASSUME NEW t \in Threads, Unpointed(t) PROVE WorkOK'
  BY <1>27 DEF Unpointed
<1>28. ASSUME NEW t \in Threads, DeadLettered(t) PROVE WorkOK'
  BY <1>28 DEF DeadLettered, SetRun
<1>29. ASSUME UNCHANGED vars PROVE WorkOK'
  BY <1>29 DEF vars
<1>30. QED
  BY <1>1, <1>2, <1>3, <1>4, <1>5, <1>6, <1>7, <1>8, <1>9, <1>10, <1>11, <1>12, <1>13, <1>14, <1>15, <1>16, <1>17, <1>18, <1>19, <1>20, <1>21, <1>22, <1>23, <1>24, <1>25, <1>26, <1>27, <1>28, <1>29
    DEF Next, CommandSteps, AgentSteps, RunsGoOn

\* A command stays on its list.
LEMMA OnScriptStep == ReleaseInv /\ [Next]_vars => OnScript'
<1> SUFFICES ASSUME ReleaseInv, [Next]_vars PROVE OnScript'
  OBVIOUS
<1> USE Constants DEF ReleaseInv, OnScript, Verdicts, DeployNames, RollbackNames, SnapshotNames, RestartNames, Nested,
      Forget, Conclude, RollBack, CountFault, fileVars, commandVars, agentVars, workVars
<1>1. ASSUME NEW c \in DOMAIN StepsOf, NEW r \in Releases, Begin(c, r) PROVE OnScript'
  BY <1>1, BeginOrder DEF Begin
<1>2. ASSUME Pass PROVE OnScript'
  BY <1>2, AdvanceOrder DEF Pass, Resolvable
<1>3. ASSUME StepFails PROVE OnScript'
  BY <1>3, FailCases DEF StepFails, RemoveBundle
<1>4. ASSUME Unresolved PROVE OnScript'
  BY <1>4, FailCases DEF Unresolved, Resolvable
<1>5. ASSUME CommandDies PROVE OnScript'
  BY <1>5 DEF CommandDies
<1>6. ASSUME Copy PROVE OnScript'
  BY <1>6, AdvanceOrder, FailCases DEF Copy, MayReserve, ReserveBundle
<1>7. ASSUME Move PROVE OnScript'
  BY <1>7, AdvanceOrder DEF Move, CompleteBundle
<1>8. ASSUME Record PROVE OnScript'
  BY <1>8, AdvanceOrder, RollbackCases, LedgerEvents DEF Record, AppendLedger
<1>9. ASSUME Backup PROVE OnScript'
  BY <1>9, AdvanceOrder DEF Backup, BackupConfig, Resolvable
<1>10. ASSUME Replace PROVE OnScript'
  BY <1>10, AdvanceOrder DEF Replace, ReplaceConfig
<1>11. ASSUME Flip PROVE OnScript'
  BY <1>11, AdvanceOrder DEF Flip, FlipCurrent, Resolvable
<1>12. ASSUME WritePlist PROVE OnScript'
  BY <1>12, AdvanceOrder DEF WritePlist
<1>13. ASSUME Bootout PROVE OnScript'
  BY <1>13, AdvanceOrder DEF Bootout
<1>14. ASSUME WaitForExit PROVE OnScript'
  BY <1>14, AdvanceOrder DEF WaitForExit
<1>15. ASSUME ExitTooSlow PROVE OnScript'
  BY <1>15, FailCases DEF ExitTooSlow
<1>16. ASSUME Bootstrap PROVE OnScript'
  BY <1>16, AdvanceOrder, FailCases DEF Bootstrap, Started
<1>17. ASSUME Preflight PROVE OnScript'
  BY <1>17 DEF Preflight
<1>18. ASSUME Postflight PROVE OnScript'
  BY <1>18, PostflightCases, PostflightInspects DEF Postflight
<1>19. ASSUME DaemonCrashes PROVE OnScript'
  BY <1>19 DEF DaemonCrashes, Orphan
<1>20. ASSUME KeptAlive PROVE OnScript'
  BY <1>20 DEF KeptAlive, Started
<1>21. ASSUME NEW image \in Images, Exits(image) PROVE OnScript'
  BY <1>21 DEF Exits, Orphan
<1>22. ASSUME OperatorEdits PROVE OnScript'
  BY <1>22 DEF OperatorEdits, EditConfig
<1>23. ASSUME RunsGoOn PROVE OnScript'
  BY <1>23, RunsOnly
<1>24. ASSUME UNCHANGED vars PROVE OnScript'
  BY <1>24 DEF vars
<1>25. QED
  BY <1>1, <1>2, <1>3, <1>4, <1>5, <1>6, <1>7, <1>8, <1>9, <1>10, <1>11, <1>12, <1>13, <1>14, <1>15, <1>16, <1>17, <1>18, <1>19, <1>20, <1>21, <1>22, <1>23, <1>24
    DEF Next, CommandSteps, AgentSteps

\* A verdict is given at the end of the transition, and only then.
LEMMA VerdictsStep == ReleaseInv /\ [Next]_vars => Verdicts'
<1> SUFFICES ASSUME ReleaseInv, [Next]_vars PROVE Verdicts'
  OBVIOUS
<1> USE Constants DEF ReleaseInv, TypeOK, FilesTypeOK, OnScript, Verdicts, Ledger, PreFlip, DeployNames, RollbackNames, SnapshotNames, RestartNames, Nested, Follows,
      Forget, Conclude, RollBack, CountFault, fileVars, commandVars, agentVars, workVars
<1>1. ASSUME NEW c \in DOMAIN StepsOf, NEW r \in Releases, Begin(c, r) PROVE Verdicts'
  BY <1>1, BeginOrder DEF Begin
<1>2. ASSUME Pass PROVE Verdicts'
  BY <1>2, AdvanceOrder DEF Pass, Resolvable
<1>3. ASSUME StepFails PROVE Verdicts'
  BY <1>3, FailCases DEF StepFails, RemoveBundle
<1>4. ASSUME Unresolved PROVE Verdicts'
  BY <1>4, FailCases DEF Unresolved, Resolvable
<1>5. ASSUME CommandDies PROVE Verdicts'
  BY <1>5 DEF CommandDies
<1>6. ASSUME Copy PROVE Verdicts'
  BY <1>6, AdvanceOrder, FailCases DEF Copy, MayReserve, ReserveBundle
<1>7. ASSUME Move PROVE Verdicts'
  BY <1>7, AdvanceOrder DEF Move, CompleteBundle
<1>8. ASSUME Record PROVE Verdicts'
  BY <1>8, AdvanceOrder, RollbackCases, LedgerEvents DEF Record, AppendLedger
<1>9. ASSUME Backup PROVE Verdicts'
  BY <1>9, AdvanceOrder DEF Backup, BackupConfig, Resolvable
<1>10. ASSUME Replace PROVE Verdicts'
  BY <1>10, AdvanceOrder DEF Replace, ReplaceConfig
<1>11. ASSUME Flip PROVE Verdicts'
  BY <1>11, AdvanceOrder DEF Flip, FlipCurrent, Resolvable
<1>12. ASSUME WritePlist PROVE Verdicts'
  BY <1>12, AdvanceOrder DEF WritePlist
<1>13. ASSUME Bootout PROVE Verdicts'
  BY <1>13, AdvanceOrder DEF Bootout
<1>14. ASSUME WaitForExit PROVE Verdicts'
  BY <1>14, AdvanceOrder DEF WaitForExit
<1>15. ASSUME ExitTooSlow PROVE Verdicts'
  BY <1>15, FailCases DEF ExitTooSlow
<1>16. ASSUME Bootstrap PROVE Verdicts'
  BY <1>16, AdvanceOrder, FailCases DEF Bootstrap, Started
<1>17. ASSUME Preflight PROVE Verdicts'
  BY <1>17 DEF Preflight
<1>18. ASSUME Postflight PROVE Verdicts'
  BY <1>18, PostflightCases, PostflightInspects DEF Postflight
<1>19. ASSUME DaemonCrashes PROVE Verdicts'
  BY <1>19 DEF DaemonCrashes, Orphan
<1>20. ASSUME KeptAlive PROVE Verdicts'
  BY <1>20 DEF KeptAlive, Started
<1>21. ASSUME NEW image \in Images, Exits(image) PROVE Verdicts'
  BY <1>21 DEF Exits, Orphan
<1>22. ASSUME OperatorEdits PROVE Verdicts'
  BY <1>22 DEF OperatorEdits, EditConfig
<1>23. ASSUME RunsGoOn PROVE Verdicts'
  BY <1>23, RunsOnly
<1>24. ASSUME UNCHANGED vars PROVE Verdicts'
  BY <1>24 DEF vars
<1>25. QED
  BY <1>1, <1>2, <1>3, <1>4, <1>5, <1>6, <1>7, <1>8, <1>9, <1>10, <1>11, <1>12, <1>13, <1>14, <1>15, <1>16, <1>17, <1>18, <1>19, <1>20, <1>21, <1>22, <1>23, <1>24
    DEF Next, CommandSteps, AgentSteps

\* Nothing listed is removed, and only what is listed becomes current.
LEMMA LedgerStep == ReleaseInv /\ [Next]_vars => Ledger'
<1> SUFFICES ASSUME ReleaseInv, [Next]_vars PROVE Ledger'
  OBVIOUS
<1> USE Constants DEF ReleaseInv, TypeOK, FilesTypeOK, OnScript, Verdicts, Ledger, Fresh, Restarted, Restored, PostFlip, Target, DeployNames, RollbackNames, SnapshotNames, RestartNames, Nested,
      Forget, Conclude, RollBack, CountFault, fileVars, commandVars, agentVars, workVars
<1>1. ASSUME NEW c \in DOMAIN StepsOf, NEW r \in Releases, Begin(c, r) PROVE Ledger'
  BY <1>1, BeginOrder DEF Begin
<1>2. ASSUME Pass PROVE Ledger'
  BY <1>2, AdvanceOrder DEF Pass, Resolvable
<1>3. ASSUME StepFails PROVE Ledger'
  BY <1>3, FailCases DEF StepFails, RemoveBundle
<1>4. ASSUME Unresolved PROVE Ledger'
  BY <1>4, FailCases DEF Unresolved, Resolvable
<1>5. ASSUME CommandDies PROVE Ledger'
  BY <1>5 DEF CommandDies
<1>6. ASSUME Copy PROVE Ledger'
  BY <1>6, AdvanceOrder, FailCases DEF Copy, MayReserve, ReserveBundle
<1>7. ASSUME Move PROVE Ledger'
  <2>1. release \in Releases /\ mode \in {"snapshot", "deploy"}
    BY <1>7 DEF Move
  <2>2. bundle' = [bundle EXCEPT ![release] = "complete"] /\ UNCHANGED <<listed, activated, current, savedConfig>>
    BY <1>7 DEF Move, CompleteBundle
  <2>3. step = "move" /\ (Forget \/ (step' = "recordSnapshot" /\ UNCHANGED <<mode, release>>))
    BY <1>7, AdvanceOrder DEF Move, Follows
  <2> QED
    BY <2>1, <2>2, <2>3
<1>8. ASSUME Record PROVE Ledger'
  BY <1>8, AdvanceOrder, RollbackCases, LedgerEvents DEF Record, AppendLedger
<1>9. ASSUME Backup PROVE Ledger'
  BY <1>9, AdvanceOrder DEF Backup, BackupConfig, Resolvable
<1>10. ASSUME Replace PROVE Ledger'
  BY <1>10, AdvanceOrder DEF Replace, ReplaceConfig
<1>11. ASSUME Flip PROVE Ledger'
  BY <1>11, AdvanceOrder DEF Flip, FlipCurrent, Resolvable
<1>12. ASSUME WritePlist PROVE Ledger'
  BY <1>12, AdvanceOrder DEF WritePlist
<1>13. ASSUME Bootout PROVE Ledger'
  BY <1>13, AdvanceOrder DEF Bootout
<1>14. ASSUME WaitForExit PROVE Ledger'
  BY <1>14, AdvanceOrder DEF WaitForExit
<1>15. ASSUME ExitTooSlow PROVE Ledger'
  BY <1>15, FailCases DEF ExitTooSlow
<1>16. ASSUME Bootstrap PROVE Ledger'
  BY <1>16, AdvanceOrder, FailCases DEF Bootstrap, Started
<1>17. ASSUME Preflight PROVE Ledger'
  BY <1>17 DEF Preflight
<1>18. ASSUME Postflight PROVE Ledger'
  BY <1>18, PostflightCases, PostflightInspects DEF Postflight
<1>19. ASSUME DaemonCrashes PROVE Ledger'
  BY <1>19 DEF DaemonCrashes, Orphan
<1>20. ASSUME KeptAlive PROVE Ledger'
  BY <1>20 DEF KeptAlive, Started
<1>21. ASSUME NEW image \in Images, Exits(image) PROVE Ledger'
  BY <1>21 DEF Exits, Orphan
<1>22. ASSUME OperatorEdits PROVE Ledger'
  BY <1>22 DEF OperatorEdits, EditConfig
<1>23. ASSUME RunsGoOn PROVE Ledger'
  BY <1>23, RunsOnly
<1>24. ASSUME UNCHANGED vars PROVE Ledger'
  BY <1>24 DEF vars
<1>25. QED
  BY <1>1, <1>2, <1>3, <1>4, <1>5, <1>6, <1>7, <1>8, <1>9, <1>10, <1>11, <1>12, <1>13, <1>14, <1>15, <1>16, <1>17, <1>18, <1>19, <1>20, <1>21, <1>22, <1>23, <1>24
    DEF Next, CommandSteps, AgentSteps

\* A snapshot works on an id that it alone has.
LEMMA FreshStep == ReleaseInv /\ [Next]_vars => Fresh'
<1> SUFFICES ASSUME ReleaseInv, [Next]_vars PROVE Fresh'
  OBVIOUS
<1> USE Constants DEF ReleaseInv, TypeOK, FilesTypeOK, OnScript, Ledger, Verdicts, Fresh, Target, DeployNames, RollbackNames, SnapshotNames, RestartNames, Nested, Follows,
      Forget, Conclude, RollBack, CountFault, fileVars, commandVars, agentVars, workVars
<1>1. ASSUME NEW c \in DOMAIN StepsOf, NEW r \in Releases, Begin(c, r) PROVE Fresh'
  BY <1>1, BeginOrder DEF Begin
<1>2. ASSUME Pass PROVE Fresh'
  BY <1>2, AdvanceOrder DEF Pass, Resolvable
<1>3. ASSUME StepFails PROVE Fresh'
  BY <1>3, FailCases DEF StepFails, RemoveBundle
<1>4. ASSUME Unresolved PROVE Fresh'
  BY <1>4, FailCases DEF Unresolved, Resolvable
<1>5. ASSUME CommandDies PROVE Fresh'
  BY <1>5 DEF CommandDies
<1>6. ASSUME Copy PROVE Fresh'
  <2>1. release \in Releases /\ mode \in {"snapshot", "deploy"} /\ UNCHANGED <<listed, activated>>
    BY <1>6 DEF Copy, ReserveBundle
  <2>2. CASE MayReserve(release)
    <3>1. bundle' = [bundle EXCEPT ![release] = "reserved"] /\ bundle[release] = "absent"
      BY <1>6, <2>2 DEF Copy, MayReserve, ReserveBundle
    <3>2. step = "copy" /\ (Forget \/ (step' = "move" /\ UNCHANGED <<mode, release>>))
      BY <1>6, <2>2, AdvanceOrder DEF Copy, Follows
    <3> QED
      BY <2>1, <3>1, <3>2
  <2>3. CASE ~ MayReserve(release)
    BY <1>6, <2>1, <2>3, FailCases DEF Copy
  <2> QED
    BY <2>2, <2>3
<1>7. ASSUME Move PROVE Fresh'
  <2>1. release \in Releases /\ mode \in {"snapshot", "deploy"}
    BY <1>7 DEF Move
  <2>2. bundle' = [bundle EXCEPT ![release] = "complete"] /\ UNCHANGED <<listed, activated, current, savedConfig>>
    BY <1>7 DEF Move, CompleteBundle
  <2>3. step = "move" /\ (Forget \/ (step' = "recordSnapshot" /\ UNCHANGED <<mode, release>>))
    BY <1>7, AdvanceOrder DEF Move, Follows
  <2> QED
    BY <2>1, <2>2, <2>3
<1>8. ASSUME Record PROVE Fresh'
  BY <1>8, AdvanceOrder, RollbackCases, LedgerEvents DEF Record, AppendLedger
<1>9. ASSUME Backup PROVE Fresh'
  BY <1>9, AdvanceOrder DEF Backup, BackupConfig, Resolvable
<1>10. ASSUME Replace PROVE Fresh'
  BY <1>10, AdvanceOrder DEF Replace, ReplaceConfig
<1>11. ASSUME Flip PROVE Fresh'
  BY <1>11, AdvanceOrder DEF Flip, FlipCurrent, Resolvable
<1>12. ASSUME WritePlist PROVE Fresh'
  BY <1>12, AdvanceOrder DEF WritePlist
<1>13. ASSUME Bootout PROVE Fresh'
  BY <1>13, AdvanceOrder DEF Bootout
<1>14. ASSUME WaitForExit PROVE Fresh'
  BY <1>14, AdvanceOrder DEF WaitForExit
<1>15. ASSUME ExitTooSlow PROVE Fresh'
  BY <1>15, FailCases DEF ExitTooSlow
<1>16. ASSUME Bootstrap PROVE Fresh'
  BY <1>16, AdvanceOrder, FailCases DEF Bootstrap, Started
<1>17. ASSUME Preflight PROVE Fresh'
  BY <1>17 DEF Preflight
<1>18. ASSUME Postflight PROVE Fresh'
  BY <1>18, PostflightCases, PostflightInspects DEF Postflight
<1>19. ASSUME DaemonCrashes PROVE Fresh'
  BY <1>19 DEF DaemonCrashes, Orphan
<1>20. ASSUME KeptAlive PROVE Fresh'
  BY <1>20 DEF KeptAlive, Started
<1>21. ASSUME NEW image \in Images, Exits(image) PROVE Fresh'
  BY <1>21 DEF Exits, Orphan
<1>22. ASSUME OperatorEdits PROVE Fresh'
  BY <1>22 DEF OperatorEdits, EditConfig
<1>23. ASSUME RunsGoOn PROVE Fresh'
  BY <1>23, RunsOnly
<1>24. ASSUME UNCHANGED vars PROVE Fresh'
  BY <1>24 DEF vars
<1>25. QED
  BY <1>1, <1>2, <1>3, <1>4, <1>5, <1>6, <1>7, <1>8, <1>9, <1>10, <1>11, <1>12, <1>13, <1>14, <1>15, <1>16, <1>17, <1>18, <1>19, <1>20, <1>21, <1>22, <1>23, <1>24
    DEF Next, CommandSteps, AgentSteps

\* What the steps from the flip to the start have done stays done.
LEMMA RestartedStep == ReleaseInv /\ [Next]_vars => Restarted'
<1> SUFFICES ASSUME ReleaseInv, [Next]_vars PROVE Restarted'
  OBVIOUS
<1> USE Constants DEF ReleaseInv, TypeOK, FilesTypeOK, OnScript, Verdicts, Ledger, Restarted, PostFlip, PostPlist, PostStart, Target, Started, StartImage, DeployNames, RollbackNames, SnapshotNames, RestartNames, Nested, Follows,
      Forget, Conclude, RollBack, CountFault, fileVars, commandVars, agentVars, workVars
<1>1. ASSUME NEW c \in DOMAIN StepsOf, NEW r \in Releases, Begin(c, r) PROVE Restarted'
  BY <1>1, BeginOrder DEF Begin
<1>2. ASSUME Pass PROVE Restarted'
  BY <1>2, AdvanceOrder DEF Pass, Resolvable
<1>3. ASSUME StepFails PROVE Restarted'
  BY <1>3, FailCases DEF StepFails, RemoveBundle
<1>4. ASSUME Unresolved PROVE Restarted'
  BY <1>4, FailCases DEF Unresolved, Resolvable
<1>5. ASSUME CommandDies PROVE Restarted'
  BY <1>5 DEF CommandDies
<1>6. ASSUME Copy PROVE Restarted'
  BY <1>6, AdvanceOrder, FailCases DEF Copy, MayReserve, ReserveBundle
<1>7. ASSUME Move PROVE Restarted'
  BY <1>7, AdvanceOrder DEF Move, CompleteBundle
<1>8. ASSUME Record PROVE Restarted'
  BY <1>8, AdvanceOrder, RollbackCases, LedgerEvents DEF Record, AppendLedger
<1>9. ASSUME Backup PROVE Restarted'
  BY <1>9, AdvanceOrder DEF Backup, BackupConfig, Resolvable
<1>10. ASSUME Replace PROVE Restarted'
  BY <1>10, AdvanceOrder DEF Replace, ReplaceConfig
<1>11. ASSUME Flip PROVE Restarted'
  BY <1>11, AdvanceOrder DEF Flip, FlipCurrent, Resolvable
<1>12. ASSUME WritePlist PROVE Restarted'
  BY <1>12, AdvanceOrder DEF WritePlist
<1>13. ASSUME Bootout PROVE Restarted'
  BY <1>13, AdvanceOrder DEF Bootout
<1>14. ASSUME WaitForExit PROVE Restarted'
  BY <1>14, AdvanceOrder DEF WaitForExit
<1>15. ASSUME ExitTooSlow PROVE Restarted'
  BY <1>15, FailCases DEF ExitTooSlow
<1>16. ASSUME Bootstrap PROVE Restarted'
  BY <1>16, AdvanceOrder, FailCases DEF Bootstrap, Started
<1>17. ASSUME Preflight PROVE Restarted'
  BY <1>17 DEF Preflight
<1>18. ASSUME Postflight PROVE Restarted'
  BY <1>18, PostflightCases, PostflightInspects DEF Postflight
<1>19. ASSUME DaemonCrashes PROVE Restarted'
  BY <1>19 DEF DaemonCrashes, Orphan
<1>20. ASSUME KeptAlive PROVE Restarted'
  BY <1>20 DEF KeptAlive, Started
<1>21. ASSUME NEW image \in Images, Exits(image) PROVE Restarted'
  BY <1>21 DEF Exits, Orphan
<1>22. ASSUME OperatorEdits PROVE Restarted'
  BY <1>22 DEF OperatorEdits, EditConfig
<1>23. ASSUME RunsGoOn PROVE Restarted'
  BY <1>23, RunsOnly
<1>24. ASSUME UNCHANGED vars PROVE Restarted'
  BY <1>24 DEF vars
<1>25. QED
  BY <1>1, <1>2, <1>3, <1>4, <1>5, <1>6, <1>7, <1>8, <1>9, <1>10, <1>11, <1>12, <1>13, <1>14, <1>15, <1>16, <1>17, <1>18, <1>19, <1>20, <1>21, <1>22, <1>23, <1>24
    DEF Next, CommandSteps, AgentSteps

\* A config is replaced only after it was backed up.
LEMMA RestoredStep == ReleaseInv /\ [Next]_vars => Restored'
<1> SUFFICES ASSUME ReleaseInv, [Next]_vars PROVE Restored'
  OBVIOUS
<1> USE Constants DEF ReleaseInv, TypeOK, FilesTypeOK, OnScript, Verdicts, Restored, ConfigIsKept, PostFlip, Target, DeployNames, RollbackNames, SnapshotNames, RestartNames, Nested, Follows,
      Forget, Conclude, RollBack, CountFault, fileVars, commandVars, agentVars, workVars
<1>1. ASSUME NEW c \in DOMAIN StepsOf, NEW r \in Releases, Begin(c, r) PROVE Restored'
  BY <1>1, BeginOrder DEF Begin
<1>2. ASSUME Pass PROVE Restored'
  BY <1>2, AdvanceOrder DEF Pass, Resolvable
<1>3. ASSUME StepFails PROVE Restored'
  BY <1>3, FailCases DEF StepFails, RemoveBundle
<1>4. ASSUME Unresolved PROVE Restored'
  BY <1>4, FailCases DEF Unresolved, Resolvable
<1>5. ASSUME CommandDies PROVE Restored'
  BY <1>5 DEF CommandDies
<1>6. ASSUME Copy PROVE Restored'
  BY <1>6, AdvanceOrder, FailCases DEF Copy, MayReserve, ReserveBundle
<1>7. ASSUME Move PROVE Restored'
  BY <1>7, AdvanceOrder DEF Move, CompleteBundle
<1>8. ASSUME Record PROVE Restored'
  BY <1>8, AdvanceOrder, RollbackCases, LedgerEvents DEF Record, AppendLedger
<1>9. ASSUME Backup PROVE Restored'
  BY <1>9, AdvanceOrder DEF Backup, BackupConfig, Resolvable
<1>10. ASSUME Replace PROVE Restored'
  BY <1>10, AdvanceOrder DEF Replace, ReplaceConfig
<1>11. ASSUME Flip PROVE Restored'
  BY <1>11, AdvanceOrder DEF Flip, FlipCurrent, Resolvable
<1>12. ASSUME WritePlist PROVE Restored'
  BY <1>12, AdvanceOrder DEF WritePlist
<1>13. ASSUME Bootout PROVE Restored'
  BY <1>13, AdvanceOrder DEF Bootout
<1>14. ASSUME WaitForExit PROVE Restored'
  BY <1>14, AdvanceOrder DEF WaitForExit
<1>15. ASSUME ExitTooSlow PROVE Restored'
  BY <1>15, FailCases DEF ExitTooSlow
<1>16. ASSUME Bootstrap PROVE Restored'
  BY <1>16, AdvanceOrder, FailCases DEF Bootstrap, Started
<1>17. ASSUME Preflight PROVE Restored'
  BY <1>17 DEF Preflight
<1>18. ASSUME Postflight PROVE Restored'
  BY <1>18, PostflightCases, PostflightInspects DEF Postflight
<1>19. ASSUME DaemonCrashes PROVE Restored'
  BY <1>19 DEF DaemonCrashes, Orphan
<1>20. ASSUME KeptAlive PROVE Restored'
  BY <1>20 DEF KeptAlive, Started
<1>21. ASSUME NEW image \in Images, Exits(image) PROVE Restored'
  BY <1>21 DEF Exits, Orphan
<1>22. ASSUME OperatorEdits PROVE Restored'
  BY <1>22 DEF OperatorEdits, EditConfig
<1>23. ASSUME RunsGoOn PROVE Restored'
  BY <1>23, RunsOnly
<1>24. ASSUME UNCHANGED vars PROVE Restored'
  BY <1>24 DEF vars
<1>25. QED
  BY <1>1, <1>2, <1>3, <1>4, <1>5, <1>6, <1>7, <1>8, <1>9, <1>10, <1>11, <1>12, <1>13, <1>14, <1>15, <1>16, <1>17, <1>18, <1>19, <1>20, <1>21, <1>22, <1>23, <1>24
    DEF Next, CommandSteps, AgentSteps

\* A start waits for whoever is leaving, or is forced.
LEMMA AloneStep == ReleaseInv /\ [Next]_vars => Alone'
<1> SUFFICES ASSUME ReleaseInv, [Next]_vars PROVE Alone'
  OBVIOUS
<1> USE Constants DEF ReleaseInv, OnScript, Alone, OneDaemon, DeployNames, RollbackNames, SnapshotNames, RestartNames, Nested, Follows,
      Forget, Conclude, RollBack, CountFault, fileVars, commandVars, agentVars, workVars
<1>1. ASSUME NEW c \in DOMAIN StepsOf, NEW r \in Releases, Begin(c, r) PROVE Alone'
  BY <1>1, BeginOrder DEF Begin
<1>2. ASSUME Pass PROVE Alone'
  BY <1>2, AdvanceOrder DEF Pass, Resolvable
<1>3. ASSUME StepFails PROVE Alone'
  BY <1>3, FailCases DEF StepFails, RemoveBundle
<1>4. ASSUME Unresolved PROVE Alone'
  BY <1>4, FailCases DEF Unresolved, Resolvable
<1>5. ASSUME CommandDies PROVE Alone'
  BY <1>5 DEF CommandDies
<1>6. ASSUME Copy PROVE Alone'
  BY <1>6, AdvanceOrder, FailCases DEF Copy, MayReserve, ReserveBundle
<1>7. ASSUME Move PROVE Alone'
  BY <1>7, AdvanceOrder DEF Move, CompleteBundle
<1>8. ASSUME Record PROVE Alone'
  BY <1>8, AdvanceOrder, RollbackCases, LedgerEvents DEF Record, AppendLedger
<1>9. ASSUME Backup PROVE Alone'
  BY <1>9, AdvanceOrder DEF Backup, BackupConfig, Resolvable
<1>10. ASSUME Replace PROVE Alone'
  BY <1>10, AdvanceOrder DEF Replace, ReplaceConfig
<1>11. ASSUME Flip PROVE Alone'
  BY <1>11, AdvanceOrder DEF Flip, FlipCurrent, Resolvable
<1>12. ASSUME WritePlist PROVE Alone'
  BY <1>12, AdvanceOrder DEF WritePlist
<1>13. ASSUME Bootout PROVE Alone'
  BY <1>13, AdvanceOrder DEF Bootout
<1>14. ASSUME WaitForExit PROVE Alone'
  BY <1>14, AdvanceOrder DEF WaitForExit
<1>15. ASSUME ExitTooSlow PROVE Alone'
  BY <1>15, FailCases DEF ExitTooSlow
<1>16. ASSUME Bootstrap PROVE Alone'
  <2>1. leaving # {} => risked'
    BY <1>16 DEF Bootstrap
  <2>2. UNCHANGED leaving
    BY <1>16 DEF Bootstrap
  <2>3. step' # "bootstrap"
    BY <1>16, AdvanceOrder, FailCases DEF Bootstrap
  <2> QED
    BY <2>1, <2>2, <2>3
<1>17. ASSUME Preflight PROVE Alone'
  BY <1>17 DEF Preflight
<1>18. ASSUME Postflight PROVE Alone'
  BY <1>18, PostflightCases, PostflightInspects DEF Postflight
<1>19. ASSUME DaemonCrashes PROVE Alone'
  BY <1>19 DEF DaemonCrashes, Orphan
<1>20. ASSUME KeptAlive PROVE Alone'
  BY <1>20 DEF KeptAlive, Started
<1>21. ASSUME NEW image \in Images, Exits(image) PROVE Alone'
  BY <1>21 DEF Exits, Orphan
<1>22. ASSUME OperatorEdits PROVE Alone'
  BY <1>22 DEF OperatorEdits, EditConfig
<1>23. ASSUME RunsGoOn PROVE Alone'
  BY <1>23, RunsOnly
<1>24. ASSUME UNCHANGED vars PROVE Alone'
  BY <1>24 DEF vars
<1>25. QED
  BY <1>1, <1>2, <1>3, <1>4, <1>5, <1>6, <1>7, <1>8, <1>9, <1>10, <1>11, <1>12, <1>13, <1>14, <1>15, <1>16, <1>17, <1>18, <1>19, <1>20, <1>21, <1>22, <1>23, <1>24
    DEF Next, CommandSteps, AgentSteps

\* Before its flip a deploy writes nothing but its bundle.
LEMMA UntouchedStep == ReleaseInv /\ [Next]_vars => Untouched'
<1> SUFFICES ASSUME ReleaseInv, [Next]_vars PROVE Untouched'
  OBVIOUS
<1> USE Constants DEF ReleaseInv, OnScript, Untouched, PreFlip, StartImage, Started, DeployNames, RollbackNames, SnapshotNames, RestartNames, Nested, Follows,
      Forget, Conclude, RollBack, CountFault, fileVars, commandVars, agentVars, workVars
<1>1. ASSUME NEW c \in DOMAIN StepsOf, NEW r \in Releases, Begin(c, r) PROVE Untouched'
  BY <1>1, BeginOrder DEF Begin
<1>2. ASSUME Pass PROVE Untouched'
  BY <1>2, AdvanceOrder DEF Pass, Resolvable
<1>3. ASSUME StepFails PROVE Untouched'
  BY <1>3, FailCases DEF StepFails, RemoveBundle
<1>4. ASSUME Unresolved PROVE Untouched'
  BY <1>4, FailCases DEF Unresolved, Resolvable
<1>5. ASSUME CommandDies PROVE Untouched'
  BY <1>5 DEF CommandDies
<1>6. ASSUME Copy PROVE Untouched'
  BY <1>6, AdvanceOrder, FailCases DEF Copy, MayReserve, ReserveBundle
<1>7. ASSUME Move PROVE Untouched'
  BY <1>7, AdvanceOrder DEF Move, CompleteBundle
<1>8. ASSUME Record PROVE Untouched'
  BY <1>8, AdvanceOrder, RollbackCases, LedgerEvents DEF Record, AppendLedger
<1>9. ASSUME Backup PROVE Untouched'
  BY <1>9, AdvanceOrder DEF Backup, BackupConfig, Resolvable
<1>10. ASSUME Replace PROVE Untouched'
  BY <1>10, AdvanceOrder DEF Replace, ReplaceConfig
<1>11. ASSUME Flip PROVE Untouched'
  BY <1>11, AdvanceOrder DEF Flip, FlipCurrent, Resolvable
<1>12. ASSUME WritePlist PROVE Untouched'
  BY <1>12, AdvanceOrder DEF WritePlist
<1>13. ASSUME Bootout PROVE Untouched'
  BY <1>13, AdvanceOrder DEF Bootout
<1>14. ASSUME WaitForExit PROVE Untouched'
  BY <1>14, AdvanceOrder DEF WaitForExit
<1>15. ASSUME ExitTooSlow PROVE Untouched'
  BY <1>15, FailCases DEF ExitTooSlow
<1>16. ASSUME Bootstrap PROVE Untouched'
  BY <1>16, AdvanceOrder, FailCases DEF Bootstrap, Started
<1>17. ASSUME Preflight PROVE Untouched'
  BY <1>17 DEF Preflight
<1>18. ASSUME Postflight PROVE Untouched'
  BY <1>18, PostflightCases, PostflightInspects DEF Postflight
<1>19. ASSUME DaemonCrashes PROVE Untouched'
  BY <1>19 DEF DaemonCrashes, Orphan
<1>20. ASSUME KeptAlive PROVE Untouched'
  BY <1>20 DEF KeptAlive, Started
<1>21. ASSUME NEW image \in Images, Exits(image) PROVE Untouched'
  BY <1>21 DEF Exits, Orphan
<1>22. ASSUME OperatorEdits PROVE Untouched'
  BY <1>22 DEF OperatorEdits, EditConfig
<1>23. ASSUME RunsGoOn PROVE Untouched'
  BY <1>23, RunsOnly
<1>24. ASSUME UNCHANGED vars PROVE Untouched'
  BY <1>24 DEF vars
<1>25. QED
  BY <1>1, <1>2, <1>3, <1>4, <1>5, <1>6, <1>7, <1>8, <1>9, <1>10, <1>11, <1>12, <1>13, <1>14, <1>15, <1>16, <1>17, <1>18, <1>19, <1>20, <1>21, <1>22, <1>23, <1>24
    DEF Next, CommandSteps, AgentSteps

\* A verdict of failure before the flip finds everything as it was.
LEMMA HarmlessStep == ReleaseInv /\ [Next]_vars => HarmlessUntilFlipped'
<1> SUFFICES ASSUME ReleaseInv, [Next]_vars PROVE HarmlessUntilFlipped'
  OBVIOUS
<1> USE Constants DEF ReleaseInv, TypeOK, OnScript, Verdicts, Restarted, Untouched, Promised, HarmlessUntilFlipped, PreFlip, PostFlip, Target, Started, StartImage, DeployNames, RollbackNames, SnapshotNames, RestartNames, Nested, Follows,
      Forget, Conclude, RollBack, CountFault, fileVars, commandVars, agentVars, workVars
<1>1. ASSUME NEW c \in DOMAIN StepsOf, NEW r \in Releases, Begin(c, r) PROVE HarmlessUntilFlipped'
  BY <1>1, BeginOrder DEF Begin
<1>2. ASSUME Pass PROVE HarmlessUntilFlipped'
  BY <1>2, AdvanceOrder DEF Pass, Resolvable
<1>3. ASSUME StepFails PROVE HarmlessUntilFlipped'
  BY <1>3, FailCases DEF StepFails, RemoveBundle
<1>4. ASSUME Unresolved PROVE HarmlessUntilFlipped'
  BY <1>4, FailCases DEF Unresolved, Resolvable
<1>5. ASSUME CommandDies PROVE HarmlessUntilFlipped'
  BY <1>5 DEF CommandDies
<1>6. ASSUME Copy PROVE HarmlessUntilFlipped'
  BY <1>6, AdvanceOrder, FailCases DEF Copy, MayReserve, ReserveBundle
<1>7. ASSUME Move PROVE HarmlessUntilFlipped'
  BY <1>7, AdvanceOrder DEF Move, CompleteBundle
<1>8. ASSUME Record PROVE HarmlessUntilFlipped'
  BY <1>8, AdvanceOrder, RollbackCases, LedgerEvents DEF Record, AppendLedger
<1>9. ASSUME Backup PROVE HarmlessUntilFlipped'
  BY <1>9, AdvanceOrder DEF Backup, BackupConfig, Resolvable
<1>10. ASSUME Replace PROVE HarmlessUntilFlipped'
  BY <1>10, AdvanceOrder DEF Replace, ReplaceConfig
<1>11. ASSUME Flip PROVE HarmlessUntilFlipped'
  BY <1>11, AdvanceOrder DEF Flip, FlipCurrent, Resolvable
<1>12. ASSUME WritePlist PROVE HarmlessUntilFlipped'
  BY <1>12, AdvanceOrder DEF WritePlist
<1>13. ASSUME Bootout PROVE HarmlessUntilFlipped'
  BY <1>13, AdvanceOrder DEF Bootout
<1>14. ASSUME WaitForExit PROVE HarmlessUntilFlipped'
  BY <1>14, AdvanceOrder DEF WaitForExit
<1>15. ASSUME ExitTooSlow PROVE HarmlessUntilFlipped'
  BY <1>15, FailCases DEF ExitTooSlow
<1>16. ASSUME Bootstrap PROVE HarmlessUntilFlipped'
  BY <1>16, AdvanceOrder, FailCases DEF Bootstrap, Started
<1>17. ASSUME Preflight PROVE HarmlessUntilFlipped'
  BY <1>17 DEF Preflight
<1>18. ASSUME Postflight PROVE HarmlessUntilFlipped'
  BY <1>18, PostflightCases, PostflightInspects DEF Postflight
<1>19. ASSUME DaemonCrashes PROVE HarmlessUntilFlipped'
  BY <1>19 DEF DaemonCrashes, Orphan
<1>20. ASSUME KeptAlive PROVE HarmlessUntilFlipped'
  BY <1>20 DEF KeptAlive, Started
<1>21. ASSUME NEW image \in Images, Exits(image) PROVE HarmlessUntilFlipped'
  BY <1>21 DEF Exits, Orphan
<1>22. ASSUME OperatorEdits PROVE HarmlessUntilFlipped'
  BY <1>22 DEF OperatorEdits, EditConfig
<1>23. ASSUME RunsGoOn PROVE HarmlessUntilFlipped'
  BY <1>23, RunsOnly
<1>24. ASSUME UNCHANGED vars PROVE HarmlessUntilFlipped'
  BY <1>24 DEF vars
<1>25. QED
  BY <1>1, <1>2, <1>3, <1>4, <1>5, <1>6, <1>7, <1>8, <1>9, <1>10, <1>11, <1>12, <1>13, <1>14, <1>15, <1>16, <1>17, <1>18, <1>19, <1>20, <1>21, <1>22, <1>23, <1>24
    DEF Next, CommandSteps, AgentSteps

\* A verdict of failure after the flip finds nothing to go back to, or no activation.
LEMMA CompensatedStep == ReleaseInv /\ [Next]_vars => FlippedDeployIsCompensated'
<1> SUFFICES ASSUME ReleaseInv, [Next]_vars PROVE FlippedDeployIsCompensated'
  OBVIOUS
<1> USE Constants DEF ReleaseInv, TypeOK, OnScript, Verdicts, Fresh, Promised, FlippedDeployIsCompensated, PreFlip, DeployNames, RollbackNames, SnapshotNames, RestartNames, Nested, Follows,
      Forget, Conclude, RollBack, CountFault, fileVars, commandVars, agentVars, workVars
<1>1. ASSUME NEW c \in DOMAIN StepsOf, NEW r \in Releases, Begin(c, r) PROVE FlippedDeployIsCompensated'
  BY <1>1, BeginOrder DEF Begin
<1>2. ASSUME Pass PROVE FlippedDeployIsCompensated'
  BY <1>2, AdvanceOrder DEF Pass, Resolvable
<1>3. ASSUME StepFails PROVE FlippedDeployIsCompensated'
  BY <1>3, FailCases DEF StepFails, RemoveBundle
<1>4. ASSUME Unresolved PROVE FlippedDeployIsCompensated'
  BY <1>4, FailCases DEF Unresolved, Resolvable
<1>5. ASSUME CommandDies PROVE FlippedDeployIsCompensated'
  BY <1>5 DEF CommandDies
<1>6. ASSUME Copy PROVE FlippedDeployIsCompensated'
  BY <1>6, AdvanceOrder, FailCases DEF Copy, MayReserve, ReserveBundle
<1>7. ASSUME Move PROVE FlippedDeployIsCompensated'
  BY <1>7, AdvanceOrder DEF Move, CompleteBundle
<1>8. ASSUME Record PROVE FlippedDeployIsCompensated'
  BY <1>8, AdvanceOrder, RollbackCases, LedgerEvents DEF Record, AppendLedger
<1>9. ASSUME Backup PROVE FlippedDeployIsCompensated'
  BY <1>9, AdvanceOrder DEF Backup, BackupConfig, Resolvable
<1>10. ASSUME Replace PROVE FlippedDeployIsCompensated'
  BY <1>10, AdvanceOrder DEF Replace, ReplaceConfig
<1>11. ASSUME Flip PROVE FlippedDeployIsCompensated'
  BY <1>11, AdvanceOrder DEF Flip, FlipCurrent, Resolvable
<1>12. ASSUME WritePlist PROVE FlippedDeployIsCompensated'
  BY <1>12, AdvanceOrder DEF WritePlist
<1>13. ASSUME Bootout PROVE FlippedDeployIsCompensated'
  BY <1>13, AdvanceOrder DEF Bootout
<1>14. ASSUME WaitForExit PROVE FlippedDeployIsCompensated'
  BY <1>14, AdvanceOrder DEF WaitForExit
<1>15. ASSUME ExitTooSlow PROVE FlippedDeployIsCompensated'
  BY <1>15, FailCases DEF ExitTooSlow
<1>16. ASSUME Bootstrap PROVE FlippedDeployIsCompensated'
  BY <1>16, AdvanceOrder, FailCases DEF Bootstrap, Started
<1>17. ASSUME Preflight PROVE FlippedDeployIsCompensated'
  BY <1>17 DEF Preflight
<1>18. ASSUME Postflight PROVE FlippedDeployIsCompensated'
  BY <1>18, PostflightCases, PostflightInspects DEF Postflight
<1>19. ASSUME DaemonCrashes PROVE FlippedDeployIsCompensated'
  BY <1>19 DEF DaemonCrashes, Orphan
<1>20. ASSUME KeptAlive PROVE FlippedDeployIsCompensated'
  BY <1>20 DEF KeptAlive, Started
<1>21. ASSUME NEW image \in Images, Exits(image) PROVE FlippedDeployIsCompensated'
  BY <1>21 DEF Exits, Orphan
<1>22. ASSUME OperatorEdits PROVE FlippedDeployIsCompensated'
  BY <1>22 DEF OperatorEdits, EditConfig
<1>23. ASSUME RunsGoOn PROVE FlippedDeployIsCompensated'
  BY <1>23, RunsOnly
<1>24. ASSUME UNCHANGED vars PROVE FlippedDeployIsCompensated'
  BY <1>24 DEF vars
<1>25. QED
  BY <1>1, <1>2, <1>3, <1>4, <1>5, <1>6, <1>7, <1>8, <1>9, <1>10, <1>11, <1>12, <1>13, <1>14, <1>15, <1>16, <1>17, <1>18, <1>19, <1>20, <1>21, <1>22, <1>23, <1>24
    DEF Next, CommandSteps, AgentSteps

\* A verdict after the start finds the plist on current.
LEMMA KeptStep == ReleaseInv /\ [Next]_vars => Kept'
<1> SUFFICES ASSUME ReleaseInv, [Next]_vars PROVE Kept'
  OBVIOUS
<1> USE Constants DEF ReleaseInv, TypeOK, OnScript, Verdicts, Restarted, Promised, Kept, PostFlip, PostPlist, PostStart, Target, DeployNames, RollbackNames, SnapshotNames, RestartNames, Nested, Follows,
      Forget, Conclude, RollBack, CountFault, fileVars, commandVars, agentVars, workVars
<1>1. ASSUME NEW c \in DOMAIN StepsOf, NEW r \in Releases, Begin(c, r) PROVE Kept'
  BY <1>1, BeginOrder DEF Begin
<1>2. ASSUME Pass PROVE Kept'
  BY <1>2, AdvanceOrder DEF Pass, Resolvable
<1>3. ASSUME StepFails PROVE Kept'
  BY <1>3, FailCases DEF StepFails, RemoveBundle
<1>4. ASSUME Unresolved PROVE Kept'
  BY <1>4, FailCases DEF Unresolved, Resolvable
<1>5. ASSUME CommandDies PROVE Kept'
  BY <1>5 DEF CommandDies
<1>6. ASSUME Copy PROVE Kept'
  BY <1>6, AdvanceOrder, FailCases DEF Copy, MayReserve, ReserveBundle
<1>7. ASSUME Move PROVE Kept'
  BY <1>7, AdvanceOrder DEF Move, CompleteBundle
<1>8. ASSUME Record PROVE Kept'
  BY <1>8, AdvanceOrder, RollbackCases, LedgerEvents DEF Record, AppendLedger
<1>9. ASSUME Backup PROVE Kept'
  BY <1>9, AdvanceOrder DEF Backup, BackupConfig, Resolvable
<1>10. ASSUME Replace PROVE Kept'
  BY <1>10, AdvanceOrder DEF Replace, ReplaceConfig
<1>11. ASSUME Flip PROVE Kept'
  BY <1>11, AdvanceOrder DEF Flip, FlipCurrent, Resolvable
<1>12. ASSUME WritePlist PROVE Kept'
  BY <1>12, AdvanceOrder DEF WritePlist
<1>13. ASSUME Bootout PROVE Kept'
  BY <1>13, AdvanceOrder DEF Bootout
<1>14. ASSUME WaitForExit PROVE Kept'
  BY <1>14, AdvanceOrder DEF WaitForExit
<1>15. ASSUME ExitTooSlow PROVE Kept'
  BY <1>15, FailCases DEF ExitTooSlow
<1>16. ASSUME Bootstrap PROVE Kept'
  BY <1>16, AdvanceOrder, FailCases DEF Bootstrap, Started
<1>17. ASSUME Preflight PROVE Kept'
  BY <1>17 DEF Preflight
<1>18. ASSUME Postflight PROVE Kept'
  BY <1>18, PostflightCases, PostflightInspects DEF Postflight
<1>19. ASSUME DaemonCrashes PROVE Kept'
  BY <1>19 DEF DaemonCrashes, Orphan
<1>20. ASSUME KeptAlive PROVE Kept'
  BY <1>20 DEF KeptAlive, Started
<1>21. ASSUME NEW image \in Images, Exits(image) PROVE Kept'
  BY <1>21 DEF Exits, Orphan
<1>22. ASSUME OperatorEdits PROVE Kept'
  BY <1>22 DEF OperatorEdits, EditConfig
<1>23. ASSUME RunsGoOn PROVE Kept'
  BY <1>23, RunsOnly
<1>24. ASSUME UNCHANGED vars PROVE Kept'
  BY <1>24 DEF vars
<1>25. QED
  BY <1>1, <1>2, <1>3, <1>4, <1>5, <1>6, <1>7, <1>8, <1>9, <1>10, <1>11, <1>12, <1>13, <1>14, <1>15, <1>16, <1>17, <1>18, <1>19, <1>20, <1>21, <1>22, <1>23, <1>24
    DEF Next, CommandSteps, AgentSteps

\* A verdict of a rollback finds the previous release restored.
LEMMA RestoresStep == ReleaseInv /\ [Next]_vars => RollbackRestores'
<1> SUFFICES ASSUME ReleaseInv, [Next]_vars PROVE RollbackRestores'
  OBVIOUS
<1> USE Constants DEF ReleaseInv, Kept, TypeOK, OnScript, Verdicts, Restarted, Restored, Promised, RollbackRestores, PostFlip, PostPlist, PostStart, Target, Started, StartImage, DeployNames, RollbackNames, SnapshotNames, RestartNames, Nested, Follows,
      Forget, Conclude, RollBack, CountFault, fileVars, commandVars, agentVars, workVars
<1>1. ASSUME NEW c \in DOMAIN StepsOf, NEW r \in Releases, Begin(c, r) PROVE RollbackRestores'
  BY <1>1, BeginOrder DEF Begin
<1>2. ASSUME Pass PROVE RollbackRestores'
  BY <1>2, AdvanceOrder DEF Pass, Resolvable
<1>3. ASSUME StepFails PROVE RollbackRestores'
  BY <1>3, FailCases DEF StepFails, RemoveBundle
<1>4. ASSUME Unresolved PROVE RollbackRestores'
  BY <1>4, FailCases DEF Unresolved, Resolvable
<1>5. ASSUME CommandDies PROVE RollbackRestores'
  BY <1>5 DEF CommandDies
<1>6. ASSUME Copy PROVE RollbackRestores'
  BY <1>6, AdvanceOrder, FailCases DEF Copy, MayReserve, ReserveBundle
<1>7. ASSUME Move PROVE RollbackRestores'
  BY <1>7, AdvanceOrder DEF Move, CompleteBundle
<1>8. ASSUME Record PROVE RollbackRestores'
  BY <1>8, AdvanceOrder, RollbackCases, LedgerEvents DEF Record, AppendLedger
<1>9. ASSUME Backup PROVE RollbackRestores'
  BY <1>9, AdvanceOrder DEF Backup, BackupConfig, Resolvable
<1>10. ASSUME Replace PROVE RollbackRestores'
  BY <1>10, AdvanceOrder DEF Replace, ReplaceConfig
<1>11. ASSUME Flip PROVE RollbackRestores'
  BY <1>11, AdvanceOrder DEF Flip, FlipCurrent, Resolvable
<1>12. ASSUME WritePlist PROVE RollbackRestores'
  BY <1>12, AdvanceOrder DEF WritePlist
<1>13. ASSUME Bootout PROVE RollbackRestores'
  BY <1>13, AdvanceOrder DEF Bootout
<1>14. ASSUME WaitForExit PROVE RollbackRestores'
  BY <1>14, AdvanceOrder DEF WaitForExit
<1>15. ASSUME ExitTooSlow PROVE RollbackRestores'
  BY <1>15, FailCases DEF ExitTooSlow
<1>16. ASSUME Bootstrap PROVE RollbackRestores'
  BY <1>16, AdvanceOrder, FailCases DEF Bootstrap, Started
<1>17. ASSUME Preflight PROVE RollbackRestores'
  BY <1>17 DEF Preflight
<1>18. ASSUME Postflight PROVE RollbackRestores'
  BY <1>18, PostflightCases, PostflightInspects DEF Postflight
<1>19. ASSUME DaemonCrashes PROVE RollbackRestores'
  BY <1>19 DEF DaemonCrashes, Orphan
<1>20. ASSUME KeptAlive PROVE RollbackRestores'
  BY <1>20 DEF KeptAlive, Started
<1>21. ASSUME NEW image \in Images, Exits(image) PROVE RollbackRestores'
  BY <1>21 DEF Exits, Orphan
<1>22. ASSUME OperatorEdits PROVE RollbackRestores'
  BY <1>22 DEF OperatorEdits, EditConfig
<1>23. ASSUME RunsGoOn PROVE RollbackRestores'
  BY <1>23, RunsOnly
<1>24. ASSUME UNCHANGED vars PROVE RollbackRestores'
  BY <1>24 DEF vars
<1>25. QED
  BY <1>1, <1>2, <1>3, <1>4, <1>5, <1>6, <1>7, <1>8, <1>9, <1>10, <1>11, <1>12, <1>13, <1>14, <1>15, <1>16, <1>17, <1>18, <1>19, <1>20, <1>21, <1>22, <1>23, <1>24
    DEF Next, CommandSteps, AgentSteps

\* A good verdict finds the release running.
LEMMA GoodRunsStep == ReleaseInv /\ [Next]_vars => GoodDeployRuns'
<1> SUFFICES ASSUME ReleaseInv, [Next]_vars PROVE GoodDeployRuns'
  OBVIOUS
<1> USE Constants DEF ReleaseInv, TypeOK, OnScript, Verdicts, Restarted, Promised, GoodDeployRuns, PostFlip, PostPlist, PostStart, Target, Started, StartImage, DeployNames, RollbackNames, SnapshotNames, RestartNames, Nested, Follows,
      Forget, Conclude, RollBack, CountFault, fileVars, commandVars, agentVars, workVars
<1>1. ASSUME NEW c \in DOMAIN StepsOf, NEW r \in Releases, Begin(c, r) PROVE GoodDeployRuns'
  BY <1>1, BeginOrder DEF Begin
<1>2. ASSUME Pass PROVE GoodDeployRuns'
  BY <1>2, AdvanceOrder DEF Pass, Resolvable
<1>3. ASSUME StepFails PROVE GoodDeployRuns'
  BY <1>3, FailCases DEF StepFails, RemoveBundle
<1>4. ASSUME Unresolved PROVE GoodDeployRuns'
  BY <1>4, FailCases DEF Unresolved, Resolvable
<1>5. ASSUME CommandDies PROVE GoodDeployRuns'
  BY <1>5 DEF CommandDies
<1>6. ASSUME Copy PROVE GoodDeployRuns'
  BY <1>6, AdvanceOrder, FailCases DEF Copy, MayReserve, ReserveBundle
<1>7. ASSUME Move PROVE GoodDeployRuns'
  BY <1>7, AdvanceOrder DEF Move, CompleteBundle
<1>8. ASSUME Record PROVE GoodDeployRuns'
  BY <1>8, AdvanceOrder, RollbackCases, LedgerEvents DEF Record, AppendLedger
<1>9. ASSUME Backup PROVE GoodDeployRuns'
  BY <1>9, AdvanceOrder DEF Backup, BackupConfig, Resolvable
<1>10. ASSUME Replace PROVE GoodDeployRuns'
  BY <1>10, AdvanceOrder DEF Replace, ReplaceConfig
<1>11. ASSUME Flip PROVE GoodDeployRuns'
  BY <1>11, AdvanceOrder DEF Flip, FlipCurrent, Resolvable
<1>12. ASSUME WritePlist PROVE GoodDeployRuns'
  BY <1>12, AdvanceOrder DEF WritePlist
<1>13. ASSUME Bootout PROVE GoodDeployRuns'
  BY <1>13, AdvanceOrder DEF Bootout
<1>14. ASSUME WaitForExit PROVE GoodDeployRuns'
  BY <1>14, AdvanceOrder DEF WaitForExit
<1>15. ASSUME ExitTooSlow PROVE GoodDeployRuns'
  BY <1>15, FailCases DEF ExitTooSlow
<1>16. ASSUME Bootstrap PROVE GoodDeployRuns'
  BY <1>16, AdvanceOrder, FailCases DEF Bootstrap, Started
<1>17. ASSUME Preflight PROVE GoodDeployRuns'
  BY <1>17 DEF Preflight
<1>18. ASSUME Postflight PROVE GoodDeployRuns'
  BY <1>18, PostflightCases, PostflightInspects DEF Postflight
<1>19. ASSUME DaemonCrashes PROVE GoodDeployRuns'
  BY <1>19 DEF DaemonCrashes, Orphan
<1>20. ASSUME KeptAlive PROVE GoodDeployRuns'
  BY <1>20 DEF KeptAlive, Started
<1>21. ASSUME NEW image \in Images, Exits(image) PROVE GoodDeployRuns'
  BY <1>21 DEF Exits, Orphan
<1>22. ASSUME OperatorEdits PROVE GoodDeployRuns'
  BY <1>22 DEF OperatorEdits, EditConfig
<1>23. ASSUME RunsGoOn PROVE GoodDeployRuns'
  BY <1>23, RunsOnly
<1>24. ASSUME UNCHANGED vars PROVE GoodDeployRuns'
  BY <1>24 DEF vars
<1>25. QED
  BY <1>1, <1>2, <1>3, <1>4, <1>5, <1>6, <1>7, <1>8, <1>9, <1>10, <1>11, <1>12, <1>13, <1>14, <1>15, <1>16, <1>17, <1>18, <1>19, <1>20, <1>21, <1>22, <1>23, <1>24
    DEF Next, CommandSteps, AgentSteps

\* A good verdict follows from the two inspections.
LEMMA LostNothingStep == ReleaseInv /\ [Next]_vars => GoodDeployLostNothing'
<1> SUFFICES ASSUME ReleaseInv, [Next]_vars PROVE GoodDeployLostNothing'
  OBVIOUS
<1> USE Constants DEF ReleaseInv, TypeOK, OnScript, Verdicts, Promised, GoodDeployLostNothing, DeployNames, RollbackNames, SnapshotNames, RestartNames, Nested, Follows,
      Forget, Conclude, RollBack, CountFault, fileVars, commandVars, agentVars, workVars
<1>1. ASSUME NEW c \in DOMAIN StepsOf, NEW r \in Releases, Begin(c, r) PROVE GoodDeployLostNothing'
  BY <1>1, BeginOrder DEF Begin
<1>2. ASSUME Pass PROVE GoodDeployLostNothing'
  BY <1>2, AdvanceOrder DEF Pass, Resolvable
<1>3. ASSUME StepFails PROVE GoodDeployLostNothing'
  BY <1>3, FailCases DEF StepFails, RemoveBundle
<1>4. ASSUME Unresolved PROVE GoodDeployLostNothing'
  BY <1>4, FailCases DEF Unresolved, Resolvable
<1>5. ASSUME CommandDies PROVE GoodDeployLostNothing'
  BY <1>5 DEF CommandDies
<1>6. ASSUME Copy PROVE GoodDeployLostNothing'
  BY <1>6, AdvanceOrder, FailCases DEF Copy, MayReserve, ReserveBundle
<1>7. ASSUME Move PROVE GoodDeployLostNothing'
  BY <1>7, AdvanceOrder DEF Move, CompleteBundle
<1>8. ASSUME Record PROVE GoodDeployLostNothing'
  BY <1>8, AdvanceOrder, RollbackCases, LedgerEvents DEF Record, AppendLedger
<1>9. ASSUME Backup PROVE GoodDeployLostNothing'
  BY <1>9, AdvanceOrder DEF Backup, BackupConfig, Resolvable
<1>10. ASSUME Replace PROVE GoodDeployLostNothing'
  BY <1>10, AdvanceOrder DEF Replace, ReplaceConfig
<1>11. ASSUME Flip PROVE GoodDeployLostNothing'
  BY <1>11, AdvanceOrder DEF Flip, FlipCurrent, Resolvable
<1>12. ASSUME WritePlist PROVE GoodDeployLostNothing'
  BY <1>12, AdvanceOrder DEF WritePlist
<1>13. ASSUME Bootout PROVE GoodDeployLostNothing'
  BY <1>13, AdvanceOrder DEF Bootout
<1>14. ASSUME WaitForExit PROVE GoodDeployLostNothing'
  BY <1>14, AdvanceOrder DEF WaitForExit
<1>15. ASSUME ExitTooSlow PROVE GoodDeployLostNothing'
  BY <1>15, FailCases DEF ExitTooSlow
<1>16. ASSUME Bootstrap PROVE GoodDeployLostNothing'
  BY <1>16, AdvanceOrder, FailCases DEF Bootstrap, Started
<1>17. ASSUME Preflight PROVE GoodDeployLostNothing'
  BY <1>17 DEF Preflight
<1>18. ASSUME Postflight PROVE GoodDeployLostNothing'
  <2>1. after' \in Inspection /\ windowOver' \in BOOLEAN /\ UNCHANGED before
    BY <1>18, PostflightInspects
  <2>2. CASE verdict' \in {"safe", "waiting"} /\ mode = "deploy" /\ step' = "recordDeploy"
    <3>1. verdict' = ClassifyDeploySafety(enabled, before, after', windowOver')
      BY <1>18, <2>2, PostflightCases DEF Postflight
    <3>2. ClassifyDeploySafety(enabled, before, after', windowOver') \in {"safe", "waiting"}
      BY <2>2, <3>1
    <3>3. /\ \A t \in Busy(before) :
               /\ after'.active[t] = before.active[t]
               /\ after'.state[after'.active[t]] \in {"queued", "running", "lapsed"}
          /\ after'.dead \subseteq before.dead
      BY <2>1, <3>2, ClassifiedGood
    <3> QED
      BY <2>1, <3>3 DEF Busy
  <2>3. CASE ~ (verdict' \in {"safe", "waiting"} /\ mode = "deploy" /\ step' = "recordDeploy")
    BY <1>18, <2>3, PostflightCases DEF Postflight
  <2> QED
    BY <2>2, <2>3
<1>19. ASSUME DaemonCrashes PROVE GoodDeployLostNothing'
  BY <1>19 DEF DaemonCrashes, Orphan
<1>20. ASSUME KeptAlive PROVE GoodDeployLostNothing'
  BY <1>20 DEF KeptAlive, Started
<1>21. ASSUME NEW image \in Images, Exits(image) PROVE GoodDeployLostNothing'
  BY <1>21 DEF Exits, Orphan
<1>22. ASSUME OperatorEdits PROVE GoodDeployLostNothing'
  BY <1>22 DEF OperatorEdits, EditConfig
<1>23. ASSUME RunsGoOn PROVE GoodDeployLostNothing'
  BY <1>23, RunsOnly
<1>24. ASSUME UNCHANGED vars PROVE GoodDeployLostNothing'
  BY <1>24 DEF vars
<1>25. QED
  BY <1>1, <1>2, <1>3, <1>4, <1>5, <1>6, <1>7, <1>8, <1>9, <1>10, <1>11, <1>12, <1>13, <1>14, <1>15, <1>16, <1>17, <1>18, <1>19, <1>20, <1>21, <1>22, <1>23, <1>24
    DEF Next, CommandSteps, AgentSteps

\* Every step keeps the types.
LEMMA TypeStep == ReleaseInv /\ [Next]_vars => TypeOK'
<1> SUFFICES ASSUME ReleaseInv, [Next]_vars PROVE TypeOK'
  OBVIOUS
<1>1. commands \in 0..MaxCommands /\ MaxCommands \in Nat
  BY Constants DEF ReleaseInv, TypeOK
<1>2. commands' = commands \/ (commands < MaxCommands /\ commands' = commands + 1)
  BY DEF Next, Begin, vars
<1>3. commands' \in 0..MaxCommands
  BY <1>1, <1>2
<1> QED
  BY <1>3, FilesStep, CommandStep, AgentStep, WorkStep, OnScriptStep, TypeParts

\* Before the first command there is nothing, or one release that is current and
\* runs.
LEMMA ReleaseInit == Init => ReleaseInv
<1> SUFFICES ASSUME Init PROVE ReleaseInv
  OBVIOUS
<1> USE Constants DEF Init, FilesInit
<1>1. FilesTypeOK
  BY DEF FilesTypeOK, Configs
<1>2. CommandOK
  BY NothingInspected DEF CommandOK
<1>3. AgentOK
  <2>1. (IF current = None THEN Repo ELSE current) \in Images
    BY DEF Images
  <2>2. 1 \in Configs
    BY DEF Configs
  <2>3. daemon \in [image : Images, config : Configs]
    BY <2>1, <2>2
  <2>4. plist \in {"repo", "current"} /\ loaded \in BOOLEAN /\ leaving = {}
        /\ blind \in BOOLEAN /\ risked \in BOOLEAN
    OBVIOUS
  <2> QED
    BY <2>3, <2>4 DEF AgentOK
<1>4. WorkOK
  BY DEF WorkOK
<1>5. OnScript
  BY DEF OnScript, Nested
<1>6. TypeOK
  BY <1>1, <1>2, <1>3, <1>4, <1>5, TypeParts
<1>7. Verdicts /\ Fresh /\ Restarted /\ Untouched
  BY DEF Verdicts, Fresh, Restarted, Untouched, Nested, PreFlip, PostFlip, PostPlist, PostStart
<1>8. Ledger
  BY DEF Ledger, Configs
<1>9. Restored /\ Alone
  BY DEF Restored, ConfigIsKept, Alone, OneDaemon, Nested, PostFlip
<1>10. Promised
  BY DEF Promised, HarmlessUntilFlipped, FlippedDeployIsCompensated, Kept, RollbackRestores,
         GoodDeployRuns, GoodDeployLostNothing
<1> QED
  BY <1>5, <1>6, <1>7, <1>8, <1>9, <1>10 DEF ReleaseInv

\* The invariant holds of every reachable state.
LEMMA ReleaseInvariant == Spec => []ReleaseInv
<1>1. ReleaseInv /\ [Next]_vars => ReleaseInv'
  <2>1. ReleaseInv /\ [Next]_vars => Promised'
    BY HarmlessStep, CompensatedStep, KeptStep, RestoresStep, GoodRunsStep, LostNothingStep
       DEF Promised
  <2> QED
    BY <2>1, TypeStep, OnScriptStep, VerdictsStep, LedgerStep, FreshStep, RestartedStep,
       RestoredStep, AloneStep, UntouchedStep DEF ReleaseInv
<1> QED
  BY <1>1, ReleaseInit, PTL DEF Spec

-----------------------------------------------------------------------------
\* Files, commands, the agent and run control keep their types, and a command is
\* at a step exactly while it runs.
THEOREM TypeCorrect == Spec => []TypeOK
<1>1. ReleaseInv => TypeOK
  BY DEF ReleaseInv
<1> QED
  BY <1>1, ReleaseInvariant, PTL

\* Whatever commands failed or died before, a daemon is never started beside one
\* that has not exited, unless it is forced or ps failed when the start looked
\* (startLaunchAgent, waitForDaemonProcessesToExit).
THEOREM OneDaemonAtATime == Spec => []OneDaemon
<1>1. ReleaseInv => OneDaemon
  BY DEF ReleaseInv, Alone
<1> QED
  BY <1>1, ReleaseInvariant, PTL

\* Whatever fails or dies, releases/current names a release that can be resolved
\* and run (createReleaseSnapshot, activateRelease).
THEOREM CurrentCanRun == Spec => []CurrentIsRunnable
<1>1. ReleaseInv => CurrentIsRunnable
  BY DEF ReleaseInv, Ledger, CurrentIsRunnable, Resolvable
<1> QED
  BY <1>1, ReleaseInvariant, PTL

\* The config that a command found is live or backed up at every step of it
\* (backupAndRestoreReleaseConfig).
THEOREM ConfigSurvives == Spec => []ConfigIsKept
<1>1. ReleaseInv => ConfigIsKept
  BY DEF ReleaseInv, Restored
<1> QED
  BY <1>1, ReleaseInvariant, PTL

\* A deploy that fails before its flip has changed nothing that runs
\* (releaseDeployTransitionMachine).
THEOREM FailureIsHarmless == Spec => []HarmlessUntilFlipped
<1>1. ReleaseInv => HarmlessUntilFlipped
  BY DEF ReleaseInv, Promised
<1> QED
  BY <1>1, ReleaseInvariant, PTL

\* A deploy that fails after a recorded activation, with a release to go back to,
\* has rolled back or tried to (rollbackAfterMutationFailure).
THEOREM FailureIsCompensated == Spec => []FlippedDeployIsCompensated
<1>1. ReleaseInv => FlippedDeployIsCompensated
  BY DEF ReleaseInv, Promised
<1> QED
  BY <1>1, ReleaseInvariant, PTL

\* A completed automatic rollback has brought back the previous release, its
\* config and a daemon that runs both (runReleaseRollbackCommand).
THEOREM RollbackIsComplete == Spec => []RollbackRestores
<1>1. ReleaseInv => RollbackRestores
  BY DEF ReleaseInv, Promised
<1> QED
  BY <1>1, ReleaseInvariant, PTL

\* A deploy is reported good only while launchd keeps its release running
\* (releaseDeployTransitionMachine).
THEOREM GoodDeployIsRunning == Spec => []GoodDeployRuns
<1>1. ReleaseInv => GoodDeployRuns
  BY DEF ReleaseInv, Promised
<1> QED
  BY <1>1, ReleaseInvariant, PTL

\* A deploy is reported good only if its inspections show no run lost
\* (classifyDeploySafety).
THEOREM GoodDeployKeptRuns == Spec => []GoodDeployLostNothing
<1>1. ReleaseInv => GoodDeployLostNothing
  BY DEF ReleaseInv, Promised
<1> QED
  BY <1>1, ReleaseInvariant, PTL
==============================================================================
