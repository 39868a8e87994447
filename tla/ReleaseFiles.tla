---------------------------- MODULE ReleaseFiles ----------------------------
(***************************************************************************)
(* What the release commands keep on disk under dataDir/releases, and the  *)
(* live config file: release-snapshots.ts.                                 *)
(*                                                                         *)
(* A release id is a timestamp in seconds and a commit, so that the same   *)
(* id may be asked for twice.  File contents are abstracted to which       *)
(* version of the config a file holds; copying, digests and permissions    *)
(* are steps that succeed or fail.                                         *)
(***************************************************************************)
EXTENDS Naturals, FiniteSets

CONSTANTS
  Releases,    \* release ids
  MaxConfig,   \* bound on the versions the operator gives the config file
  None

ASSUME ReleaseFilesAssumption ==
  /\ None \notin Releases
  /\ MaxConfig \in Nat \ {0}

VARIABLES
  bundle,       \* the directory of each release: absent, reserved or complete
  savedConfig,  \* the config version each bundle holds
  listed,       \* releases with a snapshot entry in ledger.jsonl
  activated,    \* releases with an activate entry in it
  current,      \* the release the symlink releases/current names, or None
  config,       \* the version in the live config file
  backups       \* the versions that config.json.backup-* files hold

fileVars == <<bundle, savedConfig, listed, activated, current, config, backups>>

Configs == 1..MaxConfig

FilesTypeOK ==
  /\ bundle \in [Releases -> {"absent", "reserved", "complete"}]
  /\ savedConfig \in [Releases -> Configs \cup {None}]
  /\ listed \subseteq Releases /\ activated \subseteq Releases
  /\ current \in Releases \cup {None}
  /\ config \in Configs
  /\ backups \subseteq Configs

\* First setup, or one release, made from this very config, is current.
FilesInit ==
  /\ current \in Releases \cup {None}
  /\ bundle = [r \in Releases |-> IF r = current THEN "complete" ELSE "absent"]
  /\ savedConfig = [r \in Releases |-> IF r = current THEN 1 ELSE None]
  /\ listed = Releases \cap {current}
  /\ activated = Releases \cap {current}
  /\ config = 1
  /\ backups = {}

-----------------------------------------------------------------------------
(* createReleaseSnapshot. *)

\* mkdir without recursive: an existing directory of that id is not ours.
MayReserve(r) == bundle[r] = "absent"

\* The copies are staged in a directory of their own, then the id is reserved.
ReserveBundle(r) ==
  /\ bundle' = [bundle EXCEPT ![r] = "reserved"]
  /\ savedConfig' = [savedConfig EXCEPT ![r] = config]
  /\ UNCHANGED <<listed, activated, current, config, backups>>

\* moveSnapshotArtifacts, the manifest last.
CompleteBundle(r) ==
  /\ bundle' = [bundle EXCEPT ![r] = "complete"]
  /\ UNCHANGED <<savedConfig, listed, activated, current, config, backups>>

\* The cleanup of a snapshot that failed after it reserved its id.
RemoveBundle(r) ==
  /\ bundle' = [bundle EXCEPT ![r] = "absent"]
  /\ savedConfig' = [savedConfig EXCEPT ![r] = None]
  /\ UNCHANGED <<listed, activated, current, config, backups>>

\* appendReleaseLedgerEntry.  Nothing reads entries of the other events back.
AppendLedger(event, r) ==
  /\ listed' = IF event = "snapshot" THEN listed \cup {r} ELSE listed
  /\ activated' = IF event = "activate" THEN activated \cup {r} ELSE activated
  /\ UNCHANGED <<bundle, savedConfig, current, config, backups>>

-----------------------------------------------------------------------------
(* resolveReleaseSnapshot with assertReleaseRunnable, activateRelease and  *)
(* backupAndRestoreReleaseConfig.                                          *)

Resolvable(r) == r \in listed /\ bundle[r] = "complete"

FlipCurrent(r) ==
  /\ current' = r
  /\ UNCHANGED <<bundle, savedConfig, listed, activated, config, backups>>

\* (Mutant first: the live file is overwritten without a backup.)
BackupNothing == UNCHANGED fileVars

BackupConfig ==
  /\ backups' = backups \cup {config}
  /\ UNCHANGED <<bundle, savedConfig, listed, activated, current, config>>

\* A copy beside the config file, renamed over it.
ReplaceConfig(r) ==
  /\ config' = savedConfig[r]
  /\ UNCHANGED <<bundle, savedConfig, listed, activated, current, backups>>

\* The operator edits the config file.
EditConfig(v) ==
  /\ v > config
  /\ config' = v
  /\ UNCHANGED <<bundle, savedConfig, listed, activated, current, backups>>
=============================================================================
