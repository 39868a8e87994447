--------------------------- MODULE SubagentResults ---------------------------
(***************************************************************************)
(* The bridge from background subagents to Discord: every few seconds the  *)
(* bot scans the directory where subagents leave their result files, posts *)
(* each result, chunk by chunk, in the thread whose Pi session started the *)
(* subagent, and deletes the file.                                         *)
(*                                                                         *)
(* The scans of one process do not overlap, the files of one scan are      *)
(* handled concurrently.  What has been posted is remembered in memory     *)
(* only.                                                                   *)
(***************************************************************************)
EXTENDS Naturals

CONSTANTS
  Results,          \* the result files, each of a run of its own
  Chunks,           \* the Discord messages a result takes
  MaxBridgeFaults   \* bound on failed calls and crashes

ASSUME ResultsAssumption ==
  /\ Chunks \in Nat \ {0}
  /\ MaxBridgeFaults \in Nat

VARIABLES
  file,        \* whether a result is still to come, on disk, or deleted
  known,       \* results whose session file a thread record names
  seen,        \* the process's set of results posted or being posted
  scan,        \* results the scan under way has yet to finish
  posting,     \* a result being processed: chunks sent so far, or 0
  delivered,   \* results whose chunks have all been sent
  bridgeFaults

resultVars == <<file, known, seen, scan, posting, delivered, bridgeFaults>>

ResultsInit(some) ==
  /\ file = [r \in Results |-> IF r \in some THEN "coming" ELSE "deleted"]
  /\ known = {}
  /\ seen = {}
  /\ scan = [r \in Results |-> "none"]
  /\ posting = [r \in Results |-> 0]
  /\ delivered = {}
  /\ bridgeFaults = 0

Fault ==
  /\ bridgeFaults < MaxBridgeFaults
  /\ bridgeFaults' = bridgeFaults + 1

To(r, step) == scan' = [scan EXCEPT ![r] = step]

-----------------------------------------------------------------------------
(* The surroundings. *)

SubagentEnds(r) ==
  /\ file[r] = "coming"
  /\ file' = [file EXCEPT ![r] = "written"]
  /\ UNCHANGED <<known, seen, scan, posting, delivered, bridgeFaults>>

\* The registry learns a thread's session file when a prompt starts.
SessionFileRecorded(r) ==
  /\ file[r] # "deleted"
  /\ known' = known \cup {r}
  /\ UNCHANGED <<file, seen, scan, posting, delivered, bridgeFaults>>

\* /pi resume gives the thread the session file of another.
SessionReplaced(r) ==
  /\ file[r] # "deleted"
  /\ r \in known
  /\ known' = known \ {r}
  /\ UNCHANGED <<file, seen, scan, posting, delivered, bridgeFaults>>

-----------------------------------------------------------------------------
(* startAsyncSubagentResultBridge and processAsyncSubagentResultFile. *)

\* The interval's scan is dropped while one is under way.
Scan ==
  /\ \A r \in Results : scan[r] = "none"
  /\ \E r \in Results : file[r] = "written"
  /\ scan' = [r \in Results |-> IF file[r] = "written" THEN "reading" ELSE "none"]
  /\ UNCHANGED <<file, known, seen, posting, delivered, bridgeFaults>>

\* No await lies between the look at seen and the addition to it.  A result
\* of an unknown thread stays for a later scan.
Read(r) ==
  /\ scan[r] = "reading"
  /\ IF r \in seen \/ r \notin known
     THEN To(r, "none") /\ UNCHANGED seen
     ELSE To(r, "posting") /\ seen' = seen \cup {r}
  /\ posting' = [posting EXCEPT ![r] = 0]
  /\ UNCHANGED <<file, known, delivered, bridgeFaults>>

\* A file that cannot be read or parsed is left to a later scan.
ReadFails(r) ==
  /\ scan[r] = "reading"
  /\ Fault
  /\ To(r, "none")
  /\ UNCHANGED <<file, known, seen, posting, delivered>>

SendChunk(r) ==
  /\ scan[r] = "posting"
  /\ posting' = [posting EXCEPT ![r] = @ + 1]
  /\ IF posting'[r] = Chunks
     THEN To(r, "deleting") /\ delivered' = delivered \cup {r}
     ELSE UNCHANGED <<scan, delivered>>
  /\ UNCHANGED <<file, known, seen, bridgeFaults>>

Unlink(r) ==
  /\ scan[r] = "deleting"
  /\ file' = [file EXCEPT ![r] = "deleted"]
  /\ To(r, "none")
  /\ UNCHANGED <<known, seen, posting, delivered, bridgeFaults>>

\* Neither a failed send nor a failed unlink is forgotten: a later scan starts
\* the result again, from its first chunk.  (Mutant first: a failure leaves
\* the result in seen.)
ForgetNothing(r) == seen
Forget(r) == seen \ {r}

ProcessFails(r) ==
  /\ scan[r] \in {"posting", "deleting"}
  /\ Fault
  /\ seen' = Forget(r)
  /\ To(r, "none")
  /\ UNCHANGED <<file, known, posting, delivered>>

\* A restart forgets what was posted.  (With nothing left to post it changes
\* nothing.)
BridgeRestarts ==
  /\ \E r \in Results : file[r] # "deleted"
  /\ Fault
  /\ seen' = {}
  /\ scan' = [r \in Results |-> "none"]
  /\ UNCHANGED <<file, known, posting, delivered>>

-----------------------------------------------------------------------------
\* A result whose thread is known reaches it in full, in the face of failed
\* reads, sends and deletions and of restarts, unless the thread is resumed with
\* another session first: the file goes only after its last chunk is posted,
\* and a failure makes a later scan start it again
\* (async-subagent-result-bridge.ts 81-112).
ResultsReachTheirThread ==
  \A r \in Results :
    (file[r] = "written" /\ r \in known) ~> (r \in delivered \/ r \notin known)
=============================================================================
