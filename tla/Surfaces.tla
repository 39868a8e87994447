------------------------------- MODULE Surfaces -------------------------------
(***************************************************************************)
(* What the bot shows in Discord besides the answer itself: the status     *)
(* card of a run (ProgressHud), the results of background subagents        *)
(* (SubagentResults) and the status of captured links (LinkIngest).        *)
(*                                                                         *)
(* The three share the bot process and no state: no action of one reads or *)
(* writes a variable of another, so their interleavings show nothing that  *)
(* one of them alone does not show.  Init gives work to one of them.       *)
(***************************************************************************)
EXTENDS ProgressHud, SubagentResults, LinkIngest

vars == <<hudVars, resultVars, linkVars>>

Init ==
  \/ HudInit(1) /\ ResultsInit({}) /\ LinkInit("told")
  \/ HudInit(MaxHuds + 1) /\ ResultsInit(Results) /\ LinkInit("told")
  \/ HudInit(MaxHuds + 1) /\ ResultsInit({}) /\ LinkInit("asked")

OfHud(A) == A /\ UNCHANGED <<resultVars, linkVars>>
OfResults(A) == A /\ UNCHANGED <<hudVars, linkVars>>
OfLink(A) == A /\ UNCHANGED <<hudVars, resultVars>>

HudSteps(h) ==
  \/ OfHud(StartAttempt(h)) \/ OfHud(TurnStarts(h)) \/ OfHud(TurnEnds(h))
  \/ OfHud(StopReturns(h))
  \/ OfHud(Finish(h, Archived)) \/ OfHud(Finish(h, Failed)) \/ OfHud(FinishRefused(h))
  \/ OfHud(Progress(h)) \/ OfHud(Frame(h))
  \/ OfHud(TimerFires(h)) \/ OfHud(RenderDone(h))
  \/ OfHud(EditLands(h)) \/ OfHud(EditRefused(h))

ResultSteps(r) ==
  \/ OfResults(SubagentEnds(r))
  \/ OfResults(SessionFileRecorded(r)) \/ OfResults(SessionReplaced(r))
  \/ OfResults(Read(r)) \/ OfResults(SendChunk(r)) \/ OfResults(Unlink(r))
  \/ OfResults(ReadFails(r)) \/ OfResults(ProcessFails(r))

LinkSteps(k) ==
  \/ OfLink(StatusEvent(k)) \/ OfLink(Redelivered(k))
  \/ OfLink(Resolve(k)) \/ OfLink(PostStatus(k)) \/ OfLink(RecordStatus(k))
  \/ OfLink(StepFails(k))

Next ==
  \/ OfHud(ShowQueued)
  \/ \E h \in Huds : HudSteps(h)
  \/ OfResults(Scan) \/ OfResults(BridgeRestarts)
  \/ \E r \in Results : ResultSteps(r)
  \/ OfLink(RecordIngest) \/ OfLink(PostIngest) \/ OfLink(PostTimesOut)
  \/ OfLink(RecordOutcome) \/ OfLink(IntakeDies)
  \/ \E k \in Kinds : LinkSteps(k)

\* Timers fire, promises settle, Inngest runs the functions it has events for.
\* Nothing is assumed of turns, operators, subagents, Central or faults.  Each
\* component's own code goes on; which of its steps comes next is left open.
Renders(h) == TimerFires(h) \/ RenderDone(h) \/ EditLands(h)
Publishes == Scan \/ \E r \in Results : Read(r) \/ SendChunk(r) \/ Unlink(r)
Handles == \E k \in Kinds : Resolve(k) \/ PostStatus(k) \/ RecordStatus(k)

Fairness ==
  /\ \A h \in Huds : WF_hudVars(Renders(h))
  /\ WF_resultVars(Publishes)
  /\ WF_linkVars(Handles)

Spec == Init /\ [][Next]_vars /\ Fairness
=============================================================================
