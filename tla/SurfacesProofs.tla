---------------------------- MODULE SurfacesProofs ----------------------------
(***************************************************************************)
(* That the final card of a run stands, for any number of attempts, events *)
(* and refused edits.                                                      *)
(***************************************************************************)
EXTENDS Surfaces, SequenceTheorems, TLAPS

-----------------------------------------------------------------------------
(***************************************************************************)
(* The invariant, in parts.                                                *)
(***************************************************************************)

News == [progress : 0..MaxNews, frame : 0..MaxNews]
Machines == [at : {"idle", "running", "scheduled", "flushing", "stopping", "stopped"}, knows : News]

\* A HUD only draws the cards of its own news.
HudTypes ==
  /\ hud \in [Huds -> Machines]
  /\ attempt \in [Huds -> {"none", "starting", "streaming", "stopping", "stopped", "over"}]
  /\ edits \in [Huds -> Seq(0..MaxNews)]
  /\ told \in [Huds -> News]
  /\ placeholder \in [by : 0..MaxHuds, shows : 0..MaxNews \cup {Queued} \cup Settled]
  /\ queuing \in BOOLEAN

\* A machine draws only between the beginning of its turn and stop(), and what it
\* had queued is drawn when stop() returns.
Stopping ==
  \A h \in Huds :
    /\ attempt[h] = "none" => edits[h] = <<>>
    /\ attempt[h] \in {"none", "starting"} => hud[h].at = "idle"
    /\ attempt[h] = "stopping" => hud[h].at \in {"stopping", "stopped"}
    /\ attempt[h] \in {"stopped", "over"} =>
         edits[h] = <<>> /\ hud[h].at \in {"idle", "stopped"}

\* Attempts start in order.
Ordered == \E k \in 0..MaxHuds : Started = 1..k

\* The final card is shown by the last attempt, and after it none starts.
Final == placeholder.shows \in Settled => Owner # 0 /\ attempt[Owner] = "over"

HudInv == HudTypes /\ Stopping /\ Ordered /\ Final

-----------------------------------------------------------------------------
\* A step of the handler, of the HUDs, of the renderers or of the attempts.
HudNext ==
  \/ ShowQueued
  \/ \E h \in Huds :
       \/ StartAttempt(h) \/ TurnStarts(h) \/ TurnEnds(h) \/ StopReturns(h)
       \/ (\E shows \in Settled : Finish(h, shows)) \/ FinishRefused(h)
       \/ Progress(h) \/ Frame(h) \/ TimerFires(h) \/ RenderDone(h)
       \/ EditLands(h) \/ EditRefused(h)

\* To the status card, subagent results and captured links are stutters.
LEMMA OnlyHudsTouchTheCard == [Next]_vars => [HudNext]_hudVars
<1> SUFFICES ASSUME [Next]_vars PROVE [HudNext]_hudVars
  OBVIOUS
<1>1. ASSUME NEW h \in Huds, HudSteps(h) PROVE HudNext
  BY <1>1 DEF HudSteps, OfHud, HudNext, Settled
<1>2. ASSUME NEW r \in Results, ResultSteps(r) PROVE UNCHANGED hudVars
  BY <1>2 DEF ResultSteps, OfResults
<1>3. ASSUME NEW k \in Kinds, LinkSteps(k) PROVE UNCHANGED hudVars
  BY <1>3 DEF LinkSteps, OfLink
<1>4. ASSUME \/ OfResults(Scan) \/ OfResults(BridgeRestarts)
             \/ OfLink(RecordIngest) \/ OfLink(PostIngest) \/ OfLink(PostTimesOut)
             \/ OfLink(RecordOutcome) \/ OfLink(IntakeDies)
      PROVE UNCHANGED hudVars
  BY <1>4 DEF OfResults, OfLink
<1>5. ASSUME UNCHANGED vars PROVE UNCHANGED hudVars
  BY <1>5 DEF vars
<1>6. ASSUME OfHud(ShowQueued) PROVE HudNext
  BY <1>6 DEF OfHud, HudNext
<1> QED
  BY <1>1, <1>2, <1>3, <1>4, <1>5, <1>6 DEF Next

\* The bounds are numbers, and the final cards are no card of a HUD.
LEMMA Numbers ==
  /\ MaxHuds \in Nat /\ MaxNews \in Nat
  /\ Settled \cap (0..MaxNews \cup {Queued}) = {}
  BY HudAssumption DEF Settled, Queued, Archived, Failed

\* The latest of the attempts 1..k is k.
LEMMA LatestOwns == ASSUME NEW k \in 0..MaxHuds, Started = 1..k PROVE Owner = k
<1>1. CASE k = 0
  BY <1>1 DEF Owner
<1>2. CASE k # 0
  <2>1. k \in Started /\ \A g \in Started : g <= k
    BY <1>2, Numbers
  <2>2. \A x \in Started : (\A g \in Started : g <= x) => x = k
    BY <2>1, Numbers
  <2>3. (CHOOSE x \in Started : \A g \in Started : g <= x) = k
    BY <2>1, <2>2
  <2> QED
    BY <2>1, <2>3 DEF Owner
<1> QED
  BY <1>1, <1>2

\* What a machine knows has a card of its own, and so has the next event.
LEMMA Cards ==
  /\ \A n \in News : Payload(n) \in 0..MaxNews
  /\ HudTypes => \A h \in Huds : Number(h) \in Nat
  BY Numbers DEF News, Payload, HudTypes, Number

\* A renderer queues the payloads it is given.
LEMMA RenderTypes ==
  ASSUME HudTypes, NEW h \in Huds, NEW payload \in 0..MaxNews, Render(h, payload)
  PROVE  edits' \in [Huds -> Seq(0..MaxNews)]
<1>1. Append(edits[h], payload) \in Seq(0..MaxNews)
  BY AppendProperties DEF HudTypes
<1> QED
  BY <1>1 DEF Render, HudTypes

\* A machine that is told news knows them.
LEMMA ShownTypes ==
  ASSUME HudTypes, NEW h \in Huds, NEW news \in News, Flush(h, news) \/ Schedule(h, news)
  PROVE  hud' \in [Huds -> Machines] /\ edits' \in [Huds -> Seq(0..MaxNews)]
<1>1. Payload(news) \in 0..MaxNews
  BY Cards
<1>2. CASE Flush(h, news)
  <2>1. Render(h, Payload(news)) /\ hud' = [hud EXCEPT ![h] = [at |-> "flushing", knows |-> news]]
    BY <1>2 DEF Flush
  <2>2. edits' \in [Huds -> Seq(0..MaxNews)]
    BY <1>1, <2>1, RenderTypes
  <2>3. hud' \in [Huds -> Machines]
    BY <2>1 DEF Machines, HudTypes
  <2> QED
    BY <2>2, <2>3
<1>3. CASE Schedule(h, news)
  BY <1>3 DEF Schedule, Machines, HudTypes
<1> QED
  BY <1>2, <1>3

\* A HUD queues the news it was told, and edits are drawn from its queue.
LEMMA TypesStep == HudTypes /\ [HudNext]_hudVars => HudTypes'
<1> SUFFICES ASSUME HudTypes, [HudNext]_hudVars PROVE HudTypes'
  OBVIOUS
<1>1. ASSUME NEW h \in Huds, StartAttempt(h) PROVE HudTypes'
  <2>1. edits' \in [Huds -> Seq(0..MaxNews)]
    <3>1. <<0>> \in Seq(0..MaxNews)
      BY Numbers
    <3> QED
      BY <1>1, <3>1 DEF StartAttempt, HudTypes
  <2>2. attempt' \in [Huds -> {"none", "starting", "streaming", "stopping", "stopped", "over"}]
    BY <1>1 DEF StartAttempt, HudTypes
  <2> QED
    BY <1>1, <2>1, <2>2 DEF StartAttempt, HudTypes
<1>2. ASSUME NEW h \in Huds, TurnStarts(h) PROVE HudTypes'
  BY <1>2 DEF TurnStarts, HudTypes
<1>3. ASSUME NEW h \in Huds, TurnEnds(h) PROVE HudTypes'
  <2>1. hud' \in [Huds -> Machines]
    BY <1>3 DEF TurnEnds, HudTypes, Machines
  <2> QED
    BY <1>3, <2>1 DEF TurnEnds, HudTypes
<1>4. ASSUME NEW h \in Huds, StopReturns(h) PROVE HudTypes'
  <2>1. hud' \in [Huds -> Machines]
    BY <1>4 DEF StopReturns, HudTypes, Machines
  <2> QED
    BY <1>4, <2>1 DEF StopReturns, HudTypes
<1>5. ASSUME NEW h \in Huds, NEW shows \in Settled, Finish(h, shows) PROVE HudTypes'
  <2>1. placeholder' \in [by : 0..MaxHuds, shows : 0..MaxNews \cup {Queued} \cup Settled]
    BY <1>5, Numbers DEF Finish, Huds
  <2> QED
    BY <1>5, <2>1 DEF Finish, HudTypes
<1>6. ASSUME NEW h \in Huds, FinishRefused(h) PROVE HudTypes'
  BY <1>6 DEF FinishRefused, HudTypes
<1>7. ASSUME NEW h \in Huds, Progress(h) PROVE HudTypes'
  <2>1. Number(h) \in 0..MaxNews
    BY <1>7, Numbers, Cards DEF Progress
  <2>2. told' \in [Huds -> News] /\ told'[h] \in News
    BY <1>7, <2>1 DEF Progress, HudTypes, News
  <2>3. Flush(h, told'[h]) \/ Schedule(h, told'[h])
    BY <1>7 DEF Progress, Shown, Remember
  <2>4. hud' \in [Huds -> Machines] /\ edits' \in [Huds -> Seq(0..MaxNews)]
    BY <2>2, <2>3, ShownTypes
  <2> QED
    BY <1>7, <2>2, <2>4 DEF Progress, HudTypes
<1>8. ASSUME NEW h \in Huds, Frame(h) PROVE HudTypes'
  <2>1. Number(h) \in 0..MaxNews
    BY <1>8, Numbers, Cards DEF Frame
  <2>2. told' \in [Huds -> News] /\ told'[h] \in News
    BY <1>8, <2>1 DEF Frame, HudTypes, News
  <2>3. hud' \in [Huds -> Machines] /\ edits' \in [Huds -> Seq(0..MaxNews)]
    <3>1. CASE hud[h].at = "idle"
      <4>1. hud' = [hud EXCEPT ![h].knows = told'[h]] /\ edits' = edits
        BY <1>8, <3>1 DEF Frame, Remember
      <4> QED
        BY <2>2, <4>1 DEF HudTypes, Machines
    <3>2. CASE hud[h].at # "idle"
      <4>1. Flush(h, told'[h]) \/ Schedule(h, told'[h])
        BY <1>8, <3>2 DEF Frame, Shown, Remember
      <4> QED
        BY <2>2, <4>1, ShownTypes
    <3> QED
      BY <3>1, <3>2
  <2> QED
    BY <1>8, <2>2, <2>3 DEF Frame, HudTypes
<1>9. ASSUME NEW h \in Huds, TimerFires(h) PROVE HudTypes'
  <2>1. hud[h].knows \in News
    BY DEF HudTypes, Machines
  <2>2. hud' \in [Huds -> Machines] /\ edits' \in [Huds -> Seq(0..MaxNews)]
    BY <1>9, <2>1, ShownTypes DEF TimerFires
  <2> QED
    BY <1>9, <2>2 DEF TimerFires, HudTypes
<1>10. ASSUME NEW h \in Huds, RenderDone(h) PROVE HudTypes'
  <2>1. hud' \in [Huds -> Machines]
    BY <1>10 DEF RenderDone, HudTypes, Machines
  <2> QED
    BY <1>10, <2>1 DEF RenderDone, HudTypes
<1>11. ASSUME NEW h \in Huds, EditLands(h) PROVE HudTypes'
  <2>1. edits[h] \in Seq(0..MaxNews) /\ edits[h] # <<>>
    BY <1>11 DEF EditLands, HudTypes
  <2>2. Head(edits[h]) \in 0..MaxNews /\ Tail(edits[h]) \in Seq(0..MaxNews)
    BY <2>1, HeadTailProperties
  <2>3. edits' \in [Huds -> Seq(0..MaxNews)]
    BY <1>11, <2>2 DEF EditLands, HudTypes
  <2>4. placeholder' \in [by : 0..MaxHuds, shows : 0..MaxNews \cup {Queued} \cup Settled]
    BY <1>11, <2>2, Numbers DEF EditLands, Huds
  <2> QED
    BY <1>11, <2>3, <2>4 DEF EditLands, HudTypes
<1>12. ASSUME NEW h \in Huds, EditRefused(h) PROVE HudTypes'
  <2>1. edits[h] \in Seq(0..MaxNews) /\ edits[h] # <<>>
    BY <1>12 DEF EditRefused, HudTypes
  <2>2. Tail(edits[h]) \in Seq(0..MaxNews)
    BY <2>1, HeadTailProperties
  <2>3. edits' \in [Huds -> Seq(0..MaxNews)]
    BY <1>12, <2>2 DEF EditRefused, HudTypes
  <2> QED
    BY <1>12, <2>3 DEF EditRefused, HudTypes
<1>13. ASSUME UNCHANGED hudVars PROVE HudTypes'
  BY <1>13 DEF hudVars, HudTypes
<1>14. ASSUME ShowQueued PROVE HudTypes'
  <2>1. placeholder' \in [by : 0..MaxHuds, shows : 0..MaxNews \cup {Queued} \cup Settled]
    BY <1>14, Numbers DEF ShowQueued, HudTypes
  <2> QED
    BY <1>14, <2>1 DEF ShowQueued, HudTypes
<1> QED
  BY <1>1, <1>2, <1>3, <1>4, <1>5, <1>6, <1>7, <1>8, <1>9, <1>10, <1>11, <1>12, <1>13, <1>14 DEF HudNext

\* stop() waits for the queue, and a stopped machine queues nothing more.
LEMMA StoppingStep == HudTypes /\ Stopping /\ Ordered /\ [HudNext]_hudVars => Stopping'
<1> SUFFICES ASSUME HudTypes /\ Stopping /\ Ordered, [HudNext]_hudVars PROVE Stopping'
  OBVIOUS
<1> USE Numbers DEF HudTypes, Stopping, Huds, Machines, Remember, Flush, Schedule, Render, Shown, Flushed
<1>1. ASSUME NEW h \in Huds, StartAttempt(h) PROVE Stopping'
  <2>1. attempt[h] = "none"
    <3>1. PICK k \in 0..MaxHuds : Started = 1..k
      BY DEF Ordered
    <3>2. Owner = k
      BY <3>1, LatestOwns
    <3>3. h = k + 1
      BY <1>1, <3>2 DEF StartAttempt
    <3>4. h \notin Started
      BY <3>1, <3>3, Numbers
    <3> QED
      BY <3>4 DEF Started
  <2> QED
    BY <1>1, <2>1 DEF StartAttempt
<1>2. ASSUME NEW h \in Huds, TurnStarts(h) PROVE Stopping'
  BY <1>2 DEF TurnStarts
<1>3. ASSUME NEW h \in Huds, TurnEnds(h) PROVE Stopping'
  BY <1>3 DEF TurnEnds
<1>4. ASSUME NEW h \in Huds, StopReturns(h) PROVE Stopping'
  BY <1>4 DEF StopReturns
<1>5. ASSUME NEW h \in Huds, NEW shows \in Settled, Finish(h, shows) PROVE Stopping'
  BY <1>5 DEF Finish
<1>6. ASSUME NEW h \in Huds, FinishRefused(h) PROVE Stopping'
  BY <1>6 DEF FinishRefused
<1>7. ASSUME NEW h \in Huds, Progress(h) PROVE Stopping'
  BY <1>7 DEF Progress
<1>8. ASSUME NEW h \in Huds, Frame(h) PROVE Stopping'
  BY <1>8 DEF Frame
<1>9. ASSUME NEW h \in Huds, TimerFires(h) PROVE Stopping'
  BY <1>9 DEF TimerFires
<1>10. ASSUME NEW h \in Huds, RenderDone(h) PROVE Stopping'
  BY <1>10 DEF RenderDone
<1>11. ASSUME NEW h \in Huds, EditLands(h) PROVE Stopping'
  BY <1>11 DEF EditLands
<1>12. ASSUME NEW h \in Huds, EditRefused(h) PROVE Stopping'
  BY <1>12 DEF EditRefused
<1>13. ASSUME UNCHANGED hudVars PROVE Stopping'
  BY <1>13 DEF hudVars
<1>14. ASSUME ShowQueued PROVE Stopping'
  BY <1>14 DEF ShowQueued
<1> QED
  BY <1>1, <1>2, <1>3, <1>4, <1>5, <1>6, <1>7, <1>8, <1>9, <1>10, <1>11, <1>12, <1>13, <1>14 DEF HudNext

\* An attempt starts after the latest, and none is forgotten.
LEMMA OrderedStep == HudTypes /\ Ordered /\ [HudNext]_hudVars => Ordered'
<1> SUFFICES ASSUME HudTypes /\ Ordered, [HudNext]_hudVars PROVE Ordered'
  OBVIOUS
<1> USE Numbers
<1>1. ASSUME NEW h \in Huds, StartAttempt(h) PROVE Ordered'
  <2>1. PICK k \in 0..MaxHuds : Started = 1..k
    BY DEF Ordered
  <2>2. Owner = k
    BY <2>1, LatestOwns
  <2>3. Started' = Started \cup {h}
    BY <1>1 DEF StartAttempt, Started, HudTypes
  <2>4. h = k + 1 /\ h \in 1..MaxHuds
    BY <1>1, <2>2 DEF StartAttempt, Huds
  <2>5. Started' = 1..h
    BY <2>1, <2>3, <2>4
  <2> QED
    BY <2>4, <2>5 DEF Ordered
<1>2. ASSUME NEW h \in Huds, TurnStarts(h) PROVE Ordered'
  <2>1. Started' = Started
    BY <1>2 DEF TurnStarts, Started, HudTypes
  <2> QED
    BY <2>1 DEF Ordered
<1>3. ASSUME NEW h \in Huds, TurnEnds(h) PROVE Ordered'
  <2>1. Started' = Started
    BY <1>3 DEF TurnEnds, Started, HudTypes
  <2> QED
    BY <2>1 DEF Ordered
<1>4. ASSUME NEW h \in Huds, StopReturns(h) PROVE Ordered'
  <2>1. Started' = Started
    BY <1>4 DEF StopReturns, Started, HudTypes
  <2> QED
    BY <2>1 DEF Ordered
<1>5. ASSUME NEW h \in Huds, NEW shows \in Settled, Finish(h, shows) PROVE Ordered'
  <2>1. Started' = Started
    BY <1>5 DEF Finish, Started, HudTypes
  <2> QED
    BY <2>1 DEF Ordered
<1>6. ASSUME NEW h \in Huds, FinishRefused(h) PROVE Ordered'
  <2>1. Started' = Started
    BY <1>6 DEF FinishRefused, Started, HudTypes
  <2> QED
    BY <2>1 DEF Ordered
<1>7. ASSUME NEW h \in Huds, Progress(h) PROVE Ordered'
  <2>1. Started' = Started
    BY <1>7 DEF Progress, Started, HudTypes
  <2> QED
    BY <2>1 DEF Ordered
<1>8. ASSUME NEW h \in Huds, Frame(h) PROVE Ordered'
  <2>1. Started' = Started
    BY <1>8 DEF Frame, Started, HudTypes
  <2> QED
    BY <2>1 DEF Ordered
<1>9. ASSUME NEW h \in Huds, TimerFires(h) PROVE Ordered'
  <2>1. Started' = Started
    BY <1>9 DEF TimerFires, Started, HudTypes
  <2> QED
    BY <2>1 DEF Ordered
<1>10. ASSUME NEW h \in Huds, RenderDone(h) PROVE Ordered'
  <2>1. Started' = Started
    BY <1>10 DEF RenderDone, Started, HudTypes
  <2> QED
    BY <2>1 DEF Ordered
<1>11. ASSUME NEW h \in Huds, EditLands(h) PROVE Ordered'
  <2>1. Started' = Started
    BY <1>11 DEF EditLands, Started, HudTypes
  <2> QED
    BY <2>1 DEF Ordered
<1>12. ASSUME NEW h \in Huds, EditRefused(h) PROVE Ordered'
  <2>1. Started' = Started
    BY <1>12 DEF EditRefused, Started, HudTypes
  <2> QED
    BY <2>1 DEF Ordered
<1>13. ASSUME UNCHANGED hudVars PROVE Ordered'
  BY <1>13 DEF hudVars, Ordered, Started
<1>14. ASSUME ShowQueued PROVE Ordered'
  BY <1>14 DEF ShowQueued, Ordered, Started
<1> QED
  BY <1>1, <1>2, <1>3, <1>4, <1>5, <1>6, <1>7, <1>8, <1>9, <1>10, <1>11, <1>12, <1>13, <1>14 DEF HudNext

\* The owner, if there is one, is an attempt.
LEMMA OwnerStarted == ASSUME Ordered PROVE Owner = 0 \/ Owner \in Huds
<1>1. PICK k \in 0..MaxHuds : Started = 1..k
  BY DEF Ordered
<1>2. Owner = k
  BY <1>1, LatestOwns
<1> QED
  BY <1>2, Numbers DEF Huds

\* Only the latest attempt shows a final card, it is over then, and no edit of a
\* HUD shows one.
LEMMA FinalStep == HudInv /\ [HudNext]_hudVars => Final'
<1> SUFFICES ASSUME HudInv, [HudNext]_hudVars PROVE Final'
  OBVIOUS
<1> USE Numbers DEF HudInv
<1>1. ASSUME NEW h \in Huds, StartAttempt(h) PROVE Final'
  <2>1. Owner = 0 \/ attempt[Owner] # "over"
    BY <1>1 DEF StartAttempt
  <2> QED
    BY <1>1, <2>1 DEF Final, StartAttempt
<1>2. ASSUME NEW h \in Huds, TurnStarts(h) PROVE Final'
  <2>1. Started' = Started
    BY <1>2 DEF TurnStarts, Started, HudTypes
  <2>2. Owner' = Owner
    BY <2>1 DEF Owner
  <2> QED
    BY <1>2, <2>2, OwnerStarted DEF TurnStarts, Final, HudTypes
<1>3. ASSUME NEW h \in Huds, TurnEnds(h) PROVE Final'
  <2>1. Started' = Started
    BY <1>3 DEF TurnEnds, Started, HudTypes
  <2>2. Owner' = Owner
    BY <2>1 DEF Owner
  <2> QED
    BY <1>3, <2>2, OwnerStarted DEF TurnEnds, Final, HudTypes
<1>4. ASSUME NEW h \in Huds, StopReturns(h) PROVE Final'
  <2>1. Started' = Started
    BY <1>4 DEF StopReturns, Started, HudTypes
  <2>2. Owner' = Owner
    BY <2>1 DEF Owner
  <2> QED
    BY <1>4, <2>2, OwnerStarted DEF StopReturns, Final, HudTypes
<1>5. ASSUME NEW h \in Huds, NEW shows \in Settled, Finish(h, shows) PROVE Final'
  <2>1. Started' = Started
    BY <1>5 DEF Finish, Started, HudTypes
  <2>2. Owner' = Owner
    BY <2>1 DEF Owner
  <2> QED
    <3>1. h = Owner /\ Owner # 0 /\ attempt'[h] = "over"
      BY <1>5, Numbers DEF Finish, HudTypes, Huds
    <3> QED
      BY <2>2, <3>1 DEF Final
<1>6. ASSUME NEW h \in Huds, FinishRefused(h) PROVE Final'
  <2>1. Started' = Started
    BY <1>6 DEF FinishRefused, Started, HudTypes
  <2>2. Owner' = Owner
    BY <2>1 DEF Owner
  <2> QED
    BY <1>6, <2>2, OwnerStarted DEF FinishRefused, Final, HudTypes
<1>7. ASSUME NEW h \in Huds, Progress(h) PROVE Final'
  <2>1. Started' = Started
    BY <1>7 DEF Progress, Started, HudTypes
  <2>2. Owner' = Owner
    BY <2>1 DEF Owner
  <2> QED
    BY <1>7, <2>2, OwnerStarted DEF Progress, Final, HudTypes
<1>8. ASSUME NEW h \in Huds, Frame(h) PROVE Final'
  <2>1. Started' = Started
    BY <1>8 DEF Frame, Started, HudTypes
  <2>2. Owner' = Owner
    BY <2>1 DEF Owner
  <2> QED
    BY <1>8, <2>2, OwnerStarted DEF Frame, Final, HudTypes
<1>9. ASSUME NEW h \in Huds, TimerFires(h) PROVE Final'
  <2>1. Started' = Started
    BY <1>9 DEF TimerFires, Started, HudTypes
  <2>2. Owner' = Owner
    BY <2>1 DEF Owner
  <2> QED
    BY <1>9, <2>2, OwnerStarted DEF TimerFires, Final, HudTypes
<1>10. ASSUME NEW h \in Huds, RenderDone(h) PROVE Final'
  <2>1. Started' = Started
    BY <1>10 DEF RenderDone, Started, HudTypes
  <2>2. Owner' = Owner
    BY <2>1 DEF Owner
  <2> QED
    BY <1>10, <2>2, OwnerStarted DEF RenderDone, Final, HudTypes
<1>11. ASSUME NEW h \in Huds, EditLands(h) PROVE Final'
  <2>1. Started' = Started
    BY <1>11 DEF EditLands, Started, HudTypes
  <2>2. Owner' = Owner
    BY <2>1 DEF Owner
  <2> QED
    <3>1. edits[h] \in Seq(0..MaxNews) /\ edits[h] # <<>>
      BY <1>11 DEF EditLands, HudTypes
    <3>2. Head(edits[h]) \in 0..MaxNews
      BY <3>1, HeadTailProperties
    <3>3. placeholder'.shows \notin Settled
      BY <1>11, <3>2, Numbers DEF EditLands
    <3> QED
      BY <3>3 DEF Final
<1>12. ASSUME NEW h \in Huds, EditRefused(h) PROVE Final'
  <2>1. Started' = Started
    BY <1>12 DEF EditRefused, Started, HudTypes
  <2>2. Owner' = Owner
    BY <2>1 DEF Owner
  <2> QED
    BY <1>12, <2>2, OwnerStarted DEF EditRefused, Final, HudTypes
<1>13. ASSUME UNCHANGED hudVars PROVE Final'
  BY <1>13 DEF hudVars, Final, Owner, Started
<1>14. ASSUME ShowQueued PROVE Final'
  <2>1. attempt' = attempt /\ Owner' = Owner
    BY <1>14 DEF ShowQueued, Owner, Started
  <2>2. placeholder'.shows \in Settled => placeholder.shows \in Settled
    BY <1>14 DEF ShowQueued
  <2> QED
    BY <2>1, <2>2 DEF Final
<1> QED
  BY <1>1, <1>2, <1>3, <1>4, <1>5, <1>6, <1>7, <1>8, <1>9, <1>10, <1>11, <1>12, <1>13, <1>14 DEF HudNext

-----------------------------------------------------------------------------
\* A run that has had no attempt yet, and one that was over before, satisfy the
\* invariant.
LEMMA HudsBegin == Init => HudInv
<1> SUFFICES ASSUME NEW first \in {1, MaxHuds + 1}, HudInit(first) PROVE HudInv
  BY DEF Init
<1> USE Numbers DEF HudInit
<1>1. HudTypes
  <2>1. Nothing \in News
    BY DEF Nothing, News
  <2>2. hud \in [Huds -> Machines] /\ told \in [Huds -> News] /\ edits \in [Huds -> Seq(0..MaxNews)]
    BY <2>1 DEF Machines
  <2>3. attempt \in [Huds -> {"none", "starting", "streaming", "stopping", "stopped", "over"}]
    OBVIOUS
  <2>4. placeholder \in [by : 0..MaxHuds, shows : 0..MaxNews \cup {Queued} \cup Settled]
    OBVIOUS
  <2> QED
    BY <2>2, <2>3, <2>4 DEF HudTypes
<1>2. Stopping
  BY DEF Stopping, Huds
<1>3. Started = 1..(first - 1)
  BY DEF Started, Huds
<1>4. Ordered
  <2>1. first - 1 \in 0..MaxHuds
    BY HudAssumption
  <2> QED
    BY <1>3, <2>1 DEF Ordered
<1>5. Final
  BY DEF Final
<1> QED
  BY <1>1, <1>2, <1>4, <1>5 DEF HudInv

\* The invariant holds of every reachable state.
LEMMA HudInvariant == Spec => []HudInv
<1>1. HudInv /\ [Next]_vars => HudInv'
  BY OnlyHudsTouchTheCard, TypesStep, StoppingStep, OrderedStep, FinalStep DEF HudInv
<1> QED
  BY <1>1, HudsBegin, PTL DEF Spec

\* Whatever the throttle, the timers, an edit under way and Discord's refusals
\* do, and however many attempts the run takes, once the final card is up only
\* the HUD of an attempt that is still being stopped and the handler's queued
\* card can draw over it (progress-hud-machine.ts, run-surface.ts).
THEOREM FinalCardStands == Spec => ArchiveStands
<1>1. ASSUME HudInv, [Next]_vars
      PROVE  [ /\ placeholder.shows \in Settled
               /\ placeholder' # placeholder
               => placeholder'.by = 0 \/ attempt[placeholder'.by] \notin {"stopped", "over"} ]_hudVars
  <2>1. SUFFICES ASSUME HudNext, placeholder.shows \in Settled, placeholder' # placeholder
                 PROVE  placeholder'.by = 0 \/ attempt[placeholder'.by] \notin {"stopped", "over"}
    BY <1>1, OnlyHudsTouchTheCard
  <2>2. ASSUME NEW h \in Huds, EditLands(h)
        PROVE  placeholder'.by = 0 \/ attempt[placeholder'.by] \notin {"stopped", "over"}
    BY <1>1, <2>2 DEF EditLands, HudInv, Stopping, HudTypes
  <2>3. ASSUME NEW h \in Huds, NEW shows \in Settled, Finish(h, shows)
        PROVE  FALSE
    BY <1>1, <2>1, <2>3 DEF Finish, HudInv, Final
  <2>4. ASSUME ShowQueued
        PROVE  placeholder'.by = 0
    BY <2>1, <2>4 DEF ShowQueued
  <2> QED
    BY <2>1, <2>2, <2>3, <2>4 DEF HudNext, StartAttempt, TurnStarts, TurnEnds, StopReturns,
         FinishRefused, Progress, Frame, TimerFires, RenderDone, EditRefused
<1> QED
  BY <1>1, HudInvariant, PTL DEF Spec, ArchiveStands

===============================================================================
