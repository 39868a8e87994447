----------------------------- MODULE ProgressHud -----------------------------
(***************************************************************************)
(* The status card of a run: the Discord placeholder message that the      *)
(* progress HUD edits while Pi works, and that is archived in place when   *)
(* the answer is posted.                                                   *)
(*                                                                         *)
(* Every attempt of the run has a HUD of its own: an XState machine that   *)
(* throttles what the Pi turn and the narrator tell it, and a renderer     *)
(* with a promise queue of edits.  They all edit the one placeholder, and  *)
(* an attempt that lost its lease still has its HUD when the next attempt  *)
(* starts.                                                                 *)
(*                                                                         *)
(* A payload stands for what it shows: the narrator's last frame once      *)
(* there is one, the last progress event before that.  It does not depend  *)
(* on the time (buildHudPayload ignores elapsedMs).  0 is the "starting"   *)
(* card, each later event gets the next number.                            *)
(***************************************************************************)
EXTENDS Naturals, Sequences, FiniteSets

CONSTANTS
  MaxHuds,      \* bound on the attempts of the run
  MaxNews,      \* bound on the events of an attempt
  MaxRefusals   \* bound on the edits that Discord refuses

ASSUME HudAssumption ==
  /\ MaxHuds \in Nat \ {0}
  /\ MaxNews \in Nat
  /\ MaxRefusals \in Nat

VARIABLES
  hud,          \* each attempt's machine, and its controller's stopped flag
  attempt,      \* what each attempt's executeRun is at
  edits,        \* each renderer's queue: the payloads not yet edited in
  rendered,     \* each renderer's lastPayloadHash
  told,         \* what the turn and the narrator last told each controller
  placeholder,  \* who edited the placeholder last, and what it shows
  queuing,      \* the handler that enqueued the run has its last edit to make
  refused       \* <<attempt, payload>> that Discord refused

hudVars == <<hud, attempt, edits, rendered, told, placeholder, queuing, refused>>

Huds == 1..MaxHuds

\* The cards that are not the HUD's.  The handler, 0, posts the placeholder.
Queued == MaxNews + 1
Archived == MaxNews + 2
Failed == MaxNews + 3
Settled == {Archived, Failed}

Nothing == [progress |-> 0, frame |-> 0]

\* The latest attempt that has started: the one that holds the lease.
Started == {h \in Huds : attempt[h] # "none"}
Owner == IF Started = {} THEN 0 ELSE CHOOSE h \in Started : \A g \in Started : g <= h

HudInit(first) ==
  /\ hud = [h \in Huds |-> [at |-> "idle", knows |-> Nothing]]
  /\ attempt = [h \in Huds |-> IF h < first THEN "over" ELSE "none"]
  /\ edits = [h \in Huds |-> <<>>]
  /\ rendered = [h \in Huds |-> 0]
  /\ told = [h \in Huds |-> Nothing]
  /\ placeholder = [by |-> 0, shows |-> Queued]
  /\ queuing = (first <= MaxHuds)
  /\ refused = {}

-----------------------------------------------------------------------------
(* The renderer. *)

Payload(news) == IF news.frame # 0 THEN news.frame ELSE news.progress

\* enqueueEdit: the hash is remembered when the edit is queued, so the same
\* payload is not queued again even if Discord refuses it.
Render(h, payload) ==
  IF rendered[h] = payload
  THEN UNCHANGED <<edits, rendered>>
  ELSE /\ edits' = [edits EXCEPT ![h] = Append(@, payload)]
       /\ rendered' = [rendered EXCEPT ![h] = payload]

\* The renderer's queue goes on, whether Discord took the edit or not.
EditLands(h) ==
  /\ edits[h] # <<>>
  /\ edits' = [edits EXCEPT ![h] = Tail(@)]
  /\ placeholder' = [by |-> h, shows |-> Head(edits[h])]
  /\ UNCHANGED <<hud, attempt, rendered, told, queuing, refused>>

EditRefused(h) ==
  /\ edits[h] # <<>>
  /\ Cardinality(refused) < MaxRefusals
  /\ edits' = [edits EXCEPT ![h] = Tail(@)]
  /\ refused' = refused \cup {<<h, Head(edits[h])>>}
  /\ UNCHANGED <<hud, attempt, rendered, told, placeholder, queuing>>

-----------------------------------------------------------------------------
(* The machine.  Its FLUSH timer runs exactly while it is scheduled, its    *)
(* heartbeat from the first progress event until it stops.                 *)

\* (Mutant first: a progress event that arrives during a flush only
\* schedules the next one.)
RememberUnlessFlushing(h, news) ==
  IF hud[h].at = "flushing" THEN hud[h].knows ELSE news
Remember(h, news) == news

\* Entering flushing renders what the machine knows (renderLatest).
Flush(h, news) ==
  /\ hud' = [hud EXCEPT ![h] = [at |-> "flushing", knows |-> news]]
  /\ Render(h, Payload(news))

Schedule(h, news) ==
  /\ hud' = [hud EXCEPT ![h] = [at |-> "scheduled", knows |-> news]]
  /\ UNCHANGED <<edits, rendered>>

\* The edit that the machine waits for is the last of its renderer's queue.
\* A machine that left flushing for scheduled ignores it.
RenderDone(h) ==
  /\ hud[h].at = "flushing"
  /\ edits[h] = <<>>
  /\ hud' = [hud EXCEPT ![h].at = "running"]
  /\ UNCHANGED <<attempt, edits, rendered, told, placeholder, queuing, refused>>

\* The interval since the last render is over (shouldFlushNow), or the event
\* cannot wait, or neither: the first event never waits, and while an edit is
\* under way every event does.
Shown(h, news) ==
  \/ hud[h].at # "flushing" /\ Flush(h, news)
  \/ hud[h].at # "idle" /\ Schedule(h, news)

Number(h) ==
  1 + IF told[h].progress > told[h].frame THEN told[h].progress ELSE told[h].frame

\* update(progress) sends PROGRESS.
Progress(h) ==
  /\ attempt[h] = "streaming"
  /\ Number(h) <= MaxNews
  /\ told' = [told EXCEPT ![h].progress = Number(h)]
  /\ Shown(h, Remember(h, told'[h]))
  /\ UNCHANGED <<attempt, placeholder, queuing, refused>>

\* The narrator's set_run_hud sends HUD_FRAME.  Before the first progress
\* event it is only remembered.
Frame(h) ==
  /\ attempt[h] = "streaming"
  /\ Number(h) <= MaxNews
  /\ told' = [told EXCEPT ![h].frame = Number(h)]
  /\ IF hud[h].at = "idle"
     THEN /\ hud' = [hud EXCEPT ![h].knows = Remember(h, told'[h])]
          /\ UNCHANGED <<edits, rendered>>
     ELSE Shown(h, Remember(h, told'[h]))
  /\ UNCHANGED <<attempt, placeholder, queuing, refused>>

\* FLUSH ends the throttle's delay; a HEARTBEAT renders again what is known,
\* which the renderer drops unless it has changed.
TimerFires(h) ==
  /\ hud[h].at \in {"scheduled", "running"}
  /\ Flush(h, hud[h].knows)
  /\ UNCHANGED <<attempt, told, placeholder, queuing, refused>>

-----------------------------------------------------------------------------
(* The attempts: executeRun, finalizeRun and failRun.                      *)

\* enqueueRunControlPrompt shows the queued card once the run is enqueued and the
\* record patched: nothing orders this edit with what a lane does meanwhile.
\* A refused edit is swallowed.
ShowQueued ==
  /\ queuing
  /\ queuing' = FALSE
  /\ placeholder' \in {placeholder, [by |-> 0, shows |-> Queued]}
  /\ UNCHANGED <<hud, attempt, edits, rendered, told, refused>>

\* The previous attempt lost its lease before it was through; its Pi turn may
\* still stream, and its HUD with it.
StartAttempt(h) ==
  /\ h = Owner + 1
  /\ Owner # 0 => attempt[Owner] # "over"
  /\ attempt' = [attempt EXCEPT ![h] = "starting"]
  /\ edits' = [edits EXCEPT ![h] = <<0>>]
  /\ UNCHANGED <<hud, rendered, told, placeholder, queuing, refused>>

\* The "starting" card is awaited before enqueuePrompt, and enqueuePrompt
\* waits for the thread's Pi turn under way.
TurnStarts(h) ==
  /\ attempt[h] = "starting"
  /\ edits[h] = <<>>
  /\ \A g \in Huds : attempt[g] # "streaming"
  /\ attempt' = [attempt EXCEPT ![h] = "streaming"]
  /\ UNCHANGED <<hud, edits, rendered, told, placeholder, queuing, refused>>

\* The turn ends or is aborted: the snapshot is taken, the controller refuses
\* further events, the machine clears its timers.
TurnEnds(h) ==
  /\ attempt[h] \in {"starting", "streaming"}
  /\ attempt' = [attempt EXCEPT ![h] = "stopping"]
  /\ hud' = [hud EXCEPT ![h].at = IF @ = "idle" THEN "stopped" ELSE "stopping"]
  /\ UNCHANGED <<edits, rendered, told, placeholder, queuing, refused>>

\* stop() returns when the renderer's queue is empty: the machine's drain and
\* the flush that follows wait for the same promise, and the second has no
\* timeout.  (Mutant first: stop() only waits for the machine.)
FlushedAtOnce(h) == TRUE
Flushed(h) == edits[h] = <<>>

StopReturns(h) ==
  /\ attempt[h] = "stopping"
  /\ Flushed(h)
  /\ attempt' = [attempt EXCEPT ![h] = "stopped"]
  /\ hud' = [hud EXCEPT ![h].at = "stopped"]
  /\ UNCHANGED <<edits, rendered, told, placeholder, queuing, refused>>

\* The attempt that holds the lease posts the answer and archives the card, or
\* fails the run and shows the error, with a renderer of its own; another
\* attempt leaves the placeholder alone.  A refused archive is swallowed.
Finish(h, shows) ==
  /\ attempt[h] = "stopped"
  /\ h = Owner
  /\ attempt' = [attempt EXCEPT ![h] = "over"]
  /\ placeholder' = [by |-> h, shows |-> shows]
  /\ UNCHANGED <<hud, edits, rendered, told, queuing, refused>>

FinishRefused(h) ==
  /\ attempt[h] = "stopped"
  /\ h = Owner
  /\ Cardinality(refused) < MaxRefusals
  /\ attempt' = [attempt EXCEPT ![h] = "over"]
  /\ refused' = refused \cup {<<h, Archived>>}
  /\ UNCHANGED <<hud, edits, rendered, told, placeholder, queuing>>

-----------------------------------------------------------------------------
\* Once the card shows that the run is over, no edit of the HUD that ran it
\* puts a working card, with its live ESC button, back: stop() returns only
\* when the renderer has nothing left to edit, and the archive comes after
\* (progress-hud-machine.ts 315-323, discord-bot.ts 2310, run-surface.ts 72).
\* Only the HUD of an earlier attempt that is still being stopped may, and the
\* queued card of a handler that the lanes overtook (discord-bot.ts 2190).
ArchiveStands ==
  [][ /\ placeholder.shows \in Settled
      /\ placeholder' # placeholder
      => placeholder'.by = 0 \/ attempt[placeholder'.by] \notin {"stopped", "over"} ]_hudVars

\* The card shows what the turn or its narrator last told the HUD; or Discord
\* refused that edit; or the handler or the HUD of another attempt drew over it:
\* what it knows to be drawn, a HUD does not draw again.
UpToDate(h) ==
  LET n == Payload(told[h]) IN
    \/ placeholder = [by |-> h, shows |-> n]
    \/ <<h, n>> \in refused
    \/ rendered[h] = n /\ edits[h] = <<>> /\ placeholder.by # h

\* A card that is behind catches up, however the news met the throttle, the
\* timers and an edit under way, unless the turn ends.  (News that never stopped
\* could keep it behind for ever; MaxNews ends it.)
\* progress-hud-machine.ts 190-217, message-renderer.ts 65-77.
ProgressIsShown ==
  \A h \in Huds :
    (attempt[h] = "streaming" /\ told[h].progress # 0 /\ ~ UpToDate(h))
      ~> (UpToDate(h) \/ attempt[h] # "streaming")
=============================================================================
