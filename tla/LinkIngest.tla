------------------------------ MODULE LinkIngest ------------------------------
(***************************************************************************)
(* A link that an operator asks the bot to capture.  The bot records the   *)
(* request, posts it to Inngest, and records it again.  Central's workers  *)
(* (another program) send status events as they go.  For each kind of      *)
(* event the bot runs an Inngest function of three memoized steps: find    *)
(* the thread, post a terminal status there, record the status.            *)
(***************************************************************************)
EXTENDS Naturals

CONSTANTS
  Quiet,          \* kinds of event that are only recorded
  Posted,         \* indexed, needs_human, failed: posted in the thread
  Attempts,       \* how often Inngest attempts a step: 1 + retries
  MaxLinkFaults   \* bound on lost calls, failed steps and crashes

ASSUME LinkAssumption ==
  /\ Quiet \cap Posted = {}
  /\ Attempts \in Nat \ {0}
  /\ MaxLinkFaults \in Nat

VARIABLES
  intake,     \* what the command's handler is at
  link,       \* the registry's record of the link: its status and receipts
  sent,       \* whether Inngest has the request
  event,      \* each kind of event: whether it names the thread, and its status
  fn,         \* each event's function: its step, and the attempts it has left
  found,      \* what resolve-discord-target returned: a record, or not
  answers,    \* kinds of event that were posted in the thread
  linkFaults

linkVars == <<intake, link, sent, event, fn, found, answers, linkFaults>>

Kinds == Quiet \cup Posted
NoEvent == [origin |-> "none", status |-> "none"]
NoLink == [status |-> "none", receipts |-> {}]
Waiting == [at |-> "none", left |-> Attempts]

LinkInit(first) ==
  /\ intake = first
  /\ link = NoLink
  /\ sent = FALSE
  /\ event = [k \in Kinds |-> NoEvent]
  /\ fn = [k \in Kinds |-> Waiting]
  /\ found = {}
  /\ answers = {}
  /\ linkFaults = 0

LinkFault ==
  /\ linkFaults < MaxLinkFaults
  /\ linkFaults' = linkFaults + 1

fnVars == <<event, fn, found, answers>>

-----------------------------------------------------------------------------
(* The command's handler: ingestLinkInteraction, ingestLinkMessage and      *)
(* ingestLinkDirectMessage.                                                 *)

\* upsertLinkIngest overwrites the status and keeps the receipts.
Upsert(status) == [link EXCEPT !.status = status]

\* The mapping from the link to its thread is recorded before Inngest hears of
\* it.  (Mutant first: only afterwards.)
RecordedLater == link
Recorded == Upsert("accepted")

RecordIngest ==
  /\ intake = "asked"
  /\ intake' = "recorded"
  /\ link' = Recorded
  /\ UNCHANGED <<sent, fnVars, linkFaults>>

\* The POST ends well; or it times out, or the response is lost, after Inngest
\* took the request; or Inngest never gets it.
PostIngest ==
  /\ intake = "recorded"
  /\ intake' = "posted"
  /\ sent' = TRUE
  /\ UNCHANGED <<link, fnVars, linkFaults>>

PostTimesOut ==
  /\ intake = "recorded"
  /\ LinkFault
  /\ intake' = "refused"
  /\ sent' \in BOOLEAN
  /\ UNCHANGED <<link, fnVars>>

\* Either way the record is written again, with the status it had before the
\* first status event.  Then the operator is told.
RecordOutcome ==
  /\ intake \in {"posted", "refused"}
  /\ intake' = "told"
  /\ link' = Upsert(IF intake = "posted" THEN "accepted" ELSE "send_failed")
  /\ UNCHANGED <<sent, fnVars, linkFaults>>

\* The process dies with the handler: nothing resumes it.
IntakeDies ==
  /\ intake \in {"recorded", "posted", "refused"}
  /\ LinkFault
  /\ intake' = "told"
  /\ UNCHANGED <<link, sent, fnVars>>

-----------------------------------------------------------------------------
(* Central. *)

\* The status an event of a kind may have: statusFromEvent takes the first entry
\* of its list that either the event's name or its data.status matches, and the
\* kinds that are posted come last in the list.
StatusFromEvent(k) == IF k \in Quiet THEN Quiet ELSE Kinds

\* A worker reports; its event may or may not carry the Discord origin of the
\* request (and the URL) along.
StatusEvent(k) ==
  /\ sent
  /\ event[k] = NoEvent
  /\ \E origin \in {"bare", "withOrigin"}, status \in StatusFromEvent(k) :
       event' = [event EXCEPT ![k] = [origin |-> origin, status |-> status]]
  /\ fn' = [fn EXCEPT ![k].at = "resolve"]
  /\ UNCHANGED <<intake, link, sent, found, answers, linkFaults>>

\* Inngest may run the function again for an event it has already handled.
Redelivered(k) ==
  /\ fn[k].at = "over"
  /\ LinkFault
  /\ fn' = [fn EXCEPT ![k] = [at |-> "resolve", left |-> Attempts]]
  /\ UNCHANGED <<intake, link, sent, event, found, answers>>

-----------------------------------------------------------------------------
(* createStatusFunction. *)

Step(k, to) == fn' = [fn EXCEPT ![k] = [at |-> to, left |-> Attempts]]

\* resolve-discord-target: skip what has a receipt; recover a record that is
\* missing from the event's origin; give up on an event that names no thread.
Resolve(k) ==
  /\ fn[k].at = "resolve"
  /\ \/ /\ k \in link.receipts
        /\ Step(k, "over")
        /\ UNCHANGED <<link, found>>
     \/ /\ k \notin link.receipts /\ link.status # "none"
        /\ Step(k, "post")
        /\ found' = found \cup {k}
        /\ UNCHANGED link
     \/ /\ link.status = "none" /\ event[k].origin = "withOrigin"
        /\ Step(k, "post")
        /\ found' = found \cup {k}
        /\ link' = Upsert(event[k].status)
     \/ /\ link.status = "none" /\ event[k].origin = "bare"
        /\ Step(k, "over")
        /\ UNCHANGED <<link, found>>
  /\ UNCHANGED <<intake, sent, event, answers, linkFaults>>

\* post-or-skip-discord-status
Answered(k) == IF event[k].status \in Posted THEN answers \cup {k} ELSE answers

PostStatus(k) ==
  /\ fn[k].at = "post"
  /\ answers' = Answered(k)
  /\ Step(k, "record")
  /\ UNCHANGED <<intake, link, sent, event, found, linkFaults>>

\* record-discord-status: the receipt, and the status of the event handled
\* last, whichever Central sent last.
RecordStatus(k) ==
  /\ fn[k].at = "record"
  /\ link' = IF k \in found
             THEN [status |-> event[k].status, receipts |-> link.receipts \cup {k}]
             ELSE link
  /\ Step(k, "over")
  /\ UNCHANGED <<intake, sent, event, found, answers, linkFaults>>

\* A step fails, or its process dies before Inngest has its result (then a
\* post may have been made): Inngest attempts it again, a few times.
StepFails(k) ==
  /\ fn[k].at \in {"resolve", "post", "record"}
  /\ LinkFault
  /\ fn' = [fn EXCEPT ![k] = IF @.left = 1 THEN [at |-> "dead", left |-> 0]
                                           ELSE [at |-> @.at, left |-> @.left - 1]]
  /\ answers' \in {answers, IF fn[k].at = "post" THEN Answered(k) ELSE answers}
  /\ UNCHANGED <<intake, link, sent, event, found>>

-----------------------------------------------------------------------------
\* A link whose request reached Inngest is answered in its thread when Central
\* reports a status that is to be posted, whatever became of the handler that
\* asked for it and whether or not the event says where the link came from,
\* unless Inngest runs out of attempts: the mapping is recorded before the
\* request is sent (discord-bot.ts 1490-1496, link-ingest-status-bridge.ts
\* 170-208).
LinksAreAnswered ==
  \A k \in Kinds :
    (fn[k].at = "resolve" /\ event[k].status \in Posted)
      ~> (k \in answers \/ fn[k].at = "dead")
=============================================================================
