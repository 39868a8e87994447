--------------------------- MODULE PiSessionsProofs ---------------------------
(***************************************************************************)
(* What holds of a thread's Pi sessions for any number of messages,        *)
(* commands, runtimes and faults: the types, one turn at a time, a turn    *)
(* within reach, no runtime left behind, a prompt that has the thread to   *)
(* itself left alone, and an answer recovered for the prompt it answers.   *)
(***************************************************************************)
EXTENDS PiSessions, TLAPS, FiniteSetTheorems

(***************************************************************************)
(* TypeOK is not inductive: that the mapped runtime is live depends on who *)
(* opens which runtime.                                                    *)
(***************************************************************************)

\* A runtime that is being opened is in the hands of one handler or of the
\* operation, and of nobody else.
Openers ==
  /\ \A m \in Messages :
       pc[m] = "opening" =>
         /\ held[m] \in Runtimes /\ rt[held[m]] = "opening"
         /\ held[m] # opRt
         /\ \A x \in Messages : held[x] = held[m] => x = m
  /\ \A m \in Messages : pc[m] = "opened" => held[m] \in Runtimes
  /\ at = "opening" =>
       /\ rt[opRt] = "opening"
       /\ \A m \in Messages : held[m] # opRt
  /\ at \in {"opening", "fetched", "turn"} => opRt \in Runtimes

TypeInv == TypeOK /\ Openers

\* A session streams for the prompt at the head of the chain.
Streaming ==
  \A r \in Runtimes : streaming[r] # None =>
    /\ at = "turn" /\ r = opRt
    /\ queue # <<>> /\ Head(queue) = streaming[r]

\* Who is not alone in opening a session has raced.
Racing ==
  /\ \A r, s \in Runtimes : rt[r] = "opening" /\ rt[s] = "opening" => r = s \/ raced
  /\ \A r \in Runtimes : rt[r] = "opening" => mapped = None \/ raced
  /\ NoOrphanRuntime

\* The runtime of the operation under way is mapped.
Reaching ==
  at \in {"fetched", "turn"} => mapped = opRt \/ opRt \in timedOut \/ raced

\* A record that says running is running for somebody who will take it back.
Accounted ==
  status = "running" =>
    \/ \E m \in Messages : pc[m] \in {"patched", "erring"}
    \/ queue # <<>> \/ reloadFailed

\* A prompt in the chain is there once, and its handler waits for it.
Chained ==
  \A i \in 1..Len(queue) : queue[i] \in Messages =>
    /\ pc[queue[i]] = "waiting"
    /\ \A j \in 1..Len(queue) : queue[j] = queue[i] => j = i

\* The active run of the record has not settled, and the one that the recovery
\* found is lost.
Recovering ==
  /\ activeRun # None =>
       /\ pc[activeRun] \in {"lost", "asking", "patched", "waiting", "erring"}
       /\ pc[activeRun] = "asking" => ~ seen[activeRun]
  /\ recovery # "none" /\ status = "interrupted" /\ activeRun # None =>
       pc[activeRun] = "lost"
  /\ found # None => pc[found] = "lost"

SessionInv == TypeInv /\ Streaming /\ Racing /\ Reaching /\ Chained /\ Recovering /\ Accounted

(***************************************************************************)
(* The prompts that have the thread to themselves: nobody else was in      *)
(* flight between their arrival and their turn (they are not in crowd).    *)
(***************************************************************************)

\* An operation is under way only when there is one, and the turn of a prompt
\* streams.
Operating ==
  /\ queue = <<>> => at = "start"
  /\ at = "turn" /\ Head(queue) \in Messages => streaming[opRt] = Head(queue)

\* Before its turn a prompt that has the thread to itself is the only one in
\* flight, the first in the chain, and the active run once it is in the record.
Preparing(p) ==
  \/ pc[p] \in {"asking", "opening", "opened", "patched"}
  \/ pc[p] = "waiting" /\ at \in {"start", "opening", "fetched"}

Alone ==
  \A p \in Messages \ crowd : Preparing(p) =>
    /\ InFlight = {p} /\ recovery = "none"
    /\ IF pc[p] = "waiting" THEN queue # <<>> /\ Head(queue) = p ELSE queue = <<>>
    /\ pc[p] \in {"patched", "waiting"} => status = "running" /\ activeRun = p

\* ... and it stays the first in the chain.
First == \A p \in Messages \ crowd : pc[p] = "waiting" => Running(p)

\* While its turn streams on the mapped runtime it is the active run, and every
\* other message has seen that.
Tracked ==
  \A p \in Messages \ crowd : Running(p) /\ at = "turn" /\ mapped = opRt =>
    /\ status = "running" /\ activeRun = p /\ recovery = "none"
    /\ \A x \in InFlight \ {p} : pc[x] = "asking" /\ seen[x]

\* The recovery found somebody only while it is under way, and whoever is in
\* flight meanwhile has company.
Restarting ==
  /\ found # None => recovery # "none"
  /\ recovery # "none" => /\ InFlight \subseteq crowd
                          /\ {activeRun, found} \subseteq crowd \cup {None} \/ InFlight = {}

\* Before it is in the chain such a prompt has not had a turn.
Unasked ==
  \A p \in Messages \ crowd :
    pc[p] \in {"new", "asking", "opening", "opened", "patched"} => p \notin began

\* While it is the active run nobody else is before or in a turn.
Unrivalled ==
  activeRun \notin crowd \cup {None} =>
    \A x \in Messages \ {activeRun} : pc[x] \notin {"patched", "waiting"}

\* The session file ends with the turn of the active run, or with its answer, once
\* that has begun.
Transcribed ==
  \A p \in Messages \ crowd : p \in began /\ p \in {activeRun, found} => answer = p \/ open

LoneInv ==
  Operating /\ Alone /\ First /\ Tracked /\ Restarting /\ Unasked /\ Unrivalled /\ Transcribed

\* TypeOK in parts.
RecordOK ==
  /\ status \in {"idle", "running", "error", "interrupted"}
  /\ activeRun \in Messages \cup {None}
  /\ activeRun # None => status \in {"running", "interrupted"}

HandlersOK ==
  /\ pc \in [Messages -> Settled \cup {"new", "asking", "opening", "opened",
                                       "patched", "waiting", "erring", "answering"}]
  /\ seen \in [Messages -> BOOLEAN]
  /\ held \in [Messages -> Runtimes \cup {None}]
  /\ placeholders \subseteq Messages

ChainOK ==
  /\ queue \in Seq(Messages \cup Commands)
  /\ at \in {"start", "opening", "fetched", "turn", "ok", "error"}
  /\ opRt \in Runtimes \cup {None}
  /\ requested \subseteq Commands

SessionsOK ==
  /\ mapped \in Runtimes \cup {None}
  /\ rt \in [Runtimes -> {"gone", "opening", "live"}]
  /\ streaming \in [Runtimes -> Messages \cup {None}]
  /\ timers \subseteq Runtimes
  /\ mapped # None => rt[mapped] = "live"

RestOK ==
  /\ answer \in Messages \cup {None} /\ open \in BOOLEAN
  /\ wrapped \subseteq Messages
  /\ recovery \in {"none", "resume", "reconcile"} /\ found \in Messages \cup {None}
  /\ faults \in 0..MaxFaults

\* The parts of TypeOK are TypeOK.
LEMMA TypeParts == TypeOK <=> RecordOK /\ HandlersOK /\ ChainOK /\ SessionsOK /\ RestOK
  BY DEF TypeOK, RecordOK, HandlersOK, ChainOK, SessionsOK, RestOK

\* A step that keeps every part keeps TypeOK.
LEMMA TypePartsNext ==
  RecordOK' /\ HandlersOK' /\ ChainOK' /\ SessionsOK' /\ RestOK' => TypeOK'
  BY DEF TypeOK, RecordOK, HandlersOK, ChainOK, SessionsOK, RestOK

\* Messages, commands, runtimes, the reload and None are told apart.
LEMMA ConstantNames ==
  /\ Messages \cap Commands = {} /\ Reload \notin Messages
  /\ None \notin Messages \cup Commands \cup Runtimes
  /\ MaxFaults \in Nat
  BY ConstantsAssumption DEF Runtimes

\* Every step keeps the types and who opens which runtime.
LEMMA TypeStep == TypeInv /\ [Next]_vars => TypeInv'
<1> SUFFICES ASSUME TypeInv, [Next]_vars PROVE TypeInv'
  OBVIOUS
<1> USE ConstantNames DEF TypeInv, TypeOK, Openers, Settled, Fault, PatchThread, ScheduleDispose, DisposeThread, Unused, Opening, StartOpening, Opened, Visible, NotQueued, Steered, Running, OpOver, RecoveryOver, record, handlers, operations, sessions, transcript, startup, history, InFlight, Unbegun
<1>1. ASSUME NEW m \in Messages, Arrive(m) PROVE TypeInv'
  BY <1>1 DEF Arrive
<1>2. ASSUME NEW m \in Messages, AskVisible(m) PROVE TypeInv'
  <2>1. TypeOK'
    <3>1. RecordOK'
      BY <1>2 DEF AskVisible, RecordOK
    <3>2. HandlersOK'
      BY <1>2 DEF AskVisible, HandlersOK
    <3>3. ChainOK'
      BY <1>2 DEF AskVisible, ChainOK
    <3>4. SessionsOK'
      BY <1>2 DEF AskVisible, SessionsOK
    <3>5. RestOK'
      BY <1>2 DEF AskVisible, RestOK
    <3> QED
      BY <3>1, <3>2, <3>3, <3>4, <3>5, TypePartsNext
  <2>2. Openers'
    BY <1>2 DEF AskVisible
  <2> QED
    BY <2>1, <2>2
<1>3. ASSUME NEW m \in Messages, AskHidden(m) PROVE TypeInv'
  BY <1>3 DEF AskHidden
<1>4. ASSUME NEW m \in Messages, AbortUntracked(m) PROVE TypeInv'
  <2>1. TypeOK'
    BY <1>4 DEF AbortUntracked
  <2>2. Openers'
    BY <1>4 DEF AbortUntracked
  <2> QED
    BY <2>1, <2>2
<1>5. ASSUME NEW m \in Messages, AskUnmapped(m) PROVE TypeInv'
  BY <1>5 DEF AskUnmapped
<1>6. ASSUME NEW m \in Messages, HandlerOpened(m) PROVE TypeInv'
  <2>1. TypeOK'
    <3>1. RecordOK'
      BY <1>6 DEF HandlerOpened, RecordOK
    <3>2. HandlersOK'
      BY <1>6 DEF HandlerOpened, HandlersOK
    <3>3. ChainOK'
      BY <1>6 DEF HandlerOpened, ChainOK
    <3>4. SessionsOK'
      BY <1>6 DEF HandlerOpened, SessionsOK
    <3>5. RestOK'
      BY <1>6 DEF HandlerOpened, RestOK
    <3> QED
      BY <3>1, <3>2, <3>3, <3>4, <3>5, TypePartsNext
  <2>2. Openers'
    BY <1>6 DEF HandlerOpened
  <2> QED
    BY <2>1, <2>2
<1>7. ASSUME NEW m \in Messages, HandlerOpenFails(m) PROVE TypeInv'
  BY <1>7 DEF HandlerOpenFails
<1>8. ASSUME NEW m \in Messages, AskOpened(m) PROVE TypeInv'
  <2>1. TypeOK'
    <3>1. RecordOK'
      BY <1>8 DEF AskOpened, RecordOK
    <3>2. HandlersOK'
      <4>1. held' = [held EXCEPT ![m] = None] /\ UNCHANGED seen
        BY <1>8 DEF AskOpened
      <4>2. placeholders' \subseteq Messages
        BY <1>8 DEF AskOpened
      <4>3. \E to \in {"steered", "asking", "patched"} : pc' = [pc EXCEPT ![m] = to]
        BY <1>8 DEF AskOpened
      <4> QED
        BY <4>1, <4>2, <4>3 DEF HandlersOK
    <3>3. ChainOK'
      BY <1>8 DEF AskOpened, ChainOK
    <3>4. SessionsOK'
      BY <1>8 DEF AskOpened, SessionsOK
    <3>5. RestOK'
      BY <1>8 DEF AskOpened, RestOK
    <3> QED
      BY <3>1, <3>2, <3>3, <3>4, <3>5, TypePartsNext
  <2>2. Openers'
    BY <1>8 DEF AskOpened
  <2> QED
    BY <2>1, <2>2
<1>9. ASSUME NEW m \in Messages, EnqueuePrompt(m) PROVE TypeInv'
  <2>1. TypeOK'
    <3>1. RecordOK' /\ SessionsOK'
      BY <1>9 DEF EnqueuePrompt, RecordOK, SessionsOK
    <3>2. HandlersOK'
      BY <1>9 DEF EnqueuePrompt, HandlersOK
    <3>3. ChainOK'
      <4>1. queue' \in Seq(Messages \cup Commands)
        <5>1. queue' = Append(queue, m) \/ queue' = queue
          BY <1>9 DEF EnqueuePrompt
        <5> QED
          BY <5>1
      <4>2. UNCHANGED <<at, opRt, requested>>
        BY <1>9 DEF EnqueuePrompt
      <4> QED
        BY <4>1, <4>2 DEF ChainOK
    <3>4. RestOK'
      BY <1>9 DEF EnqueuePrompt, RestOK
    <3> QED
      BY <3>1, <3>2, <3>3, <3>4, TypePartsNext
  <2>2. Openers'
    BY <1>9 DEF EnqueuePrompt
  <2> QED
    BY <2>1, <2>2
<1>10. ASSUME NEW m \in Messages, PostAnswer(m) PROVE TypeInv'
  BY <1>10 DEF PostAnswer
<1>11. ASSUME NEW m \in Messages, HandlerFails(m) PROVE TypeInv'
  BY <1>11 DEF HandlerFails
<1>12. ASSUME NEW m \in Messages, OpStarts(m) PROVE TypeInv'
  <2>1. TypeOK'
    <3>1. RecordOK'
      BY <1>12 DEF OpStarts, RecordOK
    <3>2. HandlersOK'
      BY <1>12 DEF OpStarts, HandlersOK
    <3>3. ChainOK'
      BY <1>12 DEF OpStarts, ChainOK
    <3>4. SessionsOK'
      BY <1>12 DEF OpStarts, SessionsOK
    <3>5. RestOK'
      BY <1>12 DEF OpStarts, RestOK
    <3> QED
      BY <3>1, <3>2, <3>3, <3>4, <3>5, TypePartsNext
  <2>2. Openers'
    BY <1>12 DEF OpStarts
  <2> QED
    BY <2>1, <2>2
<1>13. ASSUME NEW m \in Messages, OpOpened(m) PROVE TypeInv'
  BY <1>13 DEF OpOpened
<1>14. ASSUME NEW m \in Messages, TurnBegins(m) PROVE TypeInv'
  BY <1>14 DEF TurnBegins
<1>15. ASSUME NEW m \in Messages, TurnEnds(m) PROVE TypeInv'
  <2>1. TypeOK'
    <3>1. RecordOK'
      BY <1>15 DEF TurnEnds, RecordOK
    <3>2. HandlersOK'
      BY <1>15 DEF TurnEnds, HandlersOK
    <3>3. ChainOK'
      BY <1>15 DEF TurnEnds, ChainOK
    <3>4. SessionsOK'
      BY <1>15 DEF TurnEnds, SessionsOK
    <3>5. RestOK'
      <4>1. faults' = faults \/ (faults < MaxFaults /\ faults' = faults + 1)
        BY <1>15 DEF TurnEnds
      <4>2. answer' \in Messages \cup {None} /\ open' \in BOOLEAN
        BY <1>15 DEF TurnEnds
      <4>3. UNCHANGED <<wrapped, recovery, found>>
        BY <1>15 DEF TurnEnds
      <4> QED
        BY <4>1, <4>2, <4>3 DEF RestOK
    <3> QED
      BY <3>1, <3>2, <3>3, <3>4, <3>5, TypePartsNext
  <2>2. Openers'
    BY <1>15 DEF TurnEnds
  <2> QED
    BY <2>1, <2>2
<1>16. ASSUME NEW m \in Messages, PromptDone(m) PROVE TypeInv'
  BY <1>16 DEF PromptDone
<1>17. ASSUME NEW m \in Messages, PromptFails(m) PROVE TypeInv'
  <2>1. TypeOK'
    BY <1>17 DEF PromptFails
  <2>2. Openers'
    BY <1>17 DEF PromptFails
  <2> QED
    BY <2>1, <2>2
<1>18. ASSUME NEW c \in Commands, RequestCommand(c) PROVE TypeInv'
  BY <1>18 DEF RequestCommand
<1>19. ASSUME NEW c \in Commands, OpStarts(c) PROVE TypeInv'
  <2>1. TypeOK'
    <3>1. RecordOK'
      BY <1>19 DEF OpStarts, RecordOK
    <3>2. HandlersOK'
      BY <1>19 DEF OpStarts, HandlersOK
    <3>3. ChainOK'
      BY <1>19 DEF OpStarts, ChainOK
    <3>4. SessionsOK'
      BY <1>19 DEF OpStarts, SessionsOK
    <3>5. RestOK'
      BY <1>19 DEF OpStarts, RestOK
    <3> QED
      BY <3>1, <3>2, <3>3, <3>4, <3>5, TypePartsNext
  <2>2. Openers'
    BY <1>19 DEF OpStarts
  <2> QED
    BY <2>1, <2>2
<1>20. ASSUME NEW c \in Commands, OpOpened(c) PROVE TypeInv'
  BY <1>20 DEF OpOpened
<1>21. ASSUME NEW c \in Commands, CommandBegins(c) PROVE TypeInv'
  BY <1>21 DEF CommandBegins
<1>22. ASSUME NEW c \in Commands, CommandDone(c) PROVE TypeInv'
  BY <1>22 DEF CommandDone
<1>23. ASSUME NEW r \in Runtimes, TimerFires(r) PROVE TypeInv'
  <2>1. TypeOK'
    <3>1. RecordOK'
      BY <1>23 DEF TimerFires, RecordOK
    <3>2. HandlersOK'
      BY <1>23 DEF TimerFires, HandlersOK
    <3>3. ChainOK'
      BY <1>23 DEF TimerFires, ChainOK
    <3>4. SessionsOK'
      BY <1>23 DEF TimerFires, SessionsOK
    <3>5. RestOK'
      BY <1>23 DEF TimerFires, RestOK
    <3> QED
      BY <3>1, <3>2, <3>3, <3>4, <3>5, TypePartsNext
  <2>2. Openers'
    BY <1>23 DEF TimerFires
  <2> QED
    BY <2>1, <2>2
<1>24. ASSUME ReloadFails PROVE TypeInv'
  BY <1>24 DEF ReloadFails
<1>25. ASSUME Esc PROVE TypeInv'
  BY <1>25 DEF Esc
<1>26. ASSUME Crash PROVE TypeInv'
  BY <1>26 DEF Crash
<1>27. ASSUME RecoveryReads PROVE TypeInv'
  BY <1>27 DEF RecoveryReads
<1>28. ASSUME RecoveryFails PROVE TypeInv'
  BY <1>28 DEF RecoveryFails
<1>29. ASSUME RecoverAnswer PROVE TypeInv'
  BY <1>29 DEF RecoverAnswer
<1>30. ASSUME Resume PROVE TypeInv'
  BY <1>30 DEF Resume
<1>31. ASSUME SkipRecursiveRecovery PROVE TypeInv'
  BY <1>31 DEF SkipRecursiveRecovery
<1>32. ASSUME ReconcilePlaceholder PROVE TypeInv'
  BY <1>32 DEF ReconcilePlaceholder
<1>33. ASSUME UNCHANGED vars PROVE TypeInv'
  BY <1>33 DEF vars
<1>34. QED
  BY <1>1, <1>2, <1>3, <1>4, <1>5, <1>6, <1>7, <1>8, <1>9, <1>10, <1>11, <1>12, <1>13, <1>14, <1>15, <1>16, <1>17, <1>18, <1>19, <1>20, <1>21, <1>22, <1>23, <1>24, <1>25, <1>26, <1>27, <1>28, <1>29, <1>30, <1>31, <1>32, <1>33 DEF Next, Handler, PromptOp, CommandOp, Startup

\* A session only begins to stream for the head of the chain, and has stopped
\* when the head leaves.
LEMMA StreamingStep == TypeInv /\ Streaming /\ [Next]_vars => Streaming'
<1> SUFFICES ASSUME TypeInv /\ Streaming, [Next]_vars PROVE Streaming'
  OBVIOUS
<1> USE ConstantNames DEF TypeInv, TypeOK, Openers, Streaming, Settled, Fault, PatchThread, ScheduleDispose, DisposeThread, Unused, Opening, StartOpening, Opened, NotQueued, Steered, Running, OpOver, RecoveryOver, record, handlers, operations, sessions, transcript, startup, history
<1>1. ASSUME NEW m \in Messages, Arrive(m) PROVE Streaming'
  BY <1>1 DEF Arrive
<1>2. ASSUME NEW m \in Messages, AskVisible(m) PROVE Streaming'
  BY <1>2 DEF AskVisible
<1>3. ASSUME NEW m \in Messages, AskHidden(m) PROVE Streaming'
  BY <1>3 DEF AskHidden
<1>4. ASSUME NEW m \in Messages, AbortUntracked(m) PROVE Streaming'
  BY <1>4 DEF AbortUntracked
<1>5. ASSUME NEW m \in Messages, AskUnmapped(m) PROVE Streaming'
  BY <1>5 DEF AskUnmapped
<1>6. ASSUME NEW m \in Messages, HandlerOpened(m) PROVE Streaming'
  BY <1>6 DEF HandlerOpened
<1>7. ASSUME NEW m \in Messages, HandlerOpenFails(m) PROVE Streaming'
  BY <1>7 DEF HandlerOpenFails
<1>8. ASSUME NEW m \in Messages, AskOpened(m) PROVE Streaming'
  BY <1>8 DEF AskOpened
<1>9. ASSUME NEW m \in Messages, EnqueuePrompt(m) PROVE Streaming'
  BY <1>9 DEF EnqueuePrompt
<1>10. ASSUME NEW m \in Messages, PostAnswer(m) PROVE Streaming'
  BY <1>10 DEF PostAnswer
<1>11. ASSUME NEW m \in Messages, HandlerFails(m) PROVE Streaming'
  BY <1>11 DEF HandlerFails
<1>12. ASSUME NEW m \in Messages, OpStarts(m) PROVE Streaming'
  BY <1>12 DEF OpStarts
<1>13. ASSUME NEW m \in Messages, OpOpened(m) PROVE Streaming'
  BY <1>13 DEF OpOpened
<1>14. ASSUME NEW m \in Messages, TurnBegins(m) PROVE Streaming'
  BY <1>14 DEF TurnBegins
<1>15. ASSUME NEW m \in Messages, TurnEnds(m) PROVE Streaming'
  BY <1>15 DEF TurnEnds
<1>16. ASSUME NEW m \in Messages, PromptDone(m) PROVE Streaming'
  BY <1>16 DEF PromptDone
<1>17. ASSUME NEW m \in Messages, PromptFails(m) PROVE Streaming'
  BY <1>17 DEF PromptFails
<1>18. ASSUME NEW c \in Commands, RequestCommand(c) PROVE Streaming'
  BY <1>18 DEF RequestCommand
<1>19. ASSUME NEW c \in Commands, OpStarts(c) PROVE Streaming'
  BY <1>19 DEF OpStarts
<1>20. ASSUME NEW c \in Commands, OpOpened(c) PROVE Streaming'
  BY <1>20 DEF OpOpened
<1>21. ASSUME NEW c \in Commands, CommandBegins(c) PROVE Streaming'
  BY <1>21 DEF CommandBegins
<1>22. ASSUME NEW c \in Commands, CommandDone(c) PROVE Streaming'
  BY <1>22 DEF CommandDone
<1>23. ASSUME NEW r \in Runtimes, TimerFires(r) PROVE Streaming'
  BY <1>23 DEF TimerFires
<1>24. ASSUME ReloadFails PROVE Streaming'
  BY <1>24 DEF ReloadFails
<1>25. ASSUME Esc PROVE Streaming'
  BY <1>25 DEF Esc
<1>26. ASSUME Crash PROVE Streaming'
  BY <1>26 DEF Crash
<1>27. ASSUME RecoveryReads PROVE Streaming'
  BY <1>27 DEF RecoveryReads
<1>28. ASSUME RecoveryFails PROVE Streaming'
  BY <1>28 DEF RecoveryFails
<1>29. ASSUME RecoverAnswer PROVE Streaming'
  BY <1>29 DEF RecoverAnswer
<1>30. ASSUME Resume PROVE Streaming'
  BY <1>30 DEF Resume
<1>31. ASSUME SkipRecursiveRecovery PROVE Streaming'
  BY <1>31 DEF SkipRecursiveRecovery
<1>32. ASSUME ReconcilePlaceholder PROVE Streaming'
  BY <1>32 DEF ReconcilePlaceholder
<1>33. ASSUME UNCHANGED vars PROVE Streaming'
  BY <1>33 DEF vars
<1>34. QED
  BY <1>1, <1>2, <1>3, <1>4, <1>5, <1>6, <1>7, <1>8, <1>9, <1>10, <1>11, <1>12, <1>13, <1>14, <1>15, <1>16, <1>17, <1>18, <1>19, <1>20, <1>21, <1>22, <1>23, <1>24, <1>25, <1>26, <1>27, <1>28, <1>29, <1>30, <1>31, <1>32, <1>33 DEF Next, Handler, PromptOp, CommandOp, Startup

\* A session is only opened while none is mapped.

\* An operation that starts to open a session races with whoever is opening one.
LEMMA OpStartsRacing ==
  ASSUME NEW o \in Messages \cup Commands, TypeInv, Racing, OpStarts(o) PROVE Racing'
<1> USE ConstantNames DEF TypeInv, TypeOK, Openers, Racing, NoOrphanRuntime
<1>1. CASE UNCHANGED <<mapped, rt, raced>>
  BY <1>1
<1>2. CASE /\ mapped = None /\ UNCHANGED mapped
           /\ \E r \in Runtimes : StartOpening(r)
  <2>1. PICK r \in Runtimes : StartOpening(r)
    BY <1>2
  <2>2. rt' = [rt EXCEPT ![r] = "opening"]
    BY <2>1 DEF StartOpening
  <2>3. raced' = (raced \/ \E s \in Runtimes : rt[s] = "opening")
    BY <2>1 DEF StartOpening, Opening
  <2> QED
    BY <1>2, <2>2, <2>3
<1> QED
  BY <1>1, <1>2 DEF OpStarts, StartOpening

\* Two sessions are opened at once only in a race, and only a race leaves a
\* runtime behind.
LEMMA RacingStep == TypeInv /\ Racing /\ [Next]_vars => Racing'
<1> SUFFICES ASSUME TypeInv /\ Racing, [Next]_vars PROVE Racing'
  OBVIOUS
<1> USE ConstantNames DEF TypeInv, TypeOK, Openers, Racing, NoOrphanRuntime, Settled, Fault, PatchThread, ScheduleDispose, DisposeThread, Unused, Opening, StartOpening, Opened, NotQueued, Steered, Running, OpOver, RecoveryOver, record, handlers, operations, sessions, transcript, startup, history
<1>1. ASSUME NEW m \in Messages, Arrive(m) PROVE Racing'
  BY <1>1 DEF Arrive
<1>2. ASSUME NEW m \in Messages, AskVisible(m) PROVE Racing'
  BY <1>2 DEF AskVisible
<1>3. ASSUME NEW m \in Messages, AskHidden(m) PROVE Racing'
  BY <1>3 DEF AskHidden
<1>4. ASSUME NEW m \in Messages, AbortUntracked(m) PROVE Racing'
  BY <1>4 DEF AbortUntracked
<1>5. ASSUME NEW m \in Messages, AskUnmapped(m) PROVE Racing'
  BY <1>5 DEF AskUnmapped
<1>6. ASSUME NEW m \in Messages, HandlerOpened(m) PROVE Racing'
  BY <1>6 DEF HandlerOpened
<1>7. ASSUME NEW m \in Messages, HandlerOpenFails(m) PROVE Racing'
  BY <1>7 DEF HandlerOpenFails
<1>8. ASSUME NEW m \in Messages, AskOpened(m) PROVE Racing'
  BY <1>8 DEF AskOpened
<1>9. ASSUME NEW m \in Messages, EnqueuePrompt(m) PROVE Racing'
  BY <1>9 DEF EnqueuePrompt
<1>10. ASSUME NEW m \in Messages, PostAnswer(m) PROVE Racing'
  BY <1>10 DEF PostAnswer
<1>11. ASSUME NEW m \in Messages, HandlerFails(m) PROVE Racing'
  BY <1>11 DEF HandlerFails
<1>12. ASSUME NEW m \in Messages, OpStarts(m) PROVE Racing'
  BY <1>12, OpStartsRacing
<1>13. ASSUME NEW m \in Messages, OpOpened(m) PROVE Racing'
  BY <1>13 DEF OpOpened
<1>14. ASSUME NEW m \in Messages, TurnBegins(m) PROVE Racing'
  BY <1>14 DEF TurnBegins
<1>15. ASSUME NEW m \in Messages, TurnEnds(m) PROVE Racing'
  BY <1>15 DEF TurnEnds
<1>16. ASSUME NEW m \in Messages, PromptDone(m) PROVE Racing'
  BY <1>16 DEF PromptDone
<1>17. ASSUME NEW m \in Messages, PromptFails(m) PROVE Racing'
  BY <1>17 DEF PromptFails
<1>18. ASSUME NEW c \in Commands, RequestCommand(c) PROVE Racing'
  BY <1>18 DEF RequestCommand
<1>19. ASSUME NEW c \in Commands, OpStarts(c) PROVE Racing'
  BY <1>19, OpStartsRacing
<1>20. ASSUME NEW c \in Commands, OpOpened(c) PROVE Racing'
  BY <1>20 DEF OpOpened
<1>21. ASSUME NEW c \in Commands, CommandBegins(c) PROVE Racing'
  BY <1>21 DEF CommandBegins
<1>22. ASSUME NEW c \in Commands, CommandDone(c) PROVE Racing'
  BY <1>22 DEF CommandDone
<1>23. ASSUME NEW r \in Runtimes, TimerFires(r) PROVE Racing'
  BY <1>23 DEF TimerFires
<1>24. ASSUME ReloadFails PROVE Racing'
  BY <1>24 DEF ReloadFails
<1>25. ASSUME Esc PROVE Racing'
  BY <1>25 DEF Esc
<1>26. ASSUME Crash PROVE Racing'
  BY <1>26 DEF Crash
<1>27. ASSUME RecoveryReads PROVE Racing'
  BY <1>27 DEF RecoveryReads
<1>28. ASSUME RecoveryFails PROVE Racing'
  BY <1>28 DEF RecoveryFails
<1>29. ASSUME RecoverAnswer PROVE Racing'
  BY <1>29 DEF RecoverAnswer
<1>30. ASSUME Resume PROVE Racing'
  BY <1>30 DEF Resume
<1>31. ASSUME SkipRecursiveRecovery PROVE Racing'
  BY <1>31 DEF SkipRecursiveRecovery
<1>32. ASSUME ReconcilePlaceholder PROVE Racing'
  BY <1>32 DEF ReconcilePlaceholder
<1>33. ASSUME UNCHANGED vars PROVE Racing'
  BY <1>33 DEF vars
<1>34. QED
  BY <1>1, <1>2, <1>3, <1>4, <1>5, <1>6, <1>7, <1>8, <1>9, <1>10, <1>11, <1>12, <1>13, <1>14, <1>15, <1>16, <1>17, <1>18, <1>19, <1>20, <1>21, <1>22, <1>23, <1>24, <1>25, <1>26, <1>27, <1>28, <1>29, <1>30, <1>31, <1>32, <1>33 DEF Next, Handler, PromptOp, CommandOp, Startup

\* Only a timer or a race takes the runtime of the operation out of the map.
LEMMA ReachingStep == TypeInv /\ Racing /\ Reaching /\ [Next]_vars => Reaching'
<1> SUFFICES ASSUME TypeInv /\ Racing /\ Reaching, [Next]_vars PROVE Reaching'
  OBVIOUS
<1> USE ConstantNames DEF TypeInv, TypeOK, Openers, Racing, Reaching, Settled, Fault, PatchThread, ScheduleDispose, DisposeThread, Unused, Opening, StartOpening, Opened, NotQueued, Steered, Running, OpOver, RecoveryOver, record, handlers, operations, sessions, transcript, startup, history
<1>1. ASSUME NEW m \in Messages, Arrive(m) PROVE Reaching'
  BY <1>1 DEF Arrive
<1>2. ASSUME NEW m \in Messages, AskVisible(m) PROVE Reaching'
  BY <1>2 DEF AskVisible
<1>3. ASSUME NEW m \in Messages, AskHidden(m) PROVE Reaching'
  BY <1>3 DEF AskHidden
<1>4. ASSUME NEW m \in Messages, AbortUntracked(m) PROVE Reaching'
  BY <1>4 DEF AbortUntracked
<1>5. ASSUME NEW m \in Messages, AskUnmapped(m) PROVE Reaching'
  BY <1>5 DEF AskUnmapped
<1>6. ASSUME NEW m \in Messages, HandlerOpened(m) PROVE Reaching'
  BY <1>6 DEF HandlerOpened
<1>7. ASSUME NEW m \in Messages, HandlerOpenFails(m) PROVE Reaching'
  BY <1>7 DEF HandlerOpenFails
<1>8. ASSUME NEW m \in Messages, AskOpened(m) PROVE Reaching'
  BY <1>8 DEF AskOpened
<1>9. ASSUME NEW m \in Messages, EnqueuePrompt(m) PROVE Reaching'
  BY <1>9 DEF EnqueuePrompt
<1>10. ASSUME NEW m \in Messages, PostAnswer(m) PROVE Reaching'
  BY <1>10 DEF PostAnswer
<1>11. ASSUME NEW m \in Messages, HandlerFails(m) PROVE Reaching'
  BY <1>11 DEF HandlerFails
<1>12. ASSUME NEW m \in Messages, OpStarts(m) PROVE Reaching'
  BY <1>12 DEF OpStarts
<1>13. ASSUME NEW m \in Messages, OpOpened(m) PROVE Reaching'
  BY <1>13 DEF OpOpened
<1>14. ASSUME NEW m \in Messages, TurnBegins(m) PROVE Reaching'
  BY <1>14 DEF TurnBegins
<1>15. ASSUME NEW m \in Messages, TurnEnds(m) PROVE Reaching'
  BY <1>15 DEF TurnEnds
<1>16. ASSUME NEW m \in Messages, PromptDone(m) PROVE Reaching'
  BY <1>16 DEF PromptDone
<1>17. ASSUME NEW m \in Messages, PromptFails(m) PROVE Reaching'
  BY <1>17 DEF PromptFails
<1>18. ASSUME NEW c \in Commands, RequestCommand(c) PROVE Reaching'
  BY <1>18 DEF RequestCommand
<1>19. ASSUME NEW c \in Commands, OpStarts(c) PROVE Reaching'
  BY <1>19 DEF OpStarts
<1>20. ASSUME NEW c \in Commands, OpOpened(c) PROVE Reaching'
  BY <1>20 DEF OpOpened
<1>21. ASSUME NEW c \in Commands, CommandBegins(c) PROVE Reaching'
  BY <1>21 DEF CommandBegins
<1>22. ASSUME NEW c \in Commands, CommandDone(c) PROVE Reaching'
  BY <1>22 DEF CommandDone
<1>23. ASSUME NEW r \in Runtimes, TimerFires(r) PROVE Reaching'
  BY <1>23 DEF TimerFires
<1>24. ASSUME ReloadFails PROVE Reaching'
  BY <1>24 DEF ReloadFails
<1>25. ASSUME Esc PROVE Reaching'
  BY <1>25 DEF Esc
<1>26. ASSUME Crash PROVE Reaching'
  BY <1>26 DEF Crash
<1>27. ASSUME RecoveryReads PROVE Reaching'
  BY <1>27 DEF RecoveryReads
<1>28. ASSUME RecoveryFails PROVE Reaching'
  BY <1>28 DEF RecoveryFails
<1>29. ASSUME RecoverAnswer PROVE Reaching'
  BY <1>29 DEF RecoverAnswer
<1>30. ASSUME Resume PROVE Reaching'
  BY <1>30 DEF Resume
<1>31. ASSUME SkipRecursiveRecovery PROVE Reaching'
  BY <1>31 DEF SkipRecursiveRecovery
<1>32. ASSUME ReconcilePlaceholder PROVE Reaching'
  BY <1>32 DEF ReconcilePlaceholder
<1>33. ASSUME UNCHANGED vars PROVE Reaching'
  BY <1>33 DEF vars
<1>34. QED
  BY <1>1, <1>2, <1>3, <1>4, <1>5, <1>6, <1>7, <1>8, <1>9, <1>10, <1>11, <1>12, <1>13, <1>14, <1>15, <1>16, <1>17, <1>18, <1>19, <1>20, <1>21, <1>22, <1>23, <1>24, <1>25, <1>26, <1>27, <1>28, <1>29, <1>30, <1>31, <1>32, <1>33 DEF Next, Handler, PromptOp, CommandOp, Startup

\* A prompt enters the chain once, and its handler waits until it leaves.
LEMMA ChainedStep == TypeInv /\ Recovering /\ Chained /\ [Next]_vars => Chained'
<1> SUFFICES ASSUME TypeInv /\ Recovering /\ Chained, [Next]_vars PROVE Chained'
  OBVIOUS
<1> USE ConstantNames DEF TypeInv, TypeOK, Openers, Chained, Settled, Fault, PatchThread, ScheduleDispose, DisposeThread, Unused, Opening, StartOpening, Opened, NotQueued, Steered, Running, OpOver, RecoveryOver, record, handlers, operations, sessions, transcript, startup, history
<1>1. ASSUME NEW m \in Messages, Arrive(m) PROVE Chained'
  BY <1>1 DEF Arrive
<1>2. ASSUME NEW m \in Messages, AskVisible(m) PROVE Chained'
  BY <1>2 DEF AskVisible
<1>3. ASSUME NEW m \in Messages, AskHidden(m) PROVE Chained'
  BY <1>3 DEF AskHidden
<1>4. ASSUME NEW m \in Messages, AbortUntracked(m) PROVE Chained'
  BY <1>4 DEF AbortUntracked
<1>5. ASSUME NEW m \in Messages, AskUnmapped(m) PROVE Chained'
  BY <1>5 DEF AskUnmapped
<1>6. ASSUME NEW m \in Messages, HandlerOpened(m) PROVE Chained'
  BY <1>6 DEF HandlerOpened
<1>7. ASSUME NEW m \in Messages, HandlerOpenFails(m) PROVE Chained'
  BY <1>7 DEF HandlerOpenFails
<1>8. ASSUME NEW m \in Messages, AskOpened(m) PROVE Chained'
  BY <1>8 DEF AskOpened
<1>9. ASSUME NEW m \in Messages, EnqueuePrompt(m) PROVE Chained'
  <2>1. CASE queue' = Append(queue, m) /\ pc' = [pc EXCEPT ![m] = "waiting"]
    BY <1>9, <2>1 DEF EnqueuePrompt
  <2>2. CASE queue' = queue /\ pc' = [pc EXCEPT ![m] = "erring"]
    BY <1>9, <2>2 DEF EnqueuePrompt
  <2> QED
    BY <1>9, <2>1, <2>2 DEF EnqueuePrompt
<1>10. ASSUME NEW m \in Messages, PostAnswer(m) PROVE Chained'
  BY <1>10 DEF PostAnswer
<1>11. ASSUME NEW m \in Messages, HandlerFails(m) PROVE Chained'
  BY <1>11 DEF HandlerFails
<1>12. ASSUME NEW m \in Messages, OpStarts(m) PROVE Chained'
  BY <1>12 DEF OpStarts
<1>13. ASSUME NEW m \in Messages, OpOpened(m) PROVE Chained'
  BY <1>13 DEF OpOpened
<1>14. ASSUME NEW m \in Messages, TurnBegins(m) PROVE Chained'
  BY <1>14 DEF TurnBegins
<1>15. ASSUME NEW m \in Messages, TurnEnds(m) PROVE Chained'
  BY <1>15 DEF TurnEnds
<1>16. ASSUME NEW m \in Messages, PromptDone(m) PROVE Chained'
  BY <1>16 DEF PromptDone
<1>17. ASSUME NEW m \in Messages, PromptFails(m) PROVE Chained'
  BY <1>17 DEF PromptFails
<1>18. ASSUME NEW c \in Commands, RequestCommand(c) PROVE Chained'
  BY <1>18 DEF RequestCommand
<1>19. ASSUME NEW c \in Commands, OpStarts(c) PROVE Chained'
  BY <1>19 DEF OpStarts
<1>20. ASSUME NEW c \in Commands, OpOpened(c) PROVE Chained'
  BY <1>20 DEF OpOpened
<1>21. ASSUME NEW c \in Commands, CommandBegins(c) PROVE Chained'
  BY <1>21 DEF CommandBegins
<1>22. ASSUME NEW c \in Commands, CommandDone(c) PROVE Chained'
  BY <1>22 DEF CommandDone
<1>23. ASSUME NEW r \in Runtimes, TimerFires(r) PROVE Chained'
  BY <1>23 DEF TimerFires
<1>24. ASSUME ReloadFails PROVE Chained'
  BY <1>24 DEF ReloadFails
<1>25. ASSUME Esc PROVE Chained'
  BY <1>25 DEF Esc
<1>26. ASSUME Crash PROVE Chained'
  BY <1>26 DEF Crash
<1>27. ASSUME RecoveryReads PROVE Chained'
  BY <1>27 DEF RecoveryReads
<1>28. ASSUME RecoveryFails PROVE Chained'
  BY <1>28 DEF RecoveryFails
<1>29. ASSUME RecoverAnswer PROVE Chained'
  BY <1>29 DEF RecoverAnswer
<1>30. ASSUME Resume PROVE Chained'
  BY <1>30 DEF Resume, Recovering
<1>31. ASSUME SkipRecursiveRecovery PROVE Chained'
  BY <1>31 DEF SkipRecursiveRecovery
<1>32. ASSUME ReconcilePlaceholder PROVE Chained'
  BY <1>32 DEF ReconcilePlaceholder
<1>33. ASSUME UNCHANGED vars PROVE Chained'
  BY <1>33 DEF vars
<1>34. QED
  BY <1>1, <1>2, <1>3, <1>4, <1>5, <1>6, <1>7, <1>8, <1>9, <1>10, <1>11, <1>12, <1>13, <1>14, <1>15, <1>16, <1>17, <1>18, <1>19, <1>20, <1>21, <1>22, <1>23, <1>24, <1>25, <1>26, <1>27, <1>28, <1>29, <1>30, <1>31, <1>32, <1>33 DEF Next, Handler, PromptOp, CommandOp, Startup

\* The active run is not settled under the record, and recovery deals with the
\* run that the crash lost.
LEMMA RecoveringStep == TypeInv /\ Chained /\ Recovering /\ [Next]_vars => Recovering'
<1> SUFFICES ASSUME TypeInv /\ Chained /\ Recovering, [Next]_vars PROVE Recovering'
  OBVIOUS
<1> USE ConstantNames DEF TypeInv, TypeOK, Openers, Visible, Chained, Recovering, Settled, Fault, PatchThread, ScheduleDispose, DisposeThread, Unused, Opening, StartOpening, Opened, NotQueued, Steered, Running, OpOver, RecoveryOver, record, handlers, operations, sessions, transcript, startup, history
<1>1. ASSUME NEW m \in Messages, Arrive(m) PROVE Recovering'
  BY <1>1 DEF Arrive
<1>2. ASSUME NEW m \in Messages, AskVisible(m) PROVE Recovering'
  BY <1>2 DEF AskVisible
<1>3. ASSUME NEW m \in Messages, AskHidden(m) PROVE Recovering'
  BY <1>3 DEF AskHidden
<1>4. ASSUME NEW m \in Messages, AbortUntracked(m) PROVE Recovering'
  BY <1>4 DEF AbortUntracked
<1>5. ASSUME NEW m \in Messages, AskUnmapped(m) PROVE Recovering'
  BY <1>5 DEF AskUnmapped
<1>6. ASSUME NEW m \in Messages, HandlerOpened(m) PROVE Recovering'
  BY <1>6 DEF HandlerOpened
<1>7. ASSUME NEW m \in Messages, HandlerOpenFails(m) PROVE Recovering'
  BY <1>7 DEF HandlerOpenFails
<1>8. ASSUME NEW m \in Messages, AskOpened(m) PROVE Recovering'
  BY <1>8 DEF AskOpened
<1>9. ASSUME NEW m \in Messages, EnqueuePrompt(m) PROVE Recovering'
  BY <1>9 DEF EnqueuePrompt
<1>10. ASSUME NEW m \in Messages, PostAnswer(m) PROVE Recovering'
  BY <1>10 DEF PostAnswer
<1>11. ASSUME NEW m \in Messages, HandlerFails(m) PROVE Recovering'
  BY <1>11 DEF HandlerFails
<1>12. ASSUME NEW m \in Messages, OpStarts(m) PROVE Recovering'
  BY <1>12 DEF OpStarts
<1>13. ASSUME NEW m \in Messages, OpOpened(m) PROVE Recovering'
  BY <1>13 DEF OpOpened
<1>14. ASSUME NEW m \in Messages, TurnBegins(m) PROVE Recovering'
  BY <1>14 DEF TurnBegins
<1>15. ASSUME NEW m \in Messages, TurnEnds(m) PROVE Recovering'
  BY <1>15 DEF TurnEnds
<1>16. ASSUME NEW m \in Messages, PromptDone(m) PROVE Recovering'
  BY <1>16 DEF PromptDone
<1>17. ASSUME NEW m \in Messages, PromptFails(m) PROVE Recovering'
  BY <1>17 DEF PromptFails
<1>18. ASSUME NEW c \in Commands, RequestCommand(c) PROVE Recovering'
  BY <1>18 DEF RequestCommand
<1>19. ASSUME NEW c \in Commands, OpStarts(c) PROVE Recovering'
  BY <1>19 DEF OpStarts
<1>20. ASSUME NEW c \in Commands, OpOpened(c) PROVE Recovering'
  BY <1>20 DEF OpOpened
<1>21. ASSUME NEW c \in Commands, CommandBegins(c) PROVE Recovering'
  BY <1>21 DEF CommandBegins
<1>22. ASSUME NEW c \in Commands, CommandDone(c) PROVE Recovering'
  BY <1>22 DEF CommandDone
<1>23. ASSUME NEW r \in Runtimes, TimerFires(r) PROVE Recovering'
  BY <1>23 DEF TimerFires
<1>24. ASSUME ReloadFails PROVE Recovering'
  BY <1>24 DEF ReloadFails
<1>25. ASSUME Esc PROVE Recovering'
  BY <1>25 DEF Esc
<1>26. ASSUME Crash PROVE Recovering'
  BY <1>26 DEF Crash
<1>27. ASSUME RecoveryReads PROVE Recovering'
  BY <1>27 DEF RecoveryReads
<1>28. ASSUME RecoveryFails PROVE Recovering'
  BY <1>28 DEF RecoveryFails
<1>29. ASSUME RecoverAnswer PROVE Recovering'
  BY <1>29 DEF RecoverAnswer
<1>30. ASSUME Resume PROVE Recovering'
  BY <1>30 DEF Resume
<1>31. ASSUME SkipRecursiveRecovery PROVE Recovering'
  BY <1>31 DEF SkipRecursiveRecovery
<1>32. ASSUME ReconcilePlaceholder PROVE Recovering'
  BY <1>32 DEF ReconcilePlaceholder
<1>33. ASSUME UNCHANGED vars PROVE Recovering'
  BY <1>33 DEF vars
<1>34. QED
  BY <1>1, <1>2, <1>3, <1>4, <1>5, <1>6, <1>7, <1>8, <1>9, <1>10, <1>11, <1>12, <1>13, <1>14, <1>15, <1>16, <1>17, <1>18, <1>19, <1>20, <1>21, <1>22, <1>23, <1>24, <1>25, <1>26, <1>27, <1>28, <1>29, <1>30, <1>31, <1>32, <1>33 DEF Next, Handler, PromptOp, CommandOp, Startup

\* Whoever makes the record say running takes it back before it is done.
LEMMA AccountedStep == TypeInv /\ Streaming /\ Recovering /\ Accounted /\ [Next]_vars => Accounted'
<1> SUFFICES ASSUME TypeInv /\ Streaming /\ Recovering /\ Accounted, [Next]_vars PROVE Accounted'
  OBVIOUS
<1> USE ConstantNames DEF TypeInv, TypeOK, Openers, Streaming, Recovering, Accounted, Settled, Fault, PatchThread, ScheduleDispose, DisposeThread, Unused, Opening, StartOpening, Opened, NotQueued, Steered, Running, OpOver, RecoveryOver, record, handlers, operations, sessions, transcript, startup, history
<1>1. ASSUME NEW m \in Messages, Arrive(m) PROVE Accounted'
  BY <1>1 DEF Arrive
<1>2. ASSUME NEW m \in Messages, AskVisible(m) PROVE Accounted'
  BY <1>2 DEF AskVisible
<1>3. ASSUME NEW m \in Messages, AskHidden(m) PROVE Accounted'
  BY <1>3 DEF AskHidden
<1>4. ASSUME NEW m \in Messages, AbortUntracked(m) PROVE Accounted'
  BY <1>4 DEF AbortUntracked
<1>5. ASSUME NEW m \in Messages, AskUnmapped(m) PROVE Accounted'
  BY <1>5 DEF AskUnmapped
<1>6. ASSUME NEW m \in Messages, HandlerOpened(m) PROVE Accounted'
  BY <1>6 DEF HandlerOpened
<1>7. ASSUME NEW m \in Messages, HandlerOpenFails(m) PROVE Accounted'
  BY <1>7 DEF HandlerOpenFails
<1>8. ASSUME NEW m \in Messages, AskOpened(m) PROVE Accounted'
  BY <1>8 DEF AskOpened
<1>9. ASSUME NEW m \in Messages, EnqueuePrompt(m) PROVE Accounted'
  BY <1>9 DEF EnqueuePrompt
<1>10. ASSUME NEW m \in Messages, PostAnswer(m) PROVE Accounted'
  BY <1>10 DEF PostAnswer
<1>11. ASSUME NEW m \in Messages, HandlerFails(m) PROVE Accounted'
  BY <1>11 DEF HandlerFails
<1>12. ASSUME NEW m \in Messages, OpStarts(m) PROVE Accounted'
  BY <1>12 DEF OpStarts
<1>13. ASSUME NEW m \in Messages, OpOpened(m) PROVE Accounted'
  BY <1>13 DEF OpOpened
<1>14. ASSUME NEW m \in Messages, TurnBegins(m) PROVE Accounted'
  BY <1>14 DEF TurnBegins
<1>15. ASSUME NEW m \in Messages, TurnEnds(m) PROVE Accounted'
  BY <1>15 DEF TurnEnds
<1>16. ASSUME NEW m \in Messages, PromptDone(m) PROVE Accounted'
  BY <1>16 DEF PromptDone
<1>17. ASSUME NEW m \in Messages, PromptFails(m) PROVE Accounted'
  BY <1>17 DEF PromptFails
<1>18. ASSUME NEW c \in Commands, RequestCommand(c) PROVE Accounted'
  BY <1>18 DEF RequestCommand
<1>19. ASSUME NEW c \in Commands, OpStarts(c) PROVE Accounted'
  BY <1>19 DEF OpStarts
<1>20. ASSUME NEW c \in Commands, OpOpened(c) PROVE Accounted'
  BY <1>20 DEF OpOpened
<1>21. ASSUME NEW c \in Commands, CommandBegins(c) PROVE Accounted'
  BY <1>21 DEF CommandBegins
<1>22. ASSUME NEW c \in Commands, CommandDone(c) PROVE Accounted'
  BY <1>22 DEF CommandDone
<1>23. ASSUME NEW r \in Runtimes, TimerFires(r) PROVE Accounted'
  BY <1>23 DEF TimerFires
<1>24. ASSUME ReloadFails PROVE Accounted'
  BY <1>24 DEF ReloadFails
<1>25. ASSUME Esc PROVE Accounted'
  BY <1>25 DEF Esc
<1>26. ASSUME Crash PROVE Accounted'
  BY <1>26 DEF Crash
<1>27. ASSUME RecoveryReads PROVE Accounted'
  BY <1>27 DEF RecoveryReads
<1>28. ASSUME RecoveryFails PROVE Accounted'
  BY <1>28 DEF RecoveryFails
<1>29. ASSUME RecoverAnswer PROVE Accounted'
  BY <1>29 DEF RecoverAnswer
<1>30. ASSUME Resume PROVE Accounted'
  BY <1>30 DEF Resume
<1>31. ASSUME SkipRecursiveRecovery PROVE Accounted'
  BY <1>31 DEF SkipRecursiveRecovery
<1>32. ASSUME ReconcilePlaceholder PROVE Accounted'
  BY <1>32 DEF ReconcilePlaceholder
<1>33. ASSUME UNCHANGED vars PROVE Accounted'
  BY <1>33 DEF vars
<1>34. QED
  BY <1>1, <1>2, <1>3, <1>4, <1>5, <1>6, <1>7, <1>8, <1>9, <1>10, <1>11, <1>12, <1>13, <1>14, <1>15, <1>16, <1>17, <1>18, <1>19, <1>20, <1>21, <1>22, <1>23, <1>24, <1>25, <1>26, <1>27, <1>28, <1>29, <1>30, <1>31, <1>32, <1>33 DEF Next, Handler, PromptOp, CommandOp, Startup

-----------------------------------------------------------------------------
\* The handler of the prompt whose operation runs waits for it.
LEMMA HeadWaits ==
  ASSUME TypeInv, Chained, NEW m \in Messages, Running(m) PROVE pc[m] = "waiting"
<1>1. queue \in Seq(Messages \cup Commands) /\ queue # <<>> /\ Head(queue) = m
  BY DEF TypeInv, TypeOK, Running
<1>2. 1 \in 1..Len(queue) /\ queue[1] = m
  BY <1>1
<1> QED
  BY <1>2 DEF Chained

\* A turn only begins for the head of the chain, and the chain is only empty when
\* its last operation is over.
LEMMA OperatingStep == SessionInv /\ LoneInv /\ [Next]_vars => Operating'
<1> SUFFICES ASSUME SessionInv /\ LoneInv, [Next]_vars PROVE Operating'
  OBVIOUS
<1> USE ConstantNames DEF SessionInv, LoneInv, TypeInv, TypeOK, Openers, Operating, Streaming, Settled, Fault, PatchThread, ScheduleDispose, DisposeThread, Unused, StartOpening, Opened, NotQueued, Steered, Running, OpOver, RecoveryOver, record, handlers, operations, sessions, transcript, startup, history, InFlight, Unbegun
<1>1. ASSUME NEW m \in Messages, Arrive(m) PROVE Operating'
  BY <1>1 DEF Arrive
<1>2. ASSUME NEW m \in Messages, AskVisible(m) PROVE Operating'
  BY <1>2 DEF AskVisible
<1>3. ASSUME NEW m \in Messages, AskHidden(m) PROVE Operating'
  BY <1>3 DEF AskHidden
<1>4. ASSUME NEW m \in Messages, AbortUntracked(m) PROVE Operating'
  BY <1>4 DEF AbortUntracked
<1>5. ASSUME NEW m \in Messages, AskUnmapped(m) PROVE Operating'
  BY <1>5 DEF AskUnmapped
<1>6. ASSUME NEW m \in Messages, HandlerOpened(m) PROVE Operating'
  BY <1>6 DEF HandlerOpened
<1>7. ASSUME NEW m \in Messages, HandlerOpenFails(m) PROVE Operating'
  BY <1>7 DEF HandlerOpenFails
<1>8. ASSUME NEW m \in Messages, AskOpened(m) PROVE Operating'
  BY <1>8 DEF AskOpened
<1>9. ASSUME NEW m \in Messages, EnqueuePrompt(m) PROVE Operating'
  BY <1>9 DEF EnqueuePrompt
<1>10. ASSUME NEW m \in Messages, PostAnswer(m) PROVE Operating'
  BY <1>10 DEF PostAnswer
<1>11. ASSUME NEW m \in Messages, HandlerFails(m) PROVE Operating'
  BY <1>11 DEF HandlerFails
<1>12. ASSUME NEW m \in Messages, OpStarts(m) PROVE Operating'
  BY <1>12, HeadWaits DEF OpStarts
<1>13. ASSUME NEW m \in Messages, OpOpened(m) PROVE Operating'
  BY <1>13, HeadWaits DEF OpOpened
<1>14. ASSUME NEW m \in Messages, TurnBegins(m) PROVE Operating'
  BY <1>14, HeadWaits DEF TurnBegins
<1>15. ASSUME NEW m \in Messages, TurnEnds(m) PROVE Operating'
  BY <1>15, HeadWaits DEF TurnEnds
<1>16. ASSUME NEW m \in Messages, PromptDone(m) PROVE Operating'
  BY <1>16, HeadWaits DEF PromptDone
<1>17. ASSUME NEW m \in Messages, PromptFails(m) PROVE Operating'
  BY <1>17, HeadWaits DEF PromptFails
<1>18. ASSUME NEW c \in Commands, RequestCommand(c) PROVE Operating'
  BY <1>18 DEF RequestCommand
<1>19. ASSUME NEW c \in Commands, OpStarts(c) PROVE Operating'
  BY <1>19 DEF OpStarts
<1>20. ASSUME NEW c \in Commands, OpOpened(c) PROVE Operating'
  BY <1>20 DEF OpOpened
<1>21. ASSUME NEW c \in Commands, CommandBegins(c) PROVE Operating'
  BY <1>21 DEF CommandBegins
<1>22. ASSUME NEW c \in Commands, CommandDone(c) PROVE Operating'
  BY <1>22 DEF CommandDone
<1>23. ASSUME NEW r \in Runtimes, TimerFires(r) PROVE Operating'
  BY <1>23 DEF TimerFires
<1>24. ASSUME ReloadFails PROVE Operating'
  BY <1>24 DEF ReloadFails
<1>25. ASSUME Esc PROVE Operating'
  BY <1>25 DEF Esc
<1>26. ASSUME Crash PROVE Operating'
  BY <1>26 DEF Crash
<1>27. ASSUME RecoveryReads PROVE Operating'
  BY <1>27 DEF RecoveryReads
<1>28. ASSUME RecoveryFails PROVE Operating'
  BY <1>28 DEF RecoveryFails
<1>29. ASSUME RecoverAnswer PROVE Operating'
  BY <1>29 DEF RecoverAnswer
<1>30. ASSUME Resume PROVE Operating'
  BY <1>30 DEF Resume
<1>31. ASSUME SkipRecursiveRecovery PROVE Operating'
  BY <1>31 DEF SkipRecursiveRecovery
<1>32. ASSUME ReconcilePlaceholder PROVE Operating'
  BY <1>32 DEF ReconcilePlaceholder
<1>33. ASSUME UNCHANGED vars PROVE Operating'
  BY <1>33 DEF vars
<1>34. QED
  BY <1>1, <1>2, <1>3, <1>4, <1>5, <1>6, <1>7, <1>8, <1>9, <1>10, <1>11, <1>12, <1>13, <1>14, <1>15, <1>16, <1>17, <1>18, <1>19, <1>20, <1>21, <1>22, <1>23, <1>24, <1>25, <1>26, <1>27, <1>28, <1>29, <1>30, <1>31, <1>32, <1>33 DEF Next, Handler, PromptOp, CommandOp, Startup

\* Such a prompt is put at the end of an empty chain.
LEMMA FirstStep == SessionInv /\ LoneInv /\ [Next]_vars => First'
<1> SUFFICES ASSUME SessionInv /\ LoneInv, [Next]_vars PROVE First'
  OBVIOUS
<1> USE ConstantNames DEF SessionInv, LoneInv, TypeInv, TypeOK, Alone, Preparing, First, Settled, Fault, PatchThread, ScheduleDispose, DisposeThread, Unused, StartOpening, Opened, NotQueued, Steered, Running, OpOver, RecoveryOver, record, handlers, operations, sessions, transcript, startup, history, InFlight, Unbegun
<1>1. ASSUME NEW m \in Messages, Arrive(m) PROVE First'
  BY <1>1 DEF Arrive
<1>2. ASSUME NEW m \in Messages, AskVisible(m) PROVE First'
  BY <1>2 DEF AskVisible
<1>3. ASSUME NEW m \in Messages, AskHidden(m) PROVE First'
  BY <1>3 DEF AskHidden
<1>4. ASSUME NEW m \in Messages, AbortUntracked(m) PROVE First'
  BY <1>4 DEF AbortUntracked
<1>5. ASSUME NEW m \in Messages, AskUnmapped(m) PROVE First'
  BY <1>5 DEF AskUnmapped
<1>6. ASSUME NEW m \in Messages, HandlerOpened(m) PROVE First'
  BY <1>6 DEF HandlerOpened
<1>7. ASSUME NEW m \in Messages, HandlerOpenFails(m) PROVE First'
  BY <1>7 DEF HandlerOpenFails
<1>8. ASSUME NEW m \in Messages, AskOpened(m) PROVE First'
  BY <1>8 DEF AskOpened
<1>9. ASSUME NEW m \in Messages, EnqueuePrompt(m) PROVE First'
  BY <1>9 DEF EnqueuePrompt
<1>10. ASSUME NEW m \in Messages, PostAnswer(m) PROVE First'
  BY <1>10 DEF PostAnswer
<1>11. ASSUME NEW m \in Messages, HandlerFails(m) PROVE First'
  BY <1>11 DEF HandlerFails
<1>12. ASSUME NEW m \in Messages, OpStarts(m) PROVE First'
  BY <1>12, HeadWaits DEF OpStarts
<1>13. ASSUME NEW m \in Messages, OpOpened(m) PROVE First'
  BY <1>13, HeadWaits DEF OpOpened
<1>14. ASSUME NEW m \in Messages, TurnBegins(m) PROVE First'
  BY <1>14, HeadWaits DEF TurnBegins
<1>15. ASSUME NEW m \in Messages, TurnEnds(m) PROVE First'
  BY <1>15, HeadWaits DEF TurnEnds
<1>16. ASSUME NEW m \in Messages, PromptDone(m) PROVE First'
  BY <1>16, HeadWaits DEF PromptDone
<1>17. ASSUME NEW m \in Messages, PromptFails(m) PROVE First'
  BY <1>17, HeadWaits DEF PromptFails
<1>18. ASSUME NEW c \in Commands, RequestCommand(c) PROVE First'
  BY <1>18 DEF RequestCommand
<1>19. ASSUME NEW c \in Commands, OpStarts(c) PROVE First'
  BY <1>19 DEF OpStarts
<1>20. ASSUME NEW c \in Commands, OpOpened(c) PROVE First'
  BY <1>20 DEF OpOpened
<1>21. ASSUME NEW c \in Commands, CommandBegins(c) PROVE First'
  BY <1>21 DEF CommandBegins
<1>22. ASSUME NEW c \in Commands, CommandDone(c) PROVE First'
  BY <1>22 DEF CommandDone
<1>23. ASSUME NEW r \in Runtimes, TimerFires(r) PROVE First'
  BY <1>23 DEF TimerFires
<1>24. ASSUME ReloadFails PROVE First'
  BY <1>24 DEF ReloadFails
<1>25. ASSUME Esc PROVE First'
  BY <1>25 DEF Esc
<1>26. ASSUME Crash PROVE First'
  BY <1>26 DEF Crash
<1>27. ASSUME RecoveryReads PROVE First'
  BY <1>27 DEF RecoveryReads
<1>28. ASSUME RecoveryFails PROVE First'
  BY <1>28 DEF RecoveryFails
<1>29. ASSUME RecoverAnswer PROVE First'
  BY <1>29 DEF RecoverAnswer
<1>30. ASSUME Resume PROVE First'
  BY <1>30 DEF Resume
<1>31. ASSUME SkipRecursiveRecovery PROVE First'
  BY <1>31 DEF SkipRecursiveRecovery
<1>32. ASSUME ReconcilePlaceholder PROVE First'
  BY <1>32 DEF ReconcilePlaceholder
<1>33. ASSUME UNCHANGED vars PROVE First'
  BY <1>33 DEF vars
<1>34. QED
  BY <1>1, <1>2, <1>3, <1>4, <1>5, <1>6, <1>7, <1>8, <1>9, <1>10, <1>11, <1>12, <1>13, <1>14, <1>15, <1>16, <1>17, <1>18, <1>19, <1>20, <1>21, <1>22, <1>23, <1>24, <1>25, <1>26, <1>27, <1>28, <1>29, <1>30, <1>31, <1>32, <1>33 DEF Next, Handler, PromptOp, CommandOp, Startup

\* Nobody joins a prompt that has the thread to itself without being its company.
LEMMA AloneStep == SessionInv /\ LoneInv /\ [Next]_vars => Alone'
<1> SUFFICES ASSUME SessionInv /\ LoneInv, [Next]_vars PROVE Alone'
  OBVIOUS
<1> USE ConstantNames DEF SessionInv, LoneInv, TypeInv, TypeOK, Visible, Operating, Alone, First, Preparing, Streaming, Chained, Restarting, Settled, Fault, PatchThread, ScheduleDispose, DisposeThread, Unused, StartOpening, Opened, NotQueued, Steered, Running, OpOver, RecoveryOver, record, handlers, operations, sessions, transcript, startup, history, InFlight, Unbegun
<1>1. ASSUME NEW m \in Messages, Arrive(m) PROVE Alone'
  BY <1>1 DEF Arrive
<1>2. ASSUME NEW m \in Messages, AskVisible(m) PROVE Alone'
  BY <1>2 DEF AskVisible
<1>3. ASSUME NEW m \in Messages, AskHidden(m) PROVE Alone'
  BY <1>3 DEF AskHidden
<1>4. ASSUME NEW m \in Messages, AbortUntracked(m) PROVE Alone'
  BY <1>4 DEF AbortUntracked
<1>5. ASSUME NEW m \in Messages, AskUnmapped(m) PROVE Alone'
  BY <1>5 DEF AskUnmapped
<1>6. ASSUME NEW m \in Messages, HandlerOpened(m) PROVE Alone'
  BY <1>6 DEF HandlerOpened
<1>7. ASSUME NEW m \in Messages, HandlerOpenFails(m) PROVE Alone'
  BY <1>7 DEF HandlerOpenFails
<1>8. ASSUME NEW m \in Messages, AskOpened(m) PROVE Alone'
  BY <1>8 DEF AskOpened
<1>9. ASSUME NEW m \in Messages, EnqueuePrompt(m) PROVE Alone'
  BY <1>9 DEF EnqueuePrompt
<1>10. ASSUME NEW m \in Messages, PostAnswer(m) PROVE Alone'
  BY <1>10 DEF PostAnswer
<1>11. ASSUME NEW m \in Messages, HandlerFails(m) PROVE Alone'
  BY <1>11 DEF HandlerFails
<1>12. ASSUME NEW m \in Messages, OpStarts(m) PROVE Alone'
  BY <1>12, HeadWaits DEF OpStarts
<1>13. ASSUME NEW m \in Messages, OpOpened(m) PROVE Alone'
  BY <1>13, HeadWaits DEF OpOpened
<1>14. ASSUME NEW m \in Messages, TurnBegins(m) PROVE Alone'
  BY <1>14, HeadWaits DEF TurnBegins
<1>15. ASSUME NEW m \in Messages, TurnEnds(m) PROVE Alone'
  <2>1. CASE UNCHANGED crowd /\ at' \in {"ok", "error"}
    BY <1>15, <2>1, HeadWaits DEF TurnEnds
  <2>2. CASE /\ at' = "start"
             /\ crowd' = crowd \cup {x \in {m} : InFlight # {m} \/ mapped # opRt}
    <3> SUFFICES ASSUME NEW p \in Messages \ crowd', Preparing(p)'
                 PROVE  /\ InFlight' = {p} /\ recovery' = "none"
                        /\ IF pc'[p] = "waiting"
                             THEN queue' # <<>> /\ Head(queue') = p ELSE queue' = <<>>
                        /\ pc'[p] \in {"patched", "waiting"} =>
                             status' = "running" /\ activeRun' = p
      OBVIOUS
    <3>1. Running(m) /\ at = "turn" /\ UNCHANGED <<record, handlers, queue, startup>>
      BY <1>15 DEF TurnEnds
    <3>2. pc[m] = "waiting" /\ InFlight' = InFlight
      BY <3>1, HeadWaits
    <3>3. p \notin crowd
      BY <2>2
    <3>4. p = m
      <4>1. CASE pc[p] = "waiting"
        BY <4>1, <3>1, <3>3
      <4>2. CASE pc[p] # "waiting"
        <5>1. Preparing(p)
          BY <4>2, <3>1
        <5>2. InFlight = {p}
          BY <5>1, <3>3
        <5> QED
          BY <5>2, <3>2
      <4> QED
        BY <4>1, <4>2
    <3>5. InFlight = {m} /\ mapped = opRt
      BY <2>2, <3>4
    <3>6. status = "running" /\ activeRun = m /\ recovery = "none"
      BY <3>1, <3>3, <3>4, <3>5 DEF Tracked
    <3> QED
      BY <3>1, <3>2, <3>4, <3>5, <3>6
  <2> QED
    BY <1>15, <2>1, <2>2 DEF TurnEnds
<1>16. ASSUME NEW m \in Messages, PromptDone(m) PROVE Alone'
  BY <1>16, HeadWaits DEF PromptDone
<1>17. ASSUME NEW m \in Messages, PromptFails(m) PROVE Alone'
  BY <1>17, HeadWaits DEF PromptFails
<1>18. ASSUME NEW c \in Commands, RequestCommand(c) PROVE Alone'
  BY <1>18 DEF RequestCommand
<1>19. ASSUME NEW c \in Commands, OpStarts(c) PROVE Alone'
  BY <1>19 DEF OpStarts
<1>20. ASSUME NEW c \in Commands, OpOpened(c) PROVE Alone'
  BY <1>20 DEF OpOpened
<1>21. ASSUME NEW c \in Commands, CommandBegins(c) PROVE Alone'
  BY <1>21 DEF CommandBegins
<1>22. ASSUME NEW c \in Commands, CommandDone(c) PROVE Alone'
  BY <1>22 DEF CommandDone
<1>23. ASSUME NEW r \in Runtimes, TimerFires(r) PROVE Alone'
  BY <1>23 DEF TimerFires
<1>24. ASSUME ReloadFails PROVE Alone'
  BY <1>24 DEF ReloadFails
<1>25. ASSUME Esc PROVE Alone'
  BY <1>25 DEF Esc
<1>26. ASSUME Crash PROVE Alone'
  BY <1>26 DEF Crash
<1>27. ASSUME RecoveryReads PROVE Alone'
  BY <1>27 DEF RecoveryReads
<1>28. ASSUME RecoveryFails PROVE Alone'
  BY <1>28 DEF RecoveryFails
<1>29. ASSUME RecoverAnswer PROVE Alone'
  BY <1>29 DEF RecoverAnswer
<1>30. ASSUME Resume PROVE Alone'
  BY <1>30 DEF Resume
<1>31. ASSUME SkipRecursiveRecovery PROVE Alone'
  BY <1>31 DEF SkipRecursiveRecovery
<1>32. ASSUME ReconcilePlaceholder PROVE Alone'
  BY <1>32 DEF ReconcilePlaceholder
<1>33. ASSUME UNCHANGED vars PROVE Alone'
  BY <1>33 DEF vars
<1>34. QED
  BY <1>1, <1>2, <1>3, <1>4, <1>5, <1>6, <1>7, <1>8, <1>9, <1>10, <1>11, <1>12, <1>13, <1>14, <1>15, <1>16, <1>17, <1>18, <1>19, <1>20, <1>21, <1>22, <1>23, <1>24, <1>25, <1>26, <1>27, <1>28, <1>29, <1>30, <1>31, <1>32, <1>33 DEF Next, Handler, PromptOp, CommandOp, Startup

\* A message that arrives while the turn of such a prompt streams sees it in the
\* record, and nothing but the end of that turn changes the record.
LEMMA TrackedStep == SessionInv /\ LoneInv /\ [Next]_vars => Tracked'
<1> SUFFICES ASSUME SessionInv /\ LoneInv, [Next]_vars PROVE Tracked'
  OBVIOUS
<1> USE ConstantNames DEF SessionInv, LoneInv, TypeInv, TypeOK, Visible, Openers, Operating, Alone, Preparing, Streaming, Tracked, Restarting, Recovering, Settled, Fault, PatchThread, ScheduleDispose, DisposeThread, Unused, StartOpening, Opened, NotQueued, Steered, Running, OpOver, RecoveryOver, record, handlers, operations, sessions, transcript, startup, history, InFlight, Unbegun
<1>1. ASSUME NEW m \in Messages, Arrive(m) PROVE Tracked'
  <2> SUFFICES ASSUME NEW p \in Messages \ crowd', (Running(p) /\ at = "turn" /\ mapped = opRt)'
               PROVE  /\ (status = "running" /\ activeRun = p /\ recovery = "none")'
                      /\ \A x \in InFlight' \ {p} : pc'[x] = "asking" /\ seen'[x]
    OBVIOUS
  <2>1. p \notin crowd /\ Running(p) /\ at = "turn" /\ mapped = opRt
    BY <1>1 DEF Arrive
  <2>2. pc[p] = "waiting"
    BY <2>1, HeadWaits
  <2>3. /\ status = "running" /\ activeRun = p /\ recovery = "none"
        /\ \A x \in InFlight \ {p} : pc[x] = "asking" /\ seen[x]
    BY <2>1
  <2>4. pc[m] = "new" /\ pc' = [pc EXCEPT ![m] = "asking"] /\ seen' = [seen EXCEPT ![m] = TRUE]
    BY <1>1, <2>3 DEF Arrive
  <2>5. UNCHANGED <<record, startup>>
    BY <1>1 DEF Arrive
  <2> QED
    BY <2>2, <2>3, <2>4, <2>5
<1>2. ASSUME NEW m \in Messages, AskVisible(m) PROVE Tracked'
  BY <1>2 DEF AskVisible
<1>3. ASSUME NEW m \in Messages, AskHidden(m) PROVE Tracked'
  BY <1>3 DEF AskHidden
<1>4. ASSUME NEW m \in Messages, AbortUntracked(m) PROVE Tracked'
  BY <1>4 DEF AbortUntracked
<1>5. ASSUME NEW m \in Messages, AskUnmapped(m) PROVE Tracked'
  BY <1>5 DEF AskUnmapped
<1>6. ASSUME NEW m \in Messages, HandlerOpened(m) PROVE Tracked'
  BY <1>6 DEF HandlerOpened
<1>7. ASSUME NEW m \in Messages, HandlerOpenFails(m) PROVE Tracked'
  BY <1>7 DEF HandlerOpenFails
<1>8. ASSUME NEW m \in Messages, AskOpened(m) PROVE Tracked'
  BY <1>8 DEF AskOpened
<1>9. ASSUME NEW m \in Messages, EnqueuePrompt(m) PROVE Tracked'
  BY <1>9 DEF EnqueuePrompt
<1>10. ASSUME NEW m \in Messages, PostAnswer(m) PROVE Tracked'
  BY <1>10 DEF PostAnswer
<1>11. ASSUME NEW m \in Messages, HandlerFails(m) PROVE Tracked'
  BY <1>11, HeadWaits DEF HandlerFails
<1>12. ASSUME NEW m \in Messages, OpStarts(m) PROVE Tracked'
  BY <1>12, HeadWaits DEF OpStarts
<1>13. ASSUME NEW m \in Messages, OpOpened(m) PROVE Tracked'
  BY <1>13, HeadWaits DEF OpOpened
<1>14. ASSUME NEW m \in Messages, TurnBegins(m) PROVE Tracked'
  BY <1>14, HeadWaits DEF TurnBegins
<1>15. ASSUME NEW m \in Messages, TurnEnds(m) PROVE Tracked'
  BY <1>15, HeadWaits DEF TurnEnds
<1>16. ASSUME NEW m \in Messages, PromptDone(m) PROVE Tracked'
  BY <1>16, HeadWaits DEF PromptDone
<1>17. ASSUME NEW m \in Messages, PromptFails(m) PROVE Tracked'
  BY <1>17, HeadWaits DEF PromptFails
<1>18. ASSUME NEW c \in Commands, RequestCommand(c) PROVE Tracked'
  BY <1>18 DEF RequestCommand
<1>19. ASSUME NEW c \in Commands, OpStarts(c) PROVE Tracked'
  BY <1>19 DEF OpStarts
<1>20. ASSUME NEW c \in Commands, OpOpened(c) PROVE Tracked'
  BY <1>20 DEF OpOpened
<1>21. ASSUME NEW c \in Commands, CommandBegins(c) PROVE Tracked'
  BY <1>21 DEF CommandBegins
<1>22. ASSUME NEW c \in Commands, CommandDone(c) PROVE Tracked'
  BY <1>22 DEF CommandDone
<1>23. ASSUME NEW r \in Runtimes, TimerFires(r) PROVE Tracked'
  BY <1>23 DEF TimerFires
<1>24. ASSUME ReloadFails PROVE Tracked'
  BY <1>24 DEF ReloadFails
<1>25. ASSUME Esc PROVE Tracked'
  BY <1>25 DEF Esc
<1>26. ASSUME Crash PROVE Tracked'
  BY <1>26 DEF Crash
<1>27. ASSUME RecoveryReads PROVE Tracked'
  BY <1>27 DEF RecoveryReads
<1>28. ASSUME RecoveryFails PROVE Tracked'
  BY <1>28 DEF RecoveryFails
<1>29. ASSUME RecoverAnswer PROVE Tracked'
  BY <1>29 DEF RecoverAnswer
<1>30. ASSUME Resume PROVE Tracked'
  BY <1>30 DEF Resume
<1>31. ASSUME SkipRecursiveRecovery PROVE Tracked'
  BY <1>31 DEF SkipRecursiveRecovery
<1>32. ASSUME ReconcilePlaceholder PROVE Tracked'
  BY <1>32 DEF ReconcilePlaceholder
<1>33. ASSUME UNCHANGED vars PROVE Tracked'
  BY <1>33 DEF vars
<1>34. QED
  BY <1>1, <1>2, <1>3, <1>4, <1>5, <1>6, <1>7, <1>8, <1>9, <1>10, <1>11, <1>12, <1>13, <1>14, <1>15, <1>16, <1>17, <1>18, <1>19, <1>20, <1>21, <1>22, <1>23, <1>24, <1>25, <1>26, <1>27, <1>28, <1>29, <1>30, <1>31, <1>32, <1>33 DEF Next, Handler, PromptOp, CommandOp, Startup

\* A prompt that arrives during the recovery is company for the run it recovers.
LEMMA RestartingStep == SessionInv /\ LoneInv /\ [Next]_vars => Restarting'
<1> SUFFICES ASSUME SessionInv /\ LoneInv, [Next]_vars PROVE Restarting'
  OBVIOUS
<1> USE ConstantNames DEF SessionInv, LoneInv, TypeInv, TypeOK, Restarting, Recovering, Settled, Fault, PatchThread, ScheduleDispose, DisposeThread, Unused, StartOpening, Opened, NotQueued, Steered, Running, OpOver, RecoveryOver, record, handlers, operations, sessions, transcript, startup, history, InFlight, Unbegun
<1>1. ASSUME NEW m \in Messages, Arrive(m) PROVE Restarting'
  BY <1>1 DEF Arrive
<1>2. ASSUME NEW m \in Messages, AskVisible(m) PROVE Restarting'
  BY <1>2 DEF AskVisible
<1>3. ASSUME NEW m \in Messages, AskHidden(m) PROVE Restarting'
  BY <1>3 DEF AskHidden
<1>4. ASSUME NEW m \in Messages, AbortUntracked(m) PROVE Restarting'
  BY <1>4 DEF AbortUntracked
<1>5. ASSUME NEW m \in Messages, AskUnmapped(m) PROVE Restarting'
  BY <1>5 DEF AskUnmapped
<1>6. ASSUME NEW m \in Messages, HandlerOpened(m) PROVE Restarting'
  BY <1>6 DEF HandlerOpened
<1>7. ASSUME NEW m \in Messages, HandlerOpenFails(m) PROVE Restarting'
  BY <1>7 DEF HandlerOpenFails
<1>8. ASSUME NEW m \in Messages, AskOpened(m) PROVE Restarting'
  BY <1>8 DEF AskOpened
<1>9. ASSUME NEW m \in Messages, EnqueuePrompt(m) PROVE Restarting'
  BY <1>9 DEF EnqueuePrompt
<1>10. ASSUME NEW m \in Messages, PostAnswer(m) PROVE Restarting'
  BY <1>10 DEF PostAnswer
<1>11. ASSUME NEW m \in Messages, HandlerFails(m) PROVE Restarting'
  BY <1>11 DEF HandlerFails
<1>12. ASSUME NEW m \in Messages, OpStarts(m) PROVE Restarting'
  BY <1>12, HeadWaits DEF OpStarts
<1>13. ASSUME NEW m \in Messages, OpOpened(m) PROVE Restarting'
  BY <1>13, HeadWaits DEF OpOpened
<1>14. ASSUME NEW m \in Messages, TurnBegins(m) PROVE Restarting'
  BY <1>14, HeadWaits DEF TurnBegins
<1>15. ASSUME NEW m \in Messages, TurnEnds(m) PROVE Restarting'
  BY <1>15, HeadWaits DEF TurnEnds
<1>16. ASSUME NEW m \in Messages, PromptDone(m) PROVE Restarting'
  BY <1>16, HeadWaits DEF PromptDone
<1>17. ASSUME NEW m \in Messages, PromptFails(m) PROVE Restarting'
  BY <1>17, HeadWaits DEF PromptFails
<1>18. ASSUME NEW c \in Commands, RequestCommand(c) PROVE Restarting'
  BY <1>18 DEF RequestCommand
<1>19. ASSUME NEW c \in Commands, OpStarts(c) PROVE Restarting'
  BY <1>19 DEF OpStarts
<1>20. ASSUME NEW c \in Commands, OpOpened(c) PROVE Restarting'
  BY <1>20 DEF OpOpened
<1>21. ASSUME NEW c \in Commands, CommandBegins(c) PROVE Restarting'
  BY <1>21 DEF CommandBegins
<1>22. ASSUME NEW c \in Commands, CommandDone(c) PROVE Restarting'
  BY <1>22 DEF CommandDone
<1>23. ASSUME NEW r \in Runtimes, TimerFires(r) PROVE Restarting'
  BY <1>23 DEF TimerFires
<1>24. ASSUME ReloadFails PROVE Restarting'
  BY <1>24 DEF ReloadFails
<1>25. ASSUME Esc PROVE Restarting'
  BY <1>25 DEF Esc
<1>26. ASSUME Crash PROVE Restarting'
  BY <1>26 DEF Crash
<1>27. ASSUME RecoveryReads PROVE Restarting'
  BY <1>27 DEF RecoveryReads
<1>28. ASSUME RecoveryFails PROVE Restarting'
  BY <1>28 DEF RecoveryFails
<1>29. ASSUME RecoverAnswer PROVE Restarting'
  BY <1>29 DEF RecoverAnswer
<1>30. ASSUME Resume PROVE Restarting'
  BY <1>30 DEF Resume
<1>31. ASSUME SkipRecursiveRecovery PROVE Restarting'
  BY <1>31 DEF SkipRecursiveRecovery
<1>32. ASSUME ReconcilePlaceholder PROVE Restarting'
  BY <1>32 DEF ReconcilePlaceholder
<1>33. ASSUME UNCHANGED vars PROVE Restarting'
  BY <1>33 DEF vars
<1>34. QED
  BY <1>1, <1>2, <1>3, <1>4, <1>5, <1>6, <1>7, <1>8, <1>9, <1>10, <1>11, <1>12, <1>13, <1>14, <1>15, <1>16, <1>17, <1>18, <1>19, <1>20, <1>21, <1>22, <1>23, <1>24, <1>25, <1>26, <1>27, <1>28, <1>29, <1>30, <1>31, <1>32, <1>33 DEF Next, Handler, PromptOp, CommandOp, Startup

\* Only a prompt in the chain has its turn.
LEMMA UnaskedStep == SessionInv /\ LoneInv /\ [Next]_vars => Unasked'
<1> SUFFICES ASSUME SessionInv /\ LoneInv, [Next]_vars PROVE Unasked'
  OBVIOUS
<1> USE ConstantNames DEF SessionInv, LoneInv, TypeInv, TypeOK, Unasked, Settled, Fault, PatchThread, ScheduleDispose, DisposeThread, Unused, StartOpening, Opened, NotQueued, Steered, Running, OpOver, RecoveryOver, record, handlers, operations, sessions, transcript, startup, history, InFlight, Unbegun
<1>1. ASSUME NEW m \in Messages, Arrive(m) PROVE Unasked'
  BY <1>1 DEF Arrive
<1>2. ASSUME NEW m \in Messages, AskVisible(m) PROVE Unasked'
  BY <1>2 DEF AskVisible
<1>3. ASSUME NEW m \in Messages, AskHidden(m) PROVE Unasked'
  BY <1>3 DEF AskHidden
<1>4. ASSUME NEW m \in Messages, AbortUntracked(m) PROVE Unasked'
  BY <1>4 DEF AbortUntracked
<1>5. ASSUME NEW m \in Messages, AskUnmapped(m) PROVE Unasked'
  BY <1>5 DEF AskUnmapped
<1>6. ASSUME NEW m \in Messages, HandlerOpened(m) PROVE Unasked'
  BY <1>6 DEF HandlerOpened
<1>7. ASSUME NEW m \in Messages, HandlerOpenFails(m) PROVE Unasked'
  BY <1>7 DEF HandlerOpenFails
<1>8. ASSUME NEW m \in Messages, AskOpened(m) PROVE Unasked'
  BY <1>8 DEF AskOpened
<1>9. ASSUME NEW m \in Messages, EnqueuePrompt(m) PROVE Unasked'
  BY <1>9 DEF EnqueuePrompt
<1>10. ASSUME NEW m \in Messages, PostAnswer(m) PROVE Unasked'
  BY <1>10 DEF PostAnswer
<1>11. ASSUME NEW m \in Messages, HandlerFails(m) PROVE Unasked'
  BY <1>11 DEF HandlerFails
<1>12. ASSUME NEW m \in Messages, OpStarts(m) PROVE Unasked'
  BY <1>12, HeadWaits DEF OpStarts
<1>13. ASSUME NEW m \in Messages, OpOpened(m) PROVE Unasked'
  BY <1>13, HeadWaits DEF OpOpened
<1>14. ASSUME NEW m \in Messages, TurnBegins(m) PROVE Unasked'
  BY <1>14, HeadWaits DEF TurnBegins
<1>15. ASSUME NEW m \in Messages, TurnEnds(m) PROVE Unasked'
  BY <1>15, HeadWaits DEF TurnEnds
<1>16. ASSUME NEW m \in Messages, PromptDone(m) PROVE Unasked'
  BY <1>16, HeadWaits DEF PromptDone
<1>17. ASSUME NEW m \in Messages, PromptFails(m) PROVE Unasked'
  BY <1>17, HeadWaits DEF PromptFails
<1>18. ASSUME NEW c \in Commands, RequestCommand(c) PROVE Unasked'
  BY <1>18 DEF RequestCommand
<1>19. ASSUME NEW c \in Commands, OpStarts(c) PROVE Unasked'
  BY <1>19 DEF OpStarts
<1>20. ASSUME NEW c \in Commands, OpOpened(c) PROVE Unasked'
  BY <1>20 DEF OpOpened
<1>21. ASSUME NEW c \in Commands, CommandBegins(c) PROVE Unasked'
  BY <1>21 DEF CommandBegins
<1>22. ASSUME NEW c \in Commands, CommandDone(c) PROVE Unasked'
  BY <1>22 DEF CommandDone
<1>23. ASSUME NEW r \in Runtimes, TimerFires(r) PROVE Unasked'
  BY <1>23 DEF TimerFires
<1>24. ASSUME ReloadFails PROVE Unasked'
  BY <1>24 DEF ReloadFails
<1>25. ASSUME Esc PROVE Unasked'
  BY <1>25 DEF Esc
<1>26. ASSUME Crash PROVE Unasked'
  BY <1>26 DEF Crash
<1>27. ASSUME RecoveryReads PROVE Unasked'
  BY <1>27 DEF RecoveryReads
<1>28. ASSUME RecoveryFails PROVE Unasked'
  BY <1>28 DEF RecoveryFails
<1>29. ASSUME RecoverAnswer PROVE Unasked'
  BY <1>29 DEF RecoverAnswer
<1>30. ASSUME Resume PROVE Unasked'
  BY <1>30 DEF Resume
<1>31. ASSUME SkipRecursiveRecovery PROVE Unasked'
  BY <1>31 DEF SkipRecursiveRecovery
<1>32. ASSUME ReconcilePlaceholder PROVE Unasked'
  BY <1>32 DEF ReconcilePlaceholder
<1>33. ASSUME UNCHANGED vars PROVE Unasked'
  BY <1>33 DEF vars
<1>34. QED
  BY <1>1, <1>2, <1>3, <1>4, <1>5, <1>6, <1>7, <1>8, <1>9, <1>10, <1>11, <1>12, <1>13, <1>14, <1>15, <1>16, <1>17, <1>18, <1>19, <1>20, <1>21, <1>22, <1>23, <1>24, <1>25, <1>26, <1>27, <1>28, <1>29, <1>30, <1>31, <1>32, <1>33 DEF Next, Handler, PromptOp, CommandOp, Startup

\* A prompt becomes the active run when it is alone, or has company.
LEMMA UnrivalledStep == SessionInv /\ LoneInv /\ [Next]_vars => Unrivalled'
<1> SUFFICES ASSUME SessionInv /\ LoneInv, [Next]_vars PROVE Unrivalled'
  OBVIOUS
<1> USE ConstantNames DEF SessionInv, LoneInv, TypeInv, TypeOK, Visible, Alone, Preparing, Recovering, Restarting, Unrivalled, Settled, Fault, PatchThread, ScheduleDispose, DisposeThread, Unused, StartOpening, Opened, NotQueued, Steered, Running, OpOver, RecoveryOver, record, handlers, operations, sessions, transcript, startup, history, InFlight, Unbegun
<1>1. ASSUME NEW m \in Messages, Arrive(m) PROVE Unrivalled'
  BY <1>1 DEF Arrive
<1>2. ASSUME NEW m \in Messages, AskVisible(m) PROVE Unrivalled'
  BY <1>2 DEF AskVisible
<1>3. ASSUME NEW m \in Messages, AskHidden(m) PROVE Unrivalled'
  BY <1>3 DEF AskHidden
<1>4. ASSUME NEW m \in Messages, AbortUntracked(m) PROVE Unrivalled'
  BY <1>4 DEF AbortUntracked
<1>5. ASSUME NEW m \in Messages, AskUnmapped(m) PROVE Unrivalled'
  BY <1>5 DEF AskUnmapped
<1>6. ASSUME NEW m \in Messages, HandlerOpened(m) PROVE Unrivalled'
  BY <1>6 DEF HandlerOpened
<1>7. ASSUME NEW m \in Messages, HandlerOpenFails(m) PROVE Unrivalled'
  BY <1>7 DEF HandlerOpenFails
<1>8. ASSUME NEW m \in Messages, AskOpened(m) PROVE Unrivalled'
  BY <1>8 DEF AskOpened
<1>9. ASSUME NEW m \in Messages, EnqueuePrompt(m) PROVE Unrivalled'
  BY <1>9 DEF EnqueuePrompt
<1>10. ASSUME NEW m \in Messages, PostAnswer(m) PROVE Unrivalled'
  BY <1>10 DEF PostAnswer
<1>11. ASSUME NEW m \in Messages, HandlerFails(m) PROVE Unrivalled'
  BY <1>11 DEF HandlerFails
<1>12. ASSUME NEW m \in Messages, OpStarts(m) PROVE Unrivalled'
  BY <1>12, HeadWaits DEF OpStarts
<1>13. ASSUME NEW m \in Messages, OpOpened(m) PROVE Unrivalled'
  BY <1>13, HeadWaits DEF OpOpened
<1>14. ASSUME NEW m \in Messages, TurnBegins(m) PROVE Unrivalled'
  BY <1>14, HeadWaits DEF TurnBegins
<1>15. ASSUME NEW m \in Messages, TurnEnds(m) PROVE Unrivalled'
  BY <1>15, HeadWaits DEF TurnEnds
<1>16. ASSUME NEW m \in Messages, PromptDone(m) PROVE Unrivalled'
  BY <1>16, HeadWaits DEF PromptDone
<1>17. ASSUME NEW m \in Messages, PromptFails(m) PROVE Unrivalled'
  BY <1>17, HeadWaits DEF PromptFails
<1>18. ASSUME NEW c \in Commands, RequestCommand(c) PROVE Unrivalled'
  BY <1>18 DEF RequestCommand
<1>19. ASSUME NEW c \in Commands, OpStarts(c) PROVE Unrivalled'
  BY <1>19 DEF OpStarts
<1>20. ASSUME NEW c \in Commands, OpOpened(c) PROVE Unrivalled'
  BY <1>20 DEF OpOpened
<1>21. ASSUME NEW c \in Commands, CommandBegins(c) PROVE Unrivalled'
  BY <1>21 DEF CommandBegins
<1>22. ASSUME NEW c \in Commands, CommandDone(c) PROVE Unrivalled'
  BY <1>22 DEF CommandDone
<1>23. ASSUME NEW r \in Runtimes, TimerFires(r) PROVE Unrivalled'
  BY <1>23 DEF TimerFires
<1>24. ASSUME ReloadFails PROVE Unrivalled'
  BY <1>24 DEF ReloadFails
<1>25. ASSUME Esc PROVE Unrivalled'
  BY <1>25 DEF Esc
<1>26. ASSUME Crash PROVE Unrivalled'
  BY <1>26 DEF Crash
<1>27. ASSUME RecoveryReads PROVE Unrivalled'
  BY <1>27 DEF RecoveryReads
<1>28. ASSUME RecoveryFails PROVE Unrivalled'
  BY <1>28 DEF RecoveryFails
<1>29. ASSUME RecoverAnswer PROVE Unrivalled'
  BY <1>29 DEF RecoverAnswer
<1>30. ASSUME Resume PROVE Unrivalled'
  BY <1>30 DEF Resume
<1>31. ASSUME SkipRecursiveRecovery PROVE Unrivalled'
  BY <1>31 DEF SkipRecursiveRecovery
<1>32. ASSUME ReconcilePlaceholder PROVE Unrivalled'
  BY <1>32 DEF ReconcilePlaceholder
<1>33. ASSUME UNCHANGED vars PROVE Unrivalled'
  BY <1>33 DEF vars
<1>34. QED
  BY <1>1, <1>2, <1>3, <1>4, <1>5, <1>6, <1>7, <1>8, <1>9, <1>10, <1>11, <1>12, <1>13, <1>14, <1>15, <1>16, <1>17, <1>18, <1>19, <1>20, <1>21, <1>22, <1>23, <1>24, <1>25, <1>26, <1>27, <1>28, <1>29, <1>30, <1>31, <1>32, <1>33 DEF Next, Handler, PromptOp, CommandOp, Startup

\* Only the turn of the active run writes to the session file while it has the
\* thread to itself.
LEMMA TranscribedStep == SessionInv /\ LoneInv /\ [Next]_vars => Transcribed'
<1> SUFFICES ASSUME SessionInv /\ LoneInv, [Next]_vars PROVE Transcribed'
  OBVIOUS
<1> USE ConstantNames DEF SessionInv, LoneInv, TypeInv, TypeOK, Visible, Alone, Preparing, Recovering, Restarting, Unasked, Unrivalled, Transcribed, Settled, Fault, PatchThread, ScheduleDispose, DisposeThread, Unused, StartOpening, Opened, NotQueued, Steered, Running, OpOver, RecoveryOver, record, handlers, operations, sessions, transcript, startup, history, InFlight, Unbegun
<1>1. ASSUME NEW m \in Messages, Arrive(m) PROVE Transcribed'
  BY <1>1 DEF Arrive
<1>2. ASSUME NEW m \in Messages, AskVisible(m) PROVE Transcribed'
  BY <1>2 DEF AskVisible
<1>3. ASSUME NEW m \in Messages, AskHidden(m) PROVE Transcribed'
  BY <1>3 DEF AskHidden
<1>4. ASSUME NEW m \in Messages, AbortUntracked(m) PROVE Transcribed'
  BY <1>4 DEF AbortUntracked
<1>5. ASSUME NEW m \in Messages, AskUnmapped(m) PROVE Transcribed'
  BY <1>5 DEF AskUnmapped
<1>6. ASSUME NEW m \in Messages, HandlerOpened(m) PROVE Transcribed'
  BY <1>6 DEF HandlerOpened
<1>7. ASSUME NEW m \in Messages, HandlerOpenFails(m) PROVE Transcribed'
  BY <1>7 DEF HandlerOpenFails
<1>8. ASSUME NEW m \in Messages, AskOpened(m) PROVE Transcribed'
  BY <1>8 DEF AskOpened
<1>9. ASSUME NEW m \in Messages, EnqueuePrompt(m) PROVE Transcribed'
  BY <1>9 DEF EnqueuePrompt
<1>10. ASSUME NEW m \in Messages, PostAnswer(m) PROVE Transcribed'
  BY <1>10 DEF PostAnswer
<1>11. ASSUME NEW m \in Messages, HandlerFails(m) PROVE Transcribed'
  BY <1>11 DEF HandlerFails
<1>12. ASSUME NEW m \in Messages, OpStarts(m) PROVE Transcribed'
  BY <1>12, HeadWaits DEF OpStarts
<1>13. ASSUME NEW m \in Messages, OpOpened(m) PROVE Transcribed'
  BY <1>13, HeadWaits DEF OpOpened
<1>14. ASSUME NEW m \in Messages, TurnBegins(m) PROVE Transcribed'
  BY <1>14, HeadWaits DEF TurnBegins
<1>15. ASSUME NEW m \in Messages, TurnEnds(m) PROVE Transcribed'
  BY <1>15, HeadWaits DEF TurnEnds
<1>16. ASSUME NEW m \in Messages, PromptDone(m) PROVE Transcribed'
  BY <1>16, HeadWaits DEF PromptDone
<1>17. ASSUME NEW m \in Messages, PromptFails(m) PROVE Transcribed'
  BY <1>17, HeadWaits DEF PromptFails
<1>18. ASSUME NEW c \in Commands, RequestCommand(c) PROVE Transcribed'
  BY <1>18 DEF RequestCommand
<1>19. ASSUME NEW c \in Commands, OpStarts(c) PROVE Transcribed'
  BY <1>19 DEF OpStarts
<1>20. ASSUME NEW c \in Commands, OpOpened(c) PROVE Transcribed'
  BY <1>20 DEF OpOpened
<1>21. ASSUME NEW c \in Commands, CommandBegins(c) PROVE Transcribed'
  BY <1>21 DEF CommandBegins
<1>22. ASSUME NEW c \in Commands, CommandDone(c) PROVE Transcribed'
  BY <1>22 DEF CommandDone
<1>23. ASSUME NEW r \in Runtimes, TimerFires(r) PROVE Transcribed'
  BY <1>23 DEF TimerFires
<1>24. ASSUME ReloadFails PROVE Transcribed'
  BY <1>24 DEF ReloadFails
<1>25. ASSUME Esc PROVE Transcribed'
  BY <1>25 DEF Esc
<1>26. ASSUME Crash PROVE Transcribed'
  BY <1>26 DEF Crash
<1>27. ASSUME RecoveryReads PROVE Transcribed'
  BY <1>27 DEF RecoveryReads
<1>28. ASSUME RecoveryFails PROVE Transcribed'
  BY <1>28 DEF RecoveryFails
<1>29. ASSUME RecoverAnswer PROVE Transcribed'
  BY <1>29 DEF RecoverAnswer
<1>30. ASSUME Resume PROVE Transcribed'
  BY <1>30 DEF Resume
<1>31. ASSUME SkipRecursiveRecovery PROVE Transcribed'
  BY <1>31 DEF SkipRecursiveRecovery
<1>32. ASSUME ReconcilePlaceholder PROVE Transcribed'
  BY <1>32 DEF ReconcilePlaceholder
<1>33. ASSUME UNCHANGED vars PROVE Transcribed'
  BY <1>33 DEF vars
<1>34. QED
  BY <1>1, <1>2, <1>3, <1>4, <1>5, <1>6, <1>7, <1>8, <1>9, <1>10, <1>11, <1>12, <1>13, <1>14, <1>15, <1>16, <1>17, <1>18, <1>19, <1>20, <1>21, <1>22, <1>23, <1>24, <1>25, <1>26, <1>27, <1>28, <1>29, <1>30, <1>31, <1>32, <1>33 DEF Next, Handler, PromptOp, CommandOp, Startup

-----------------------------------------------------------------------------
\* The first start and the restart of a restarted bot satisfy the invariant.
LEMMA SessionInit == Init => SessionInv
<1> USE ConstantNames DEF Init, FirstStart, SecondRestart, Settled
<1>1. Init => TypeInv
  <2> SUFFICES ASSUME Init PROVE TypeInv
    OBVIOUS
  <2>1. RecordOK /\ RestOK
    <3>1. CASE FirstStart
      <4>1. /\ status = "idle" /\ activeRun = None /\ wrapped = {}
            /\ recovery = "none" /\ open = FALSE
        BY <3>1
      <4>2. answer = None /\ found = None /\ faults = 0
        OBVIOUS
      <4>3. RecordOK
        BY <4>1 DEF RecordOK
      <4>4. wrapped \subseteq Messages /\ recovery \in {"none", "resume", "reconcile"}
        BY <4>1
      <4>5. open \in BOOLEAN
        BY <4>1
      <4>6. answer \in Messages \cup {None} /\ found \in Messages \cup {None}
        BY <4>2
      <4>7. faults \in 0..MaxFaults
        BY <4>2
      <4> QED
        BY <4>3, <4>4, <4>5, <4>6, <4>7 DEF RestOK
    <3>2. CASE SecondRestart
      <4>1. PICK m \in Messages :
              /\ status = "interrupted" /\ activeRun = m /\ wrapped = {m}
              /\ recovery \in {"resume", "reconcile"} /\ open = TRUE
        BY <3>2 DEF SecondRestart
      <4> QED
        BY <4>1 DEF RecordOK, RestOK
    <3> QED
      BY <3>1, <3>2 DEF Init
  <2>2. HandlersOK
    BY DEF HandlersOK
  <2>3. ChainOK /\ SessionsOK
    BY DEF ChainOK, SessionsOK
  <2>4. Openers
    BY DEF Openers
  <2> QED
    BY <2>1, <2>2, <2>3, <2>4, TypeParts DEF TypeInv
<1>2. Init => Streaming /\ Racing /\ Reaching /\ Chained /\ Recovering /\ Accounted
  BY DEF Streaming, Racing, NoOrphanRuntime, Reaching, Chained, Recovering, Accounted
<1> QED
  BY <1>1, <1>2 DEF SessionInv

\* The invariant holds of every reachable state.
LEMMA SessionInvariant == Spec => []SessionInv
<1>1. SessionInv /\ [Next]_vars => SessionInv'
  BY TypeStep, StreamingStep, RacingStep, ReachingStep, ChainedStep, RecoveringStep, AccountedStep DEF SessionInv
<1> QED
  BY <1>1, SessionInit, PTL DEF Spec

\* Nothing is under way at a start, and the run a second restart finds was not alone.
LEMMA LoneInit == Init => LoneInv
  BY ConstantNames DEF Init, FirstStart, SecondRestart, Settled, LoneInv, Operating, Alone, Preparing,
     First, Tracked, Restarting, Unasked, Unrivalled, Transcribed, Running, InFlight

\* Both invariants hold of every reachable state.
LEMMA LoneInvariant == Spec => [](SessionInv /\ LoneInv)
<1>1. SessionInv /\ LoneInv /\ [Next]_vars => LoneInv'
  BY OperatingStep, AloneStep, FirstStep, TrackedStep, RestartingStep, UnaskedStep,
     UnrivalledStep, TranscribedStep DEF LoneInv
<1> QED
  BY <1>1, LoneInit, SessionInvariant, PTL DEF Spec

\* Records, handlers, the chain and the runtimes keep their types, a record that
\* has an active run says running or interrupted, and the mapped runtime is not
\* disposed (patchThread, disposeThread).
THEOREM TypeCorrect == Spec => []TypeOK
<1>1. SessionInv => TypeOK
  BY DEF SessionInv, TypeInv
<1> QED
  BY <1>1, SessionInvariant, PTL

\* The chain of operations gives a thread one turn at a time, however many
\* runtimes were opened over its session file, whatever handlers aborted and
\* whenever timers fired (enqueueOperation).
THEOREM OneTurnAtATime == Spec => []OneTurn
<1>1. ASSUME SessionInv PROVE OneTurn
  <2> DEFINE S == {r \in Runtimes : streaming[r] # None}
  <2>1. S \subseteq {opRt}
    BY <1>1 DEF SessionInv, Streaming
  <2>2. S = {} \/ S = {opRt}
    BY <2>1
  <2>3. Cardinality(S) <= 1
    BY <2>2, FS_EmptySet, FS_Singleton
  <2> QED
    BY <2>3 DEF OneTurn
<1> QED
  BY <1>1, SessionInvariant, PTL

\* A turn under way is on the mapped runtime, where steering and ESC look for it,
\* unless a timer fired during it or two sessions were being opened at once
\* (scheduleDispose, getOrCreateRuntime).
THEOREM TurnsAreReachable == Spec => []TurnIsReachable
<1>1. SessionInv => TurnIsReachable
  BY DEF SessionInv, Streaming, Reaching, TurnIsReachable
<1> QED
  BY <1>1, SessionInvariant, PTL

\* A runtime that is not mapped is disposed, unless two sessions were being
\* opened at once (getOrCreateRuntime, disposeThread).
THEOREM NoRuntimeIsOrphaned == Spec => []NoOrphanRuntime
<1>1. SessionInv => NoOrphanRuntime
  BY DEF SessionInv, Racing
<1> QED
  BY <1>1, SessionInvariant, PTL

\* When no handler and no operation is under way the record does not say running,
\* so the next message is not taken for input of a turn that is not there, unless a
\* reload failed (prompt, reload, runPromptWithPlaceholder).
THEOREM QuietThreadsAreIdle == Spec => []QuietThreadIsIdle
<1>1. SessionInv => QuietThreadIsIdle
  BY DEF SessionInv, TypeInv, TypeOK, Accounted, QuietThreadIsIdle, Quiet, InFlight, Settled
<1> QED
  BY <1>1, SessionInvariant, PTL

\* No later message aborts the turn of a prompt that had the thread to itself until
\* the turn began, with no earlier message's answer still being posted: the record
\* the message read shows the run, so the message steers it
\* (queueMessageForThreadIfActive, abortUntrackedRuntime).
THEOREM LoneTurnsStand == Spec => LoneTurnIsSafe
<1>1. ASSUME SessionInv, LoneInv, NEW m \in Messages, AbortUntracked(m)
      PROVE  streaming[mapped] \in crowd
  <2> DEFINE p == streaming[mapped]
  <2>1. pc[m] = "asking" /\ ~ seen[m] /\ mapped \in Runtimes /\ p \in Messages /\ p # None
    BY <1>1 DEF AbortUntracked, SessionInv, TypeInv, TypeOK
  <2>2. at = "turn" /\ mapped = opRt /\ Running(p)
    BY <1>1, <2>1 DEF SessionInv, Streaming, Running
  <2>3. pc[p] = "waiting"
    BY <1>1, <2>1, <2>2, HeadWaits DEF SessionInv
  <2>4. m \in InFlight \ {p}
    BY <2>1, <2>3 DEF InFlight, Settled
  <2> QED
    BY <1>1, <2>1, <2>2, <2>4 DEF LoneInv, Tracked
<1>2. SessionInv /\ LoneInv =>
        [\A m \in Messages : AbortUntracked(m) => streaming[mapped] \in crowd]_vars
  BY <1>1
<1> QED
  BY <1>2, LoneInvariant, PTL DEF LoneTurnIsSafe

\* The answer that the recovery posts for an interrupted prompt whose turn had begun
\* is the answer to that prompt, if it had the thread to itself
\* (getPersistedFinalAssistant, sendRecoveredFinalResponse).
THEOREM RecoveredAnswersMatch == Spec => RecoveredAnswerIsItsOwn
<1>1. ASSUME SessionInv, LoneInv, RecoverAnswer
      PROVE  answer = found \/ found \notin began \/ found \in crowd
  <2>1. found \in Messages /\ ~ open
    BY <1>1, ConstantNames DEF RecoverAnswer, FinalLeaf, SessionInv, TypeInv, TypeOK
  <2> QED
    BY <1>1, <2>1 DEF LoneInv, Transcribed
<1>2. SessionInv /\ LoneInv =>
        [RecoverAnswer => answer = found \/ found \notin began \/ found \in crowd]_vars
  BY <1>1
<1> QED
  BY <1>2, LoneInvariant, PTL DEF RecoveredAnswerIsItsOwn

===============================================================================
