--------------------------- MODULE RunThreadProofs ---------------------------
(***************************************************************************)
(* What a lane does with the inputs of its run: the type invariant of      *)
(* RunThread, and that a turn hears an input once and only those of its    *)
(* own run, for any number of messages, lanes, pages, attempts and faults. *)
(***************************************************************************)
EXTENDS RunThread, SequenceTheorems, TLAPS

-----------------------------------------------------------------------------
(***************************************************************************)
(* The invariant, in parts.                                                *)
(***************************************************************************)

\* TypeOK in parts, next to the store's.
BotTypes ==
  /\ msg \in [Runs -> Handling \cup Handled]
  /\ target \in [Runs -> Runs \cup {None}]
  /\ inputs \in Seq(Runs) /\ IsInjective(inputs)

LaneRecord == [at : LaneStates, run : Runs \cup {None}, last : Nat, pending : SUBSET Pending]
DrainRecord == [own : BOOLEAN, last : Nat, due : SUBSET Pending, kept : SUBSET Pending]

LaneTypes ==
  /\ lane \in [Workers -> LaneRecord]
  /\ drain \in [Workers -> DrainRecord]
  /\ \A l \in Workers :
       /\ (lane[l].at = "idle") <=> (lane[l].run = None)
       /\ lane[l].last <= Len(inputs)

ChainTypes ==
  /\ waiting \in Seq(Workers) /\ IsInjective(waiting)
  /\ turn \in [run : Runs \cup {None}, lane : Workers \cup {None}, live : BOOLEAN,
              heard : SUBSET Runs]

LoopTypes ==
  /\ registry \in {"idle", "queued", "running", "interrupted", "error"}
  /\ snapshot \in {None} \cup [shows : {"absent", "queued", "running"}, settled : {None}]
                         \cup [shows : {"settled"}, settled : Runs]
  /\ faults \in 0..MaxFaults

\* What a lane has read of the stream: the messages up to its cursor.
Upto(n) == {inputs[i] : i \in 1..n}
Cursor(l) == IF drain[l].own THEN drain[l].last ELSE lane[l].last

\* What a lane still has to apply.
Remaining(l) == IF drain[l].own THEN drain[l].due \cup drain[l].kept ELSE lane[l].pending

\* Only a machine that drains or executes waits for a drain, and before it
\* executes none of an earlier run is left.
Drains ==
  \A l \in Workers :
    /\ drain[l].own => /\ lane[l].at \in {"draining", "executing"}
                       /\ drain[l].due \cap drain[l].kept = {}
                       /\ lane[l].last <= drain[l].last
                       /\ drain[l].last <= Len(inputs)
    /\ lane[l].at = "starting" => drain[l] = NoDrain
    /\ lane[l].at = "executing" => drain[l].own \/ drain[l] = NoDrain

\* The lanes of the chain and the lane of the turn execute, and the turn's lane
\* has left the chain.
Chained ==
  /\ \A l \in ToSet(waiting) : lane[l].at = "executing"
  /\ turn # NoTurn => turn.run \in Runs /\ turn.lane \in Workers
  /\ turn.live => /\ turn # NoTurn
                  /\ lane[turn.lane].at = "executing"
                  /\ lane[turn.lane].run = turn.run
                  /\ turn.lane \notin ToSet(waiting)

\* A message of the stream is no longer with its handler.
Streamed == \A m \in ToSet(inputs) : msg[m] \in {"input", "heard", "unapplied"}

\* A lane applies inputs of its own run that are behind its cursor, each once.
OwnInputs(pending, last, r) ==
  /\ \A p \in pending : p.msg \in Upto(last) /\ target[p.msg] = r
  /\ \A p, q \in pending : p.msg = q.msg => p = q

Own ==
  \A l \in Workers :
    /\ OwnInputs(lane[l].pending, lane[l].last, lane[l].run)
    /\ drain[l].own => OwnInputs(drain[l].due \cup drain[l].kept, drain[l].last, lane[l].run)

\* The turn has heard nothing that its lane still has to read or to apply.
HeardIsBehind ==
  turn.live => /\ turn.heard \subseteq Upto(Cursor(turn.lane))
               /\ \A p \in Remaining(turn.lane) : p.msg \notin turn.heard

ThreadInv == TypeOK /\ Drains /\ Chained /\ Streamed /\ Own /\ HeardIsBehind

-----------------------------------------------------------------------------
(***************************************************************************)
(* The chain of operations, a sequence of lanes without repetition.        *)
(***************************************************************************)

\* A sequence without the element at place k: what follows moves up.
LEMMA RemoveAtElements ==
  ASSUME NEW S, NEW s \in Seq(S), NEW k \in 1..Len(s)
  PROVE  /\ RemoveAt(s, k) \in Seq(S)
         /\ Len(RemoveAt(s, k)) = Len(s) - 1
         /\ \A i \in 1..(Len(s) - 1) : RemoveAt(s, k)[i] = IF i < k THEN s[i] ELSE s[i + 1]
<1> DEFINE a == SubSeq(s, 1, k - 1)
           b == SubSeq(s, k + 1, Len(s))
<1>1. Len(s) \in Nat /\ \A i \in 1..Len(s) : s[i] \in S
  BY LenProperties, ElementOfSeq
<1>2. /\ a \in Seq(S) /\ Len(a) = k - 1
      /\ \A i \in 1..(k - 1) : a[i] = s[i]
  <2>1. k - 1 \in Int /\ \A i \in 1..(k - 1) : s[i] \in S
    BY <1>1
  <2>2. /\ SubSeq(s, 1, k - 1) \in Seq(S)
        /\ Len(SubSeq(s, 1, k - 1)) = IF 1 <= k - 1 THEN k - 1 - 1 + 1 ELSE 0
        /\ \A i \in 1..(k - 1 - 1 + 1) : SubSeq(s, 1, k - 1)[i] = s[1 + i - 1]
    BY <2>1, SubSeqProperties
  <2> QED
    BY <1>1, <2>2 DEF a
<1>3. /\ b \in Seq(S) /\ Len(b) = Len(s) - k
      /\ \A i \in 1..(Len(s) - k) : b[i] = s[k + i]
  <2>1. k + 1 \in Int /\ Len(s) \in Int /\ \A i \in (k + 1)..Len(s) : s[i] \in S
    BY <1>1
  <2>2. /\ SubSeq(s, k + 1, Len(s)) \in Seq(S)
        /\ Len(SubSeq(s, k + 1, Len(s))) = IF k + 1 <= Len(s) THEN Len(s) - (k + 1) + 1 ELSE 0
        /\ \A i \in 1..(Len(s) - (k + 1) + 1) : SubSeq(s, k + 1, Len(s))[i] = s[k + 1 + i - 1]
    BY <2>1, SubSeqProperties
  <2> QED
    BY <1>1, <2>2 DEF b
<1> HIDE DEF a, b
<1> DEFINE c == a \o b
<1>4. /\ c \in Seq(S)
      /\ Len(c) = Len(a) + Len(b)
      /\ \A i \in 1..(Len(a) + Len(b)) : c[i] = IF i <= Len(a) THEN a[i] ELSE b[i - Len(a)]
  BY <1>2, <1>3, ConcatProperties
<1>5. RemoveAt(s, k) = c
  BY DEF RemoveAt, a, b
<1> HIDE DEF c
<1>6. ASSUME NEW i \in 1..(Len(s) - 1), i < k
      PROVE  c[i] = s[i]
  <2>1. i \in 1..(Len(a) + Len(b)) /\ i <= Len(a) /\ i \in 1..(k - 1)
    BY <1>1, <1>2, <1>3, <1>6
  <2> QED
    BY <1>2, <1>4, <2>1
<1>7. ASSUME NEW i \in 1..(Len(s) - 1), ~(i < k)
      PROVE  c[i] = s[i + 1]
  <2>1. i \in 1..(Len(a) + Len(b)) /\ ~(i <= Len(a)) /\ i - Len(a) \in 1..(Len(s) - k)
    BY <1>1, <1>2, <1>3, <1>7
  <2>2. c[i] = s[k + (i - Len(a))]
    BY <1>3, <1>4, <2>1
  <2>3. k + (i - Len(a)) = i + 1
    BY <1>1, <1>2
  <2> QED
    BY <2>2, <2>3
<1>8. \A i \in 1..(Len(s) - 1) : c[i] = IF i < k THEN s[i] ELSE s[i + 1]
  BY <1>6, <1>7
<1>9. Len(c) = Len(s) - 1
  BY <1>1, <1>2, <1>3, <1>4
<1> QED
  BY <1>4, <1>5, <1>8, <1>9

\* RemoveFirst takes a lane out of the chain, and nothing else.
LEMMA LeavesTheChain ==
  ASSUME NEW S, NEW s \in Seq(S), IsInjective(s), NEW e
  PROVE  /\ RemoveFirst(s, e) \in Seq(S) /\ IsInjective(RemoveFirst(s, e))
         /\ ToSet(RemoveFirst(s, e)) \subseteq ToSet(s) \ {e}
<1>1. Len(s) \in Nat /\ DOMAIN s = 1..Len(s)
  BY LenProperties
<1>2. CASE ~\E i \in 1..Len(s) : s[i] = e
  BY <1>1, <1>2 DEF RemoveFirst, ToSet
<1>3. CASE \E i \in 1..Len(s) : s[i] = e
  <2> DEFINE I == {i \in 1..Len(s) : s[i] = e}
  <2>1. PICK k \in 1..Len(s) : s[k] = e
    BY <1>3
  <2>2. I = {k}
    BY <1>1, <2>1 DEF IsInjective
  <2>3. SelectInSeq(s, LAMBDA v : v = e) = k
    <3>1. Min({k}) = k
      BY DEF Min
    <3> QED
      BY <2>2, <3>1 DEF SelectInSeq
  <2>4. RemoveFirst(s, e) = RemoveAt(s, k)
    BY <1>3, <2>3 DEF RemoveFirst
  <2> DEFINE r == RemoveAt(s, k)
  <2>5. /\ r \in Seq(S) /\ Len(r) = Len(s) - 1
        /\ \A i \in 1..(Len(s) - 1) : r[i] = IF i < k THEN s[i] ELSE s[i + 1]
    BY RemoveAtElements
  <2>6. DOMAIN r = 1..(Len(s) - 1)
    BY <2>5, LenProperties
  <2> HIDE DEF r
  <2>7. IsInjective(r)
    <3>1. SUFFICES ASSUME NEW i \in DOMAIN r, NEW j \in DOMAIN r, r[i] = r[j] PROVE i = j
      BY DEF IsInjective
    <3> DEFINE up(n) == IF n < k THEN n ELSE n + 1
    <3>2. up(i) \in DOMAIN s /\ up(j) \in DOMAIN s /\ r[i] = s[up(i)] /\ r[j] = s[up(j)]
      BY <1>1, <2>5, <2>6
    <3>3. up(i) = up(j)
      BY <3>1, <3>2 DEF IsInjective
    <3> QED
      BY <1>1, <2>6, <3>3
  <2>8. ASSUME NEW i \in DOMAIN r PROVE r[i] \in ToSet(s) \ {e}
    <3>1. PICK j \in 1..Len(s) : j # k /\ r[i] = s[j]
      BY <1>1, <2>5, <2>6
    <3> QED
      BY <1>1, <2>1, <3>1 DEF IsInjective, ToSet
  <2> QED
    BY <2>4, <2>5, <2>7, <2>8 DEF r, ToSet
<1> QED
  BY <1>2, <1>3

\* A lane joins the chain at its end.
LEMMA JoinsTheChain ==
  ASSUME NEW S, NEW s \in Seq(S), IsInjective(s), NEW e \in S, e \notin ToSet(s)
  PROVE  /\ Append(s, e) \in Seq(S) /\ IsInjective(Append(s, e))
         /\ ToSet(Append(s, e)) = ToSet(s) \cup {e}
<1>1. Len(s) \in Nat /\ DOMAIN s = 1..Len(s)
  BY LenProperties
<1> DEFINE t == Append(s, e)
<1>2. /\ t \in Seq(S) /\ Len(t) = Len(s) + 1
      /\ \A i \in 1..Len(s) : t[i] = s[i]
      /\ t[Len(s) + 1] = e
  BY AppendProperties
<1>3. DOMAIN t = 1..(Len(s) + 1)
  BY <1>2, LenProperties
<1> HIDE DEF t
<1>4. \A i \in DOMAIN t : i \in DOMAIN s \/ i = Len(s) + 1
  BY <1>1, <1>3
<1>5. IsInjective(t)
  BY <1>1, <1>2, <1>4 DEF IsInjective, ToSet
<1>6. ToSet(t) = ToSet(s) \cup {e}
  BY <1>1, <1>2, <1>3, <1>4 DEF ToSet
<1> QED
  BY <1>2, <1>5, <1>6 DEF t

\* The lane whose turn begins leaves the chain at its head.
LEMMA HeadOfTheChain ==
  ASSUME NEW S, NEW s \in Seq(S), IsInjective(s), s # <<>>
  PROVE  /\ Head(s) \in S /\ Head(s) \in ToSet(s)
         /\ Tail(s) \in Seq(S) /\ IsInjective(Tail(s))
         /\ ToSet(Tail(s)) \subseteq ToSet(s) \ {Head(s)}
<1>1. Len(s) \in Nat \ {0} /\ DOMAIN s = 1..Len(s)
  BY LenProperties, EmptySeq
<1> DEFINE t == Tail(s)
<1>2. /\ t \in Seq(S) /\ Len(t) = Len(s) - 1 /\ Head(s) \in S
      /\ \A i \in 1..Len(t) : t[i] = s[i + 1]
  BY HeadTailProperties
<1>3. DOMAIN t = 1..(Len(s) - 1)
  BY <1>2, LenProperties
<1>4. Head(s) = s[1]
  OBVIOUS
<1> HIDE DEF t
<1>5. \A i \in DOMAIN t : i + 1 \in DOMAIN s /\ i + 1 # 1 /\ t[i] = s[i + 1]
  BY <1>1, <1>2, <1>3
<1>6. IsInjective(t)
  BY <1>1, <1>3, <1>5 DEF IsInjective
<1>7. \A i \in DOMAIN t : t[i] \in ToSet(s) \ {Head(s)}
  BY <1>1, <1>4, <1>5 DEF IsInjective, ToSet
<1>8. Head(s) \in ToSet(s)
  BY <1>1, <1>4 DEF ToSet
<1> QED
  BY <1>2, <1>6, <1>7, <1>8 DEF t, ToSet

-----------------------------------------------------------------------------
(***************************************************************************)
(* The store, the lanes' runs and the page that a drain reads.             *)
(***************************************************************************)

\* The commands of the store keep its types.
LEMMA StoreCommands ==
  ASSUME StoreTypeOK, NEW r \in Runs,
         \/ AtomicEnqueueRun(r) \/ ClearActiveIfMatches(r) \/ AcknowledgeJob(r)
         \/ WriteFinalizing(r, "text") \/ WriteTerminal(r, "succeeded")
         \/ WriteTerminal(r, "failed") \/ ExpireLease(r)
  PROVE  StoreTypeOK'
<1> USE StoreAssumption DEF StoreTypeOK, Live, Terminal, Answer
<1>1. ASSUME AtomicEnqueueRun(r) PROVE StoreTypeOK'
  BY <1>1 DEF AtomicEnqueueRun
<1>2. ASSUME ClearActiveIfMatches(r) PROVE StoreTypeOK'
  BY <1>2 DEF ClearActiveIfMatches
<1>3. ASSUME AcknowledgeJob(r) PROVE StoreTypeOK'
  BY <1>3 DEF AcknowledgeJob
<1>4. ASSUME WriteFinalizing(r, "text") PROVE StoreTypeOK'
  BY <1>4 DEF WriteFinalizing
<1>5. ASSUME NEW outcome \in {"succeeded", "failed"}, WriteTerminal(r, outcome) PROVE StoreTypeOK'
  BY <1>5 DEF WriteTerminal
<1>6. ASSUME ExpireLease(r) PROVE StoreTypeOK'
  BY <1>6 DEF ExpireLease
<1> QED
  BY <1>1, <1>2, <1>3, <1>4, <1>5, <1>6

\* A step that leaves the store alone keeps them too.
LEMMA StoreStands == ASSUME StoreTypeOK, UNCHANGED storeVars PROVE StoreTypeOK'
  BY DEF StoreTypeOK, storeVars

\* A lane that is not idle has a run, and the thread's pointer is a run.
LEMMA RunFacts ==
  ASSUME TypeOK
  PROVE  /\ Thread \in Threads /\ \A r \in Runs : ThreadOf[r] = Thread
         /\ Pointer \in Runs \cup {None}
         /\ \A l \in Workers : lane[l].run \in Runs \cup {None}
         /\ \A l \in Workers : lane[l].at # "idle" => lane[l].run \in Runs
         /\ None \notin Runs /\ None \notin Workers
<1>1. /\ Thread \in Threads /\ \A r \in Runs : ThreadOf[r] = Thread
      /\ None \notin Runs /\ None \notin Workers
  BY StoreAssumption, RunThreadAssumption
<1>2. Pointer \in Runs \cup {None}
  BY <1>1 DEF TypeOK, StoreTypeOK, Pointer
<1>3. \A l \in Workers : lane[l].run \in Runs \cup {None}
  BY DEF TypeOK
<1> QED
  BY <1>1, <1>2, <1>3 DEF TypeOK

\* A page begins behind the cursor and ends within the stream.
LEMMA PageProperties ==
  ASSUME TypeOK, NEW l \in Workers
  PROVE  /\ PageEnd(l) \in Nat /\ lane[l].last \in Nat /\ Len(inputs) \in Nat
         /\ lane[l].last <= PageEnd(l) /\ PageEnd(l) <= Len(inputs)
         /\ Page(l) = {inputs[i] : i \in (lane[l].last + 1)..PageEnd(l)}
         /\ Page(l) \subseteq Runs /\ Mine(l) \subseteq Page(l)
<1>1. lane[l].last \in Nat /\ lane[l].last <= Len(inputs)
  BY DEF TypeOK
<1>2. Len(inputs) \in Nat /\ inputs \in [1..Len(inputs) -> Runs]
  BY LenProperties DEF TypeOK
<1>3. Batch \in Nat
  BY RunThreadAssumption
<1>4. \A a, b \in Nat : Min({a, b}) \in {a, b} /\ Min({a, b}) <= a /\ Min({a, b}) <= b
  <2>1. SUFFICES ASSUME NEW a \in Nat, NEW b \in Nat
                 PROVE  Min({a, b}) \in {a, b} /\ Min({a, b}) <= a /\ Min({a, b}) <= b
    OBVIOUS
  <2>2. \E x \in {a, b} : \A y \in {a, b} : x <= y
    OBVIOUS
  <2> QED
    BY <2>2 DEF Min
<1>5. PageEnd(l) \in {Len(inputs), lane[l].last + Batch} /\ PageEnd(l) <= Len(inputs)
  <2>1. Len(inputs) \in Nat /\ lane[l].last + Batch \in Nat
    BY <1>1, <1>2, <1>3
  <2> QED
    BY <1>4, <2>1, Zenon DEF PageEnd
<1>6. PageEnd(l) \in Nat /\ lane[l].last <= PageEnd(l)
  BY <1>1, <1>2, <1>3, <1>5
<1>7. Page(l) = {inputs[i] : i \in (lane[l].last + 1)..PageEnd(l)}
  BY DEF Page, PageEnd
<1>8. Page(l) \subseteq Runs
  BY <1>1, <1>2, <1>5, <1>6, <1>7
<1> QED
  BY <1>1, <1>2, <1>5, <1>6, <1>7, <1>8 DEF Mine

-----------------------------------------------------------------------------
\* No message of a page is behind the cursor.
LEMMA PageIsAhead ==
  ASSUME TypeOK, NEW l \in Workers, NEW m \in Mine(l)
  PROVE  m \notin Upto(lane[l].last) /\ m \in Upto(PageEnd(l)) /\ target[m] = lane[l].run
<1>1. PICK i \in (lane[l].last + 1)..PageEnd(l) : m = inputs[i]
  BY PageProperties
<1>2. /\ PageEnd(l) \in Nat /\ lane[l].last \in Nat /\ Len(inputs) \in Nat
      /\ PageEnd(l) <= Len(inputs)
  BY PageProperties
<1>3. DOMAIN inputs = 1..Len(inputs)
  BY LenProperties DEF TypeOK
<1>4. \A j \in 1..lane[l].last : inputs[j] # m
  BY <1>1, <1>2, <1>3 DEF TypeOK, IsInjective
<1> QED
  BY <1>1, <1>2, <1>4 DEF Upto, Mine

\* The types are the types of the parts.
LEMMA TypeParts ==
  TypeOK <=> StoreTypeOK /\ BotTypes /\ LaneTypes /\ ChainTypes /\ LoopTypes
  BY DEF TypeOK, BotTypes, LaneTypes, LaneRecord, DrainRecord, ChainTypes, LoopTypes

\* A lane goes on to another state, or to its next input.
LEMMA LaneGoesOn ==
  ASSUME TypeOK, NEW l \in Workers, lane[l].at # "idle", NEW at \in LaneStates \ {"idle"},
         NEW last \in Nat, last <= Len(inputs), NEW pending \in SUBSET Pending,
         \/ lane' = [lane EXCEPT ![l].at = at]
         \/ lane' = [lane EXCEPT ![l].at = at, ![l].last = last, ![l].pending = pending],
         inputs' = inputs, drain' \in [Workers -> DrainRecord]
  PROVE  LaneTypes'
<1> USE TypeParts
<1>1. lane \in [Workers -> LaneRecord] /\ lane[l] \in LaneRecord
  BY DEF LaneTypes
<1>2. /\ [lane[l] EXCEPT !.at = at] \in LaneRecord
      /\ [lane[l] EXCEPT !.at = at, !.last = last, !.pending = pending] \in LaneRecord
  BY <1>1 DEF LaneRecord
<1>3. /\ lane' \in [Workers -> LaneRecord]
      /\ lane'[l].at = at /\ lane'[l].run = lane[l].run
      /\ lane'[l].last \in {lane[l].last, last}
      /\ \A k \in Workers \ {l} : lane'[k] = lane[k]
  <2> DEFINE moved == [lane[l] EXCEPT !.at = at]
             read == [lane[l] EXCEPT !.at = at, !.last = last, !.pending = pending]
  <2>1. /\ moved.at = at /\ moved.run = lane[l].run /\ moved.last = lane[l].last
        /\ read.at = at /\ read.run = lane[l].run /\ read.last = last
    BY <1>1 DEF LaneRecord
  <2>2. lane' = [lane EXCEPT ![l] = moved] \/ lane' = [lane EXCEPT ![l] = read]
    BY <1>1 DEF LaneRecord
  <2> HIDE DEF moved, read
  <2>3. moved \in LaneRecord /\ read \in LaneRecord
    BY <1>2 DEF moved, read
  <2> QED
    BY <1>1, <2>1, <2>2, <2>3
<1> QED
  BY <1>3 DEF LaneTypes

\* A lane is done with its run.
LEMMA LaneStops ==
  ASSUME TypeOK, NEW l \in Workers, lane' = [lane EXCEPT ![l] = Idle],
         inputs' = inputs, drain' \in [Workers -> DrainRecord]
  PROVE  LaneTypes'
<1> USE TypeParts
<1>1. Idle \in LaneRecord /\ Idle.at = "idle" /\ Idle.run = None /\ Idle.last = 0
  BY DEF Idle, LaneRecord, LaneStates
<1>2. /\ lane' \in [Workers -> LaneRecord]
      /\ lane'[l] = Idle /\ \A k \in Workers \ {l} : lane'[k] = lane[k]
  BY <1>1 DEF LaneTypes
<1>3. Len(inputs) \in Nat
  BY LenProperties DEF BotTypes
<1> QED
  BY <1>1, <1>2, <1>3 DEF LaneTypes

\* A step keeps what is known of the inputs that lanes have read when it leaves
\* the stream, the lists and the turn alone, empties a list, gives a drain up, or
\* begins a turn.
LEMMA InputsKept ==
  ASSUME TypeOK, Drains, Own, HeardIsBehind,
         Len(inputs)' >= Len(inputs), \A i \in 1..Len(inputs) : inputs'[i] = inputs[i],
         \A m \in ToSet(inputs) : target'[m] = target[m],
         \A k \in Workers :
           /\ \/ lane'[k].pending = {}
              \/ /\ lane'[k].run = lane[k].run /\ lane'[k].last = lane[k].last
                 /\ lane'[k].pending = lane[k].pending
           /\ drain'[k].own => drain'[k] = drain[k] /\ lane'[k].run = lane[k].run,
         turn'.live =>
           \/ turn'.heard = {}
           \/ /\ turn.live /\ turn'.lane = turn.lane /\ turn'.heard = turn.heard
              /\ drain'[turn.lane] = drain[turn.lane]
              /\ lane'[turn.lane].last = lane[turn.lane].last
              /\ lane'[turn.lane].pending = lane[turn.lane].pending
              /\ turn.lane \in Workers
  PROVE  Own' /\ HeardIsBehind'
<1> USE TypeParts
<1>1. Len(inputs) \in Nat /\ DOMAIN inputs = 1..Len(inputs)
  BY LenProperties DEF BotTypes
<1>2. \A k \in Workers : /\ lane[k].last \in 0..Len(inputs)
                         /\ drain[k].own => drain[k].last \in 0..Len(inputs)
  BY <1>1 DEF LaneTypes, LaneRecord, DrainRecord, Drains
<1>3. ASSUME NEW n \in 0..Len(inputs)
      PROVE  {inputs'[i] : i \in 1..n} = Upto(n) /\ Upto(n) \subseteq ToSet(inputs)
  BY <1>1 DEF Upto, ToSet
<1>4. ASSUME NEW S, NEW n \in 0..Len(inputs), NEW r, OwnInputs(S, n, r)
      PROVE  /\ \A p \in S : p.msg \in {inputs'[i] : i \in 1..n} /\ target'[p.msg] = r
             /\ \A p, q \in S : p.msg = q.msg => p = q
  BY <1>3, <1>4 DEF OwnInputs
<1>5. ASSUME NEW k \in Workers
      PROVE  OwnInputs(lane[k].pending, lane[k].last, lane[k].run)'
  <2>1. CASE lane'[k].pending = {}
    BY <2>1 DEF OwnInputs
  <2>2. CASE lane'[k].pending # {}
    <3>1. /\ lane'[k].run = lane[k].run /\ lane'[k].last = lane[k].last
          /\ lane'[k].pending = lane[k].pending
      BY <2>2
    <3>2. OwnInputs(lane[k].pending, lane[k].last, lane[k].run)
      BY DEF Own
    <3>3. /\ \A p \in lane[k].pending : /\ p.msg \in {inputs'[i] : i \in 1..lane[k].last}
                                        /\ target'[p.msg] = lane[k].run
          /\ \A p, q \in lane[k].pending : p.msg = q.msg => p = q
      BY <1>2, <1>4, <3>2
    <3> QED
      BY <3>1, <3>3 DEF OwnInputs, Upto
  <2> QED
    BY <2>1, <2>2
<1>6. ASSUME NEW k \in Workers, drain'[k].own
      PROVE  OwnInputs(drain[k].due \cup drain[k].kept, drain[k].last, lane[k].run)'
  <2>1. drain'[k] = drain[k] /\ lane'[k].run = lane[k].run /\ drain[k].own
    BY <1>6
  <2>2. OwnInputs(drain[k].due \cup drain[k].kept, drain[k].last, lane[k].run)
    BY <2>1 DEF Own
  <2> DEFINE S == drain[k].due \cup drain[k].kept
  <2>3. drain[k].last \in 0..Len(inputs)
    BY <1>2, <2>1
  <2>4. /\ \A p \in S : /\ p.msg \in {inputs'[i] : i \in 1..drain[k].last}
                       /\ target'[p.msg] = lane[k].run
        /\ \A p, q \in S : p.msg = q.msg => p = q
    <3> HIDE DEF S
    <3>1. OwnInputs(S, drain[k].last, lane[k].run)
      BY <2>2 DEF S
    <3> QED
      BY <1>4, <2>3, <3>1
  <2> QED
    BY <2>1, <2>4 DEF OwnInputs, Upto
<1>7. HeardIsBehind'
  <2>1. SUFFICES ASSUME turn'.live, turn'.heard # {}
                 PROVE  /\ turn'.heard \subseteq Upto(Cursor(turn.lane))'
                        /\ \A p \in Remaining(turn.lane)' : p.msg \notin turn'.heard
    BY DEF HeardIsBehind
  <2>2. PICK k \in Workers : k = turn.lane
    BY <2>1
  <2>3. /\ turn.live /\ turn'.lane = k /\ turn'.heard = turn.heard
        /\ drain'[k] = drain[k] /\ lane'[k].last = lane[k].last
        /\ lane'[k].pending = lane[k].pending
    BY <2>1, <2>2
  <2>4. Cursor(k) \in 0..Len(inputs) /\ Cursor(k)' = Cursor(k) /\ Remaining(k)' = Remaining(k)
    BY <1>2, <2>3 DEF Cursor, Remaining
  <2>5. turn.heard \subseteq Upto(Cursor(k)) /\ \A p \in Remaining(k) : p.msg \notin turn.heard
    BY <2>2, <2>3 DEF HeardIsBehind
  <2>6. Cursor(turn.lane)' = Cursor(k) /\ Remaining(turn.lane)' = Remaining(k)
    BY <2>3, <2>4 DEF Cursor, Remaining
  <2>7. Upto(Cursor(turn.lane))' = Upto(Cursor(k))
    BY <1>3, <2>4, <2>6 DEF Upto
  <2> QED
    BY <2>3, <2>5, <2>6, <2>7
<1> QED
  BY <1>5, <1>6, <1>7 DEF Own

\* Less that is pending, and more that has been read.
LEMMA OwnLess ==
  ASSUME NEW S, NEW T \in SUBSET S, NEW n \in Nat, NEW k \in Nat, n <= k, NEW r,
         OwnInputs(S, n, r)
  PROVE  OwnInputs(T, k, r)
<1>1. Upto(n) \subseteq Upto(k)
  BY DEF Upto
<1> QED
  BY <1>1 DEF OwnInputs

\* A step of one drain keeps what is known of the others.
LEMMA OtherDrains ==
  ASSUME TypeOK, Own, HeardIsBehind, NEW l \in Workers,
         inputs' = inputs, target' = target,
         \A k \in Workers \ {l} : lane'[k] = lane[k] /\ drain'[k] = drain[k],
         OwnInputs(lane'[l].pending, lane'[l].last, lane'[l].run),
         drain'[l].own =>
           OwnInputs(drain'[l].due \cup drain'[l].kept, drain'[l].last, lane'[l].run),
         turn'.live => turn.live /\ turn'.lane = turn.lane /\ turn.lane \in Workers,
         turn.lane # l => turn' = turn,
         turn'.live /\ turn.lane = l =>
           /\ turn'.heard \subseteq Upto(Cursor(l)')
           /\ \A p \in Remaining(l)' : p.msg \notin turn'.heard
  PROVE  Own' /\ HeardIsBehind'
<1>1. \A S, n, r : OwnInputs(S, n, r) => /\ \A p \in S : /\ p.msg \in {inputs'[i] : i \in 1..n}
                                                      /\ target'[p.msg] = r
                                         /\ \A p, q \in S : p.msg = q.msg => p = q
  BY DEF OwnInputs, Upto
<1>2. ASSUME NEW k \in Workers
      PROVE  OwnInputs(lane[k].pending, lane[k].last, lane[k].run)'
  <2>1. OwnInputs(lane'[k].pending, lane'[k].last, lane'[k].run)
    BY DEF Own
  <2> QED
    BY <1>1, <2>1 DEF OwnInputs, Upto
<1>3. ASSUME NEW k \in Workers, drain'[k].own
      PROVE  OwnInputs(drain[k].due \cup drain[k].kept, drain[k].last, lane[k].run)'
  <2>1. OwnInputs(drain'[k].due \cup drain'[k].kept, drain'[k].last, lane'[k].run)
    BY <1>3 DEF Own
  <2> QED
    BY <1>1, <2>1 DEF OwnInputs, Upto
<1>4. HeardIsBehind'
  <2>1. SUFFICES ASSUME turn'.live
                 PROVE  /\ turn'.heard \subseteq Upto(Cursor(turn.lane))'
                        /\ \A p \in Remaining(turn.lane)' : p.msg \notin turn'.heard
    BY DEF HeardIsBehind
  <2>2. PICK k \in Workers : k = turn.lane /\ turn'.lane = k /\ turn.live
    BY <2>1
  <2>3. \A n : {inputs'[i] : i \in 1..n} = Upto(n)
    BY DEF Upto
  <2>4. /\ turn'.heard \subseteq Upto(Cursor(k)')
        /\ \A p \in Remaining(k)' : p.msg \notin turn'.heard
    <3>1. CASE k = l
      BY <2>1, <2>2, <3>1
    <3>2. CASE k # l
      <4>1. turn' = turn /\ Cursor(k)' = Cursor(k) /\ Remaining(k)' = Remaining(k)
        BY <2>2, <3>2 DEF Cursor, Remaining
      <4> QED
        BY <2>2, <4>1 DEF HeardIsBehind
    <3> QED
      BY <3>1, <3>2
  <2>5. Cursor(turn.lane)' = Cursor(k)' /\ Remaining(turn.lane)' = Remaining(k)'
    BY <2>2 DEF Cursor, Remaining
  <2>6. Upto(Cursor(turn.lane))' = Upto(Cursor(k)')
    BY <2>3, <2>5 DEF Upto
  <2> QED
    BY <2>4, <2>5, <2>6
<1> QED
  BY <1>2, <1>3, <1>4 DEF Own

(***************************************************************************)
(* Each part is kept by every step.                                        *)
(***************************************************************************)

\* The lanes and the handlers send the store what it understands.
LEMMA StoreStep == TypeOK /\ [Next]_vars => StoreTypeOK'
<1> SUFFICES ASSUME TypeOK, [Next]_vars PROVE StoreTypeOK'
  OBVIOUS
<1> USE StoreCommands, StoreStands, RunFacts DEF TypeOK
<1>1. ASSUME NEW m \in Runs, Look(m) PROVE StoreTypeOK'
  BY <1>1 DEF Look, LookFor, ClearSettledPointer
<1>2. ASSUME NEW m \in Runs, TryEnqueue(m) PROVE StoreTypeOK'
  BY <1>2 DEF TryEnqueue, ClearSettledPointer
<1>3. ASSUME NEW m \in Runs, LookAgain(m) PROVE StoreTypeOK'
  BY <1>3 DEF LookAgain, LookFor, ClearSettledPointer
<1>4. ASSUME NEW m \in Runs, AppendInput(m) PROVE StoreTypeOK'
  BY <1>4 DEF AppendInput
<1>5. ASSUME NEW m \in Runs, PatchQueued(m) PROVE StoreTypeOK'
  BY <1>5 DEF PatchQueued
<1>6. ASSUME NEW l \in Workers, NEW x \in drain[l].due, ApplyInput(l, x) PROVE StoreTypeOK'
  BY <1>6 DEF ApplyInput
<1>7. ASSUME NEW l \in Workers, EndDrain(l) PROVE StoreTypeOK'
  BY <1>7 DEF EndDrain
<1>8. ASSUME NEW l \in Workers, LoseRun(l) PROVE StoreTypeOK'
  BY <1>8 DEF LoseRun, Leave
<1>9. ASSUME NEW l \in Workers, StartPrompt(l) PROVE StoreTypeOK'
  BY <1>9 DEF StartPrompt
<1>10. ASSUME NEW l \in Workers, PatchFinalizing(l) PROVE StoreTypeOK'
  BY <1>10 DEF PatchFinalizing, Leave
<1>11. ASSUME NEW l \in Workers, SettleSurface(l) PROVE StoreTypeOK'
  BY <1>11 DEF SettleSurface
<1>12. ASSUME NEW l \in Workers, FailRun(l) PROVE StoreTypeOK'
  BY <1>12 DEF FailRun, Leave
<1>13. ASSUME NEW l \in Workers, Settle(l) PROVE StoreTypeOK'
  BY <1>13 DEF Settle
<1>14. ASSUME NEW l \in Workers, Release(l) PROVE StoreTypeOK'
  BY <1>14 DEF Release, StoreTypeOK, TypeOK
<1>15. ASSUME NEW l \in Workers, NEW r \in Runs, TakeRun(l, r) PROVE StoreTypeOK'
  <2>1. status' \in [Runs -> {"absent"} \cup Live \cup Terminal]
    BY <1>15 DEF TakeRun, StoreTypeOK, Live
  <2>2. lease' \in [Runs -> Workers \cup {None}]
    BY <1>15 DEF TakeRun, StoreTypeOK
  <2>3. job' \in [Runs -> {"none", "new", "pending", "acked"}]
    BY <1>15 DEF TakeRun, StoreTypeOK
  <2> QED
    BY <1>15, <2>1, <2>2, <2>3 DEF TakeRun, StoreTypeOK
<1>16. ASSUME NEW l \in Workers, NEW r \in Runs, SkipSettled(l, r) PROVE StoreTypeOK'
  BY <1>16 DEF SkipSettled
<1>17. ASSUME NEW l \in Workers, NEW ready \in SUBSET lane[l].pending, ReadInputs(l, ready) PROVE StoreTypeOK'
  BY <1>17 DEF ReadInputs
<1>18. ASSUME TurnBegins PROVE StoreTypeOK'
  BY <1>18 DEF TurnBegins
<1>19. ASSUME NEW outcome \in {"executed", "errored"}, TurnEnds(outcome) PROVE StoreTypeOK'
  BY <1>19 DEF TurnEnds
<1>20. ASSUME ReconcileReads PROVE StoreTypeOK'
  BY <1>20 DEF ReconcileReads
<1>21. ASSUME ReconcileRepairs PROVE StoreTypeOK'
  <2>1. snapshot.shows = "settled" => snapshot.settled \in Runs
    BY <1>21 DEF ReconcileRepairs
  <2> QED
    BY <1>21, <2>1 DEF ReconcileRepairs
<1>22. ASSUME NEW r \in Runs, OrphanLeaseExpires(r) PROVE StoreTypeOK'
  BY <1>22 DEF OrphanLeaseExpires
<1>23. ASSUME NEW r \in Runs, HeldLeaseExpires(r) PROVE StoreTypeOK'
  BY <1>23 DEF HeldLeaseExpires
<1>24. ASSUME Crash PROVE StoreTypeOK'
  BY <1>24 DEF Crash
<1>25. ASSUME UNCHANGED vars PROVE StoreTypeOK'
  BY <1>25 DEF vars
<1> QED
  BY <1>1, <1>2, <1>3, <1>4, <1>5, <1>6, <1>7, <1>8, <1>9, <1>10, <1>11, <1>12, <1>13, <1>14, <1>15, <1>16, <1>17, <1>18, <1>19, <1>20, <1>21, <1>22, <1>23, <1>24, <1>25 DEF Next, Handle, LaneStep

\* A message is appended to the stream once.
LEMMA BotStep == TypeOK /\ Streamed /\ [Next]_vars => BotTypes'
<1> SUFFICES ASSUME TypeOK /\ Streamed, [Next]_vars PROVE BotTypes'
  OBVIOUS
<1> USE TypeParts, RunFacts DEF Handling, Handled, botVars
<1>1. ASSUME NEW m \in Runs, Look(m) PROVE BotTypes'
  BY <1>1 DEF Look, LookFor, HandlerGoes, BotTypes
<1>2. ASSUME NEW m \in Runs, TryEnqueue(m) PROVE BotTypes'
  BY <1>2 DEF TryEnqueue, HandlerGoes, BotTypes
<1>3. ASSUME NEW m \in Runs, LookAgain(m) PROVE BotTypes'
  BY <1>3 DEF LookAgain, LookFor, HandlerGoes, BotTypes
<1>4. ASSUME NEW m \in Runs, AppendInput(m) PROVE BotTypes'
  <2>1. inputs' = Append(inputs, m) /\ m \notin ToSet(inputs)
    BY <1>4 DEF AppendInput, Streamed
  <2>2. inputs' \in Seq(Runs) /\ IsInjective(inputs)'
    BY <2>1, JoinsTheChain DEF BotTypes
  <2> QED
    BY <1>4, <2>2 DEF AppendInput, HandlerGoes, BotTypes
<1>5. ASSUME NEW m \in Runs, PatchQueued(m) PROVE BotTypes'
  BY <1>5 DEF PatchQueued, HandlerGoes, BotTypes
<1>6. ASSUME NEW l \in Workers, NEW x \in drain[l].due, ApplyInput(l, x) PROVE BotTypes'
  BY <1>6 DEF ApplyInput, BotTypes, Pending, LaneTypes, DrainRecord
<1>7. ASSUME NEW l \in Workers, EndDrain(l) PROVE BotTypes'
  BY <1>7 DEF EndDrain, Remembered, BotTypes
<1>8. ASSUME NEW l \in Workers, LoseRun(l) PROVE BotTypes'
  BY <1>8 DEF LoseRun, Leave, Disowned, BotTypes
<1>9. ASSUME NEW l \in Workers, StartPrompt(l) PROVE BotTypes'
  BY <1>9 DEF StartPrompt, At, BotTypes
<1>10. ASSUME NEW l \in Workers, PatchFinalizing(l) PROVE BotTypes'
  BY <1>10 DEF PatchFinalizing, Leave, Disowned, At, BotTypes
<1>11. ASSUME NEW l \in Workers, SettleSurface(l) PROVE BotTypes'
  BY <1>11 DEF SettleSurface, At, BotTypes
<1>12. ASSUME NEW l \in Workers, FailRun(l) PROVE BotTypes'
  BY <1>12 DEF FailRun, Leave, Disowned, At, BotTypes
<1>13. ASSUME NEW l \in Workers, Settle(l) PROVE BotTypes'
  BY <1>13 DEF Settle, At, BotTypes
<1>14. ASSUME NEW l \in Workers, Release(l) PROVE BotTypes'
  BY <1>14 DEF Release, BotTypes
<1>15. ASSUME NEW l \in Workers, NEW r \in Runs, TakeRun(l, r) PROVE BotTypes'
  BY <1>15 DEF TakeRun, BotTypes
<1>16. ASSUME NEW l \in Workers, NEW r \in Runs, SkipSettled(l, r) PROVE BotTypes'
  BY <1>16 DEF SkipSettled, BotTypes
<1>17. ASSUME NEW l \in Workers, NEW ready \in SUBSET lane[l].pending, ReadInputs(l, ready) PROVE BotTypes'
  BY <1>17 DEF ReadInputs, BotTypes
<1>18. ASSUME TurnBegins PROVE BotTypes'
  BY <1>18 DEF TurnBegins, BotTypes
<1>19. ASSUME NEW outcome \in {"executed", "errored"}, TurnEnds(outcome) PROVE BotTypes'
  BY <1>19 DEF TurnEnds, At, Disowned, BotTypes
<1>20. ASSUME ReconcileReads PROVE BotTypes'
  BY <1>20 DEF ReconcileReads, BotTypes
<1>21. ASSUME ReconcileRepairs PROVE BotTypes'
  BY <1>21 DEF ReconcileRepairs, BotTypes
<1>22. ASSUME NEW r \in Runs, OrphanLeaseExpires(r) PROVE BotTypes'
  BY <1>22 DEF OrphanLeaseExpires, BotTypes
<1>23. ASSUME NEW r \in Runs, HeldLeaseExpires(r) PROVE BotTypes'
  BY <1>23 DEF HeldLeaseExpires, BotTypes
<1>24. ASSUME Crash PROVE BotTypes'
  BY <1>24 DEF Crash, BotTypes
<1>25. ASSUME UNCHANGED vars PROVE BotTypes'
  BY <1>25 DEF vars, BotTypes
<1> QED
  BY <1>1, <1>2, <1>3, <1>4, <1>5, <1>6, <1>7, <1>8, <1>9, <1>10, <1>11, <1>12, <1>13, <1>14, <1>15, <1>16, <1>17, <1>18, <1>19, <1>20, <1>21, <1>22, <1>23, <1>24, <1>25 DEF Next, Handle, LaneStep

\* A lane and its drain remember what they read.
LEMMA LanesTyped == TypeOK /\ Drains /\ Chained /\ [Next]_vars => LaneTypes'
<1> SUFFICES ASSUME TypeOK /\ Drains /\ Chained, [Next]_vars PROVE LaneTypes'
  OBVIOUS
<1> USE TypeParts, RunFacts DEF laneVars, botVars
<1>1. ASSUME NEW m \in Runs, Look(m) PROVE LaneTypes'
  BY <1>1 DEF Look, LookFor, HandlerGoes, LaneTypes, LaneStates
<1>2. ASSUME NEW m \in Runs, TryEnqueue(m) PROVE LaneTypes'
  BY <1>2 DEF TryEnqueue, HandlerGoes, LaneTypes, LaneStates
<1>3. ASSUME NEW m \in Runs, LookAgain(m) PROVE LaneTypes'
  BY <1>3 DEF LookAgain, LookFor, HandlerGoes, LaneTypes, LaneStates
<1>4. ASSUME NEW m \in Runs, AppendInput(m) PROVE LaneTypes'
  <2>1. inputs' = Append(inputs, m) /\ inputs \in Seq(Runs)
    BY <1>4 DEF AppendInput, BotTypes
  <2>2. Len(inputs)' = Len(inputs) + 1 /\ Len(inputs) \in Nat
    BY <2>1, AppendProperties, LenProperties
  <2>3. lane' = lane /\ drain' = drain
    BY <1>4 DEF AppendInput
  <2>4. \A k \in Workers : lane[k].last \in Nat
    BY DEF LaneTypes, LaneRecord
  <2> QED
    BY <2>2, <2>3, <2>4 DEF LaneTypes
<1>5. ASSUME NEW m \in Runs, PatchQueued(m) PROVE LaneTypes'
  BY <1>5 DEF PatchQueued, HandlerGoes, LaneTypes, LaneStates
<1>6. ASSUME NEW l \in Workers, NEW x \in drain[l].due, ApplyInput(l, x) PROVE LaneTypes'
  <2>1. x \in Pending /\ lane' = lane /\ inputs' = inputs
    BY <1>6 DEF ApplyInput, LaneTypes, DrainRecord
  <2>2. x.tries + 1 < MaxApply => [x EXCEPT !.tries = @ + 1] \in Pending
    BY <2>1, RunThreadAssumption DEF Pending
  <2>3. drain' \in [Workers -> DrainRecord]
    <3>1. drain[l] \in DrainRecord
      BY DEF LaneTypes
    <3>2. [drain[l] EXCEPT !.due = @ \ {x}] \in DrainRecord
      BY <3>1 DEF DrainRecord
    <3>3. CASE drain' = [drain EXCEPT ![l].due = @ \ {x}]
      BY <3>2, <3>3 DEF LaneTypes
    <3>4. CASE /\ x.tries + 1 < MaxApply
               /\ drain' = [[drain EXCEPT ![l].due = @ \ {x}]
                              EXCEPT ![l].kept = @ \cup {[x EXCEPT !.tries = @ + 1]}]
      <4> DEFINE y == [x EXCEPT !.tries = @ + 1]
      <4>1. [[drain[l] EXCEPT !.due = @ \ {x}] EXCEPT !.kept = @ \cup {y}] \in DrainRecord
        BY <2>2, <3>1, <3>4 DEF DrainRecord
      <4>2. drain' = [drain EXCEPT ![l] = [[drain[l] EXCEPT !.due = @ \ {x}] EXCEPT !.kept = @ \cup {y}]]
        BY <3>4 DEF LaneTypes, DrainRecord
      <4> QED
        BY <4>1, <4>2 DEF LaneTypes
    <3> QED
      BY <1>6, <3>3, <3>4 DEF ApplyInput
  <2> QED
    BY <2>1, <2>3 DEF LaneTypes
<1>7. ASSUME NEW l \in Workers, EndDrain(l) PROVE LaneTypes'
  <2>1. drain' \in [Workers -> DrainRecord] /\ inputs' = inputs
    BY <1>7 DEF EndDrain, NoDrain, LaneTypes, DrainRecord
  <2>2. CASE ~drain[l].own
    BY <1>7, <2>1, <2>2 DEF EndDrain, LaneTypes
  <2>3. CASE drain[l].own
    <3> DEFINE at == IF lane[l].at = "draining" THEN "starting" ELSE lane[l].at
    <3>1. lane' = [lane EXCEPT ![l].at = at, ![l].last = drain[l].last, ![l].pending = drain[l].kept]
      BY <1>7, <2>3 DEF EndDrain, Remembered
    <3>2. lane[l].at \in {"draining", "executing"} /\ drain[l].last <= Len(inputs)
      BY <2>3 DEF Drains
    <3>3. drain[l].last \in Nat /\ drain[l].kept \in SUBSET Pending
      BY DEF LaneTypes, DrainRecord
    <3>4. at \in LaneStates \ {"idle"}
      BY <3>2 DEF LaneStates
    <3> HIDE DEF at
    <3> QED
      BY <2>1, <3>1, <3>2, <3>3, <3>4, LaneGoesOn
  <2> QED
    BY <2>2, <2>3
<1>8. ASSUME NEW l \in Workers, LoseRun(l) PROVE LaneTypes'
  <2>1. Leave(l) => drain' \in [Workers -> DrainRecord] /\ lane' = [lane EXCEPT ![l] = Idle]
    BY DEF Leave, Disowned, LaneTypes, DrainRecord
  <2>2. Leave(l) => LaneTypes'
    <3>1. inputs' = inputs
      BY <1>8 DEF LoseRun
    <3> QED
      BY <2>1, <3>1, LaneStops
  <2> QED
    BY <1>8, <2>2 DEF LoseRun
<1>9. ASSUME NEW l \in Workers, StartPrompt(l) PROVE LaneTypes'
  <2>1. drain' \in [Workers -> DrainRecord]
    BY <1>9 DEF StartPrompt, At, LaneTypes, DrainRecord
  <2>2. lane[l].last \in Nat /\ lane[l].last <= Len(inputs) /\ lane[l].pending \in SUBSET Pending
    BY DEF LaneTypes, LaneRecord
  <2>3. lane[l].at # "idle" /\ inputs' = inputs
    BY <1>9 DEF StartPrompt
  <2> QED
    BY <1>9, <2>1, <2>2, <2>3, LaneGoesOn DEF StartPrompt, At, LaneStates
<1>10. ASSUME NEW l \in Workers, PatchFinalizing(l) PROVE LaneTypes'
  <2>1. Leave(l) => drain' \in [Workers -> DrainRecord] /\ lane' = [lane EXCEPT ![l] = Idle]
    BY DEF Leave, Disowned, LaneTypes, DrainRecord
  <2>2. Leave(l) => LaneTypes'
    <3>1. inputs' = inputs
      BY <1>10 DEF PatchFinalizing
    <3> QED
      BY <2>1, <3>1, LaneStops
  <2>3. ASSUME ~Leave(l) PROVE LaneTypes'
    <3>1. lane' = [lane EXCEPT ![l].at = "posting"] /\ drain' = drain
      BY <1>10, <2>3 DEF PatchFinalizing, At
    <3>2. drain' \in [Workers -> DrainRecord]
      BY <3>1 DEF LaneTypes
    <3>3. lane[l].last \in Nat /\ lane[l].last <= Len(inputs) /\ lane[l].pending \in SUBSET Pending
      BY DEF LaneTypes, LaneRecord
    <3>4. lane[l].at # "idle" /\ inputs' = inputs /\ "posting" \in LaneStates \ {"idle"}
      BY <1>10 DEF PatchFinalizing, LaneStates
    <3> QED
      BY <3>1, <3>2, <3>3, <3>4, LaneGoesOn
  <2> QED
    BY <2>2, <2>3
<1>11. ASSUME NEW l \in Workers, SettleSurface(l) PROVE LaneTypes'
  <2>1. drain' \in [Workers -> DrainRecord]
    BY <1>11 DEF SettleSurface, At, LaneTypes, DrainRecord
  <2>2. lane[l].last \in Nat /\ lane[l].last <= Len(inputs) /\ lane[l].pending \in SUBSET Pending
    BY DEF LaneTypes, LaneRecord
  <2>3. lane[l].at # "idle" /\ inputs' = inputs
    BY <1>11 DEF SettleSurface
  <2> QED
    BY <1>11, <2>1, <2>2, <2>3, LaneGoesOn DEF SettleSurface, At, LaneStates
<1>12. ASSUME NEW l \in Workers, FailRun(l) PROVE LaneTypes'
  <2>1. Leave(l) => drain' \in [Workers -> DrainRecord] /\ lane' = [lane EXCEPT ![l] = Idle]
    BY DEF Leave, Disowned, LaneTypes, DrainRecord
  <2>2. Leave(l) => LaneTypes'
    <3>1. inputs' = inputs
      BY <1>12 DEF FailRun
    <3> QED
      BY <2>1, <3>1, LaneStops
  <2>3. ASSUME ~Leave(l) PROVE LaneTypes'
    <3>1. lane' = [lane EXCEPT ![l].at = "failing"] /\ drain' = drain
      BY <1>12, <2>3 DEF FailRun, At
    <3>2. drain' \in [Workers -> DrainRecord]
      BY <3>1 DEF LaneTypes
    <3>3. lane[l].last \in Nat /\ lane[l].last <= Len(inputs) /\ lane[l].pending \in SUBSET Pending
      BY DEF LaneTypes, LaneRecord
    <3>4. lane[l].at # "idle" /\ inputs' = inputs /\ "failing" \in LaneStates \ {"idle"}
      BY <1>12 DEF FailRun, LaneStates
    <3> QED
      BY <3>1, <3>2, <3>3, <3>4, LaneGoesOn
  <2> QED
    BY <2>2, <2>3
<1>13. ASSUME NEW l \in Workers, Settle(l) PROVE LaneTypes'
  <2>1. drain' \in [Workers -> DrainRecord]
    BY <1>13 DEF Settle, At, LaneTypes, DrainRecord
  <2>2. lane[l].last \in Nat /\ lane[l].last <= Len(inputs) /\ lane[l].pending \in SUBSET Pending
    BY DEF LaneTypes, LaneRecord
  <2>3. lane[l].at # "idle" /\ inputs' = inputs
    BY <1>13 DEF Settle
  <2> QED
    BY <1>13, <2>1, <2>2, <2>3, LaneGoesOn DEF Settle, At, LaneStates
<1>14. ASSUME NEW l \in Workers, Release(l) PROVE LaneTypes'
  <2>1. drain' \in [Workers -> DrainRecord]
    BY <1>14 DEF Release, LaneTypes
  <2> QED
    BY <1>14, <2>1, LaneStops DEF Release
<1>15. ASSUME NEW l \in Workers, NEW r \in Runs, TakeRun(l, r) PROVE LaneTypes'
  <2>1. drain' = drain /\ inputs' = inputs
    BY <1>15 DEF TakeRun
  <2> DEFINE at == IF status[r] = "finalizing" THEN "posting" ELSE "draining"
             taken == [Idle EXCEPT !.at = at, !.run = r]
  <2>2. /\ taken \in LaneRecord /\ taken.at # "idle" /\ taken.run = r /\ taken.last = 0
    BY DEF Idle, LaneRecord, LaneStates
  <2>3. lane' = [lane EXCEPT ![l] = taken]
    BY <1>15 DEF TakeRun
  <2> HIDE DEF taken, at
  <2>4. /\ lane' \in [Workers -> LaneRecord]
        /\ lane'[l] = taken /\ \A k \in Workers \ {l} : lane'[k] = lane[k]
    BY <2>2, <2>3 DEF LaneTypes
  <2>5. Len(inputs) \in Nat
    BY LenProperties DEF BotTypes
  <2> QED
    BY <2>1, <2>2, <2>4, <2>5 DEF LaneTypes
<1>16. ASSUME NEW l \in Workers, NEW r \in Runs, SkipSettled(l, r) PROVE LaneTypes'
  BY <1>16 DEF SkipSettled, LaneTypes, LaneStates
<1>17. ASSUME NEW l \in Workers, NEW ready \in SUBSET lane[l].pending, ReadInputs(l, ready) PROVE LaneTypes'
  <2> DEFINE due == ready \cup [msg : Mine(l), tries : {0}]
             kept == lane[l].pending \ ready
  <2>1. lane[l].pending \subseteq Pending /\ Mine(l) \subseteq Runs
    BY PageProperties DEF LaneTypes, LaneRecord
  <2>2. due \in SUBSET Pending /\ kept \in SUBSET Pending
    BY <2>1, RunThreadAssumption DEF Pending
  <2>3. PageEnd(l) \in Nat /\ PageEnd(l) <= Len(inputs) /\ Len(inputs) \in Nat
    BY PageProperties
  <2>4. lane[l].at \in {"draining", "executing"} /\ inputs' = inputs
    BY <1>17 DEF ReadInputs
  <2> HIDE DEF due, kept
  <2>5. CASE due = {}
    <3>1. lane' = Remembered(l, PageEnd(l), kept) /\ drain' = drain
      BY <1>17, <2>5 DEF ReadInputs, due, kept
    <3> QED
      <4> DEFINE at == IF lane[l].at = "draining" THEN "starting" ELSE lane[l].at
      <4>1. lane' = [lane EXCEPT ![l].at = at, ![l].last = PageEnd(l), ![l].pending = kept]
        BY <3>1 DEF Remembered
      <4>2. at \in LaneStates \ {"idle"} /\ drain' \in [Workers -> DrainRecord]
        BY <2>4, <3>1 DEF LaneStates, LaneTypes
      <4> HIDE DEF at
      <4> QED
        BY <2>2, <2>3, <2>4, <4>1, <4>2, LaneGoesOn
  <2>6. CASE due # {}
    <3>1. /\ drain' = [drain EXCEPT ![l] =
                  [own |-> TRUE, last |-> PageEnd(l), due |-> due, kept |-> kept]]
          /\ lane' = lane
      BY <1>17, <2>6 DEF ReadInputs, due, kept
    <3> QED
      BY <2>2, <2>3, <2>4, <3>1 DEF LaneTypes, DrainRecord
  <2> QED
    BY <2>5, <2>6
<1>18. ASSUME TurnBegins PROVE LaneTypes'
  BY <1>18 DEF TurnBegins, LaneTypes, LaneStates
<1>19. ASSUME NEW outcome \in {"executed", "errored"}, TurnEnds(outcome) PROVE LaneTypes'
  <2>1. CASE ~turn.live
    BY <1>19, <2>1 DEF TurnEnds, LaneTypes
  <2>2. CASE turn.live
    <3> DEFINE l == turn.lane
    <3>1. /\ l \in Workers /\ lane[l].at # "idle" /\ inputs' = inputs
          /\ lane' = [lane EXCEPT ![l].at = outcome]
          /\ drain' = [drain EXCEPT ![l].own = FALSE]
      BY <1>19, <2>2 DEF TurnEnds, Chained, At, Disowned
    <3> HIDE DEF l
    <3>2. drain' \in [Workers -> DrainRecord]
      BY <3>1 DEF LaneTypes, DrainRecord
    <3>3. lane[l].last \in Nat /\ lane[l].last <= Len(inputs) /\ lane[l].pending \in SUBSET Pending
      BY <3>1 DEF LaneTypes, LaneRecord
    <3>4. outcome \in LaneStates \ {"idle"}
      BY DEF LaneStates
    <3> QED
      BY <3>1, <3>2, <3>3, <3>4, LaneGoesOn
  <2> QED
    BY <2>1, <2>2
<1>20. ASSUME ReconcileReads PROVE LaneTypes'
  BY <1>20 DEF ReconcileReads, LaneTypes, LaneStates
<1>21. ASSUME ReconcileRepairs PROVE LaneTypes'
  BY <1>21 DEF ReconcileRepairs, LaneTypes, LaneStates
<1>22. ASSUME NEW r \in Runs, OrphanLeaseExpires(r) PROVE LaneTypes'
  BY <1>22 DEF OrphanLeaseExpires, LaneTypes, LaneStates
<1>23. ASSUME NEW r \in Runs, HeldLeaseExpires(r) PROVE LaneTypes'
  BY <1>23 DEF HeldLeaseExpires, LaneTypes, LaneStates
<1>24. ASSUME Crash PROVE LaneTypes'
  <2>1. lane' \in [Workers -> LaneRecord] /\ drain' \in [Workers -> DrainRecord]
    BY <1>24 DEF Crash, Idle, NoDrain, LaneRecord, DrainRecord, LaneStates
  <2>2. Len(inputs) \in Nat /\ inputs' = inputs
    BY <1>24, LenProperties DEF Crash, BotTypes
  <2>3. \A l \in Workers : lane'[l].at = "idle" /\ lane'[l].run = None /\ lane'[l].last = 0
    BY <1>24 DEF Crash, Idle
  <2> QED
    BY <2>1, <2>2, <2>3 DEF LaneTypes
<1>25. ASSUME UNCHANGED vars PROVE LaneTypes'
  BY <1>25 DEF vars, LaneTypes
<1> QED
  BY <1>1, <1>2, <1>3, <1>4, <1>5, <1>6, <1>7, <1>8, <1>9, <1>10, <1>11, <1>12, <1>13, <1>14, <1>15, <1>16, <1>17, <1>18, <1>19, <1>20, <1>21, <1>22, <1>23, <1>24, <1>25 DEF Next, Handle, LaneStep

\* The chain holds a lane at most once: one joins it when it begins to execute.
LEMMA ChainTyped == TypeOK /\ Chained /\ [Next]_vars => ChainTypes'
<1> SUFFICES ASSUME TypeOK /\ Chained, [Next]_vars PROVE ChainTypes'
  OBVIOUS
<1> USE TypeParts, RunFacts DEF laneVars
<1>1. ASSUME NEW m \in Runs, Look(m) PROVE ChainTypes'
  BY <1>1 DEF Look, LookFor, HandlerGoes, ChainTypes
<1>2. ASSUME NEW m \in Runs, TryEnqueue(m) PROVE ChainTypes'
  BY <1>2 DEF TryEnqueue, HandlerGoes, ChainTypes
<1>3. ASSUME NEW m \in Runs, LookAgain(m) PROVE ChainTypes'
  BY <1>3 DEF LookAgain, LookFor, HandlerGoes, ChainTypes
<1>4. ASSUME NEW m \in Runs, AppendInput(m) PROVE ChainTypes'
  BY <1>4 DEF AppendInput, HandlerGoes, ChainTypes
<1>5. ASSUME NEW m \in Runs, PatchQueued(m) PROVE ChainTypes'
  BY <1>5 DEF PatchQueued, HandlerGoes, ChainTypes
<1>6. ASSUME NEW l \in Workers, NEW x \in drain[l].due, ApplyInput(l, x) PROVE ChainTypes'
  <2>1. x.msg \in Runs /\ waiting' = waiting
    BY <1>6 DEF ApplyInput, Pending, LaneTypes, DrainRecord
  <2>2. Steered(l, x.msg) \in [run : Runs \cup {None}, lane : Workers \cup {None}, live : BOOLEAN,
                              heard : SUBSET Runs]
    BY <2>1 DEF Steered, ChainTypes
  <2> QED
    BY <1>6, <2>1, <2>2 DEF ApplyInput, ChainTypes
<1>7. ASSUME NEW l \in Workers, EndDrain(l) PROVE ChainTypes'
  BY <1>7 DEF EndDrain, Remembered, ChainTypes
<1>8. ASSUME NEW l \in Workers, LoseRun(l) PROVE ChainTypes'
  <2>1. Leave(l) => waiting' \in Seq(Workers) /\ IsInjective(waiting)'
    BY LeavesTheChain DEF Leave, ChainTypes
  <2> QED
    BY <1>8, <2>1 DEF LoseRun, Leave, ChainTypes
<1>9. ASSUME NEW l \in Workers, StartPrompt(l) PROVE ChainTypes'
  <2>1. l \notin ToSet(waiting)
    BY <1>9 DEF StartPrompt, Chained
  <2>2. waiting' \in Seq(Workers) /\ IsInjective(waiting)'
    BY <1>9, <2>1, JoinsTheChain DEF StartPrompt, ChainTypes
  <2> QED
    BY <1>9, <2>2 DEF StartPrompt, ChainTypes
<1>10. ASSUME NEW l \in Workers, PatchFinalizing(l) PROVE ChainTypes'
  <2>1. Leave(l) => waiting' \in Seq(Workers) /\ IsInjective(waiting)'
    BY LeavesTheChain DEF Leave, ChainTypes
  <2> QED
    BY <1>10, <2>1 DEF PatchFinalizing, Leave, ChainTypes
<1>11. ASSUME NEW l \in Workers, SettleSurface(l) PROVE ChainTypes'
  BY <1>11 DEF SettleSurface, At, ChainTypes
<1>12. ASSUME NEW l \in Workers, FailRun(l) PROVE ChainTypes'
  <2>1. Leave(l) => waiting' \in Seq(Workers) /\ IsInjective(waiting)'
    BY LeavesTheChain DEF Leave, ChainTypes
  <2> QED
    BY <1>12, <2>1 DEF FailRun, Leave, ChainTypes
<1>13. ASSUME NEW l \in Workers, Settle(l) PROVE ChainTypes'
  BY <1>13 DEF Settle, At, ChainTypes
<1>14. ASSUME NEW l \in Workers, Release(l) PROVE ChainTypes'
  BY <1>14 DEF Release, ChainTypes
<1>15. ASSUME NEW l \in Workers, NEW r \in Runs, TakeRun(l, r) PROVE ChainTypes'
  BY <1>15 DEF TakeRun, ChainTypes
<1>16. ASSUME NEW l \in Workers, NEW r \in Runs, SkipSettled(l, r) PROVE ChainTypes'
  BY <1>16 DEF SkipSettled, ChainTypes
<1>17. ASSUME NEW l \in Workers, NEW ready \in SUBSET lane[l].pending, ReadInputs(l, ready) PROVE ChainTypes'
  BY <1>17 DEF ReadInputs, ChainTypes
<1>18. ASSUME TurnBegins PROVE ChainTypes'
  <2>1. /\ Head(waiting) \in Workers
        /\ waiting' \in Seq(Workers) /\ IsInjective(waiting)'
    BY <1>18, HeadOfTheChain DEF TurnBegins, ChainTypes
  <2>2. lane[Head(waiting)].run \in Runs \cup {None}
    BY <2>1
  <2>3. turn' \in [run : Runs \cup {None}, lane : Workers \cup {None}, live : BOOLEAN,
                heard : SUBSET Runs]
    BY <1>18, <2>1, <2>2 DEF TurnBegins
  <2> QED
    BY <2>1, <2>3 DEF ChainTypes
<1>19. ASSUME NEW outcome \in {"executed", "errored"}, TurnEnds(outcome) PROVE ChainTypes'
  BY <1>19 DEF TurnEnds, At, Disowned, ChainTypes, NoTurn
<1>20. ASSUME ReconcileReads PROVE ChainTypes'
  BY <1>20 DEF ReconcileReads, ChainTypes
<1>21. ASSUME ReconcileRepairs PROVE ChainTypes'
  BY <1>21 DEF ReconcileRepairs, ChainTypes
<1>22. ASSUME NEW r \in Runs, OrphanLeaseExpires(r) PROVE ChainTypes'
  BY <1>22 DEF OrphanLeaseExpires, ChainTypes
<1>23. ASSUME NEW r \in Runs, HeldLeaseExpires(r) PROVE ChainTypes'
  BY <1>23 DEF HeldLeaseExpires, ChainTypes
<1>24. ASSUME Crash PROVE ChainTypes'
  <2>1. waiting' \in Seq(Workers) /\ IsInjective(waiting)'
    BY <1>24 DEF Crash, IsInjective
  <2> QED
    BY <1>24, <2>1 DEF Crash, ChainTypes, NoTurn
<1>25. ASSUME UNCHANGED vars PROVE ChainTypes'
  BY <1>25 DEF vars, ChainTypes
<1> QED
  BY <1>1, <1>2, <1>3, <1>4, <1>5, <1>6, <1>7, <1>8, <1>9, <1>10, <1>11, <1>12, <1>13, <1>14, <1>15, <1>16, <1>17, <1>18, <1>19, <1>20, <1>21, <1>22, <1>23, <1>24, <1>25 DEF Next, Handle, LaneStep

\* The reconcile loop knows what it has read.
LEMMA LoopTyped == TypeOK /\ [Next]_vars => LoopTypes'
<1> SUFFICES ASSUME TypeOK, [Next]_vars PROVE LoopTypes'
  OBVIOUS
<1> USE TypeParts, RunFacts, RunThreadAssumption
<1>1. ASSUME NEW m \in Runs, Look(m) PROVE LoopTypes'
  BY <1>1 DEF Look, LookFor, HandlerGoes, LoopTypes
<1>2. ASSUME NEW m \in Runs, TryEnqueue(m) PROVE LoopTypes'
  BY <1>2 DEF TryEnqueue, HandlerGoes, LoopTypes
<1>3. ASSUME NEW m \in Runs, LookAgain(m) PROVE LoopTypes'
  BY <1>3 DEF LookAgain, LookFor, HandlerGoes, LoopTypes
<1>4. ASSUME NEW m \in Runs, AppendInput(m) PROVE LoopTypes'
  BY <1>4 DEF AppendInput, HandlerGoes, LoopTypes
<1>5. ASSUME NEW m \in Runs, PatchQueued(m) PROVE LoopTypes'
  BY <1>5 DEF PatchQueued, HandlerGoes, LoopTypes
<1>6. ASSUME NEW l \in Workers, NEW x \in drain[l].due, ApplyInput(l, x) PROVE LoopTypes'
  BY <1>6 DEF ApplyInput, LoopTypes
<1>7. ASSUME NEW l \in Workers, EndDrain(l) PROVE LoopTypes'
  BY <1>7 DEF EndDrain, Remembered, LoopTypes
<1>8. ASSUME NEW l \in Workers, LoseRun(l) PROVE LoopTypes'
  BY <1>8 DEF LoseRun, Leave, Disowned, LoopTypes, Leave
<1>9. ASSUME NEW l \in Workers, StartPrompt(l) PROVE LoopTypes'
  BY <1>9 DEF StartPrompt, At, LoopTypes
<1>10. ASSUME NEW l \in Workers, PatchFinalizing(l) PROVE LoopTypes'
  BY <1>10 DEF PatchFinalizing, Leave, Disowned, At, LoopTypes, Leave
<1>11. ASSUME NEW l \in Workers, SettleSurface(l) PROVE LoopTypes'
  BY <1>11 DEF SettleSurface, At, LoopTypes
<1>12. ASSUME NEW l \in Workers, FailRun(l) PROVE LoopTypes'
  BY <1>12 DEF FailRun, Leave, Disowned, At, LoopTypes, Leave
<1>13. ASSUME NEW l \in Workers, Settle(l) PROVE LoopTypes'
  BY <1>13 DEF Settle, At, LoopTypes
<1>14. ASSUME NEW l \in Workers, Release(l) PROVE LoopTypes'
  BY <1>14 DEF Release, LoopTypes
<1>15. ASSUME NEW l \in Workers, NEW r \in Runs, TakeRun(l, r) PROVE LoopTypes'
  BY <1>15 DEF TakeRun, LoopTypes
<1>16. ASSUME NEW l \in Workers, NEW r \in Runs, SkipSettled(l, r) PROVE LoopTypes'
  BY <1>16 DEF SkipSettled, LoopTypes
<1>17. ASSUME NEW l \in Workers, NEW ready \in SUBSET lane[l].pending, ReadInputs(l, ready) PROVE LoopTypes'
  BY <1>17 DEF ReadInputs, LoopTypes
<1>18. ASSUME TurnBegins PROVE LoopTypes'
  BY <1>18 DEF TurnBegins, LoopTypes
<1>19. ASSUME NEW outcome \in {"executed", "errored"}, TurnEnds(outcome) PROVE LoopTypes'
  BY <1>19 DEF TurnEnds, At, Disowned, LoopTypes
<1>20. ASSUME ReconcileReads PROVE LoopTypes'
  BY <1>20 DEF ReconcileReads, LoopTypes
<1>21. ASSUME ReconcileRepairs PROVE LoopTypes'
  BY <1>21 DEF ReconcileRepairs, LoopTypes, Repaired
<1>22. ASSUME NEW r \in Runs, OrphanLeaseExpires(r) PROVE LoopTypes'
  BY <1>22 DEF OrphanLeaseExpires, LoopTypes
<1>23. ASSUME NEW r \in Runs, HeldLeaseExpires(r) PROVE LoopTypes'
  BY <1>23 DEF HeldLeaseExpires, LoopTypes
<1>24. ASSUME Crash PROVE LoopTypes'
  BY <1>24 DEF Crash, LoopTypes
<1>25. ASSUME UNCHANGED vars PROVE LoopTypes'
  BY <1>25 DEF vars, LoopTypes
<1> QED
  BY <1>1, <1>2, <1>3, <1>4, <1>5, <1>6, <1>7, <1>8, <1>9, <1>10, <1>11, <1>12, <1>13, <1>14, <1>15, <1>16, <1>17, <1>18, <1>19, <1>20, <1>21, <1>22, <1>23, <1>24, <1>25 DEF Next, Handle, LaneStep

\* A drain is waited for from its read to its output, or until its machine leaves.
LEMMA DrainsStep == TypeOK /\ Drains /\ Chained /\ Own /\ [Next]_vars => Drains'
<1> SUFFICES ASSUME TypeOK /\ Drains /\ Chained /\ Own, [Next]_vars PROVE Drains'
  OBVIOUS
<1> USE TypeParts, RunFacts DEF laneVars, botVars
<1>1. ASSUME NEW m \in Runs, Look(m) PROVE Drains'
  BY <1>1 DEF Look, LookFor, HandlerGoes, Drains, LaneTypes, LaneRecord, DrainRecord
<1>2. ASSUME NEW m \in Runs, TryEnqueue(m) PROVE Drains'
  BY <1>2 DEF TryEnqueue, HandlerGoes, Drains, LaneTypes, LaneRecord, DrainRecord
<1>3. ASSUME NEW m \in Runs, LookAgain(m) PROVE Drains'
  BY <1>3 DEF LookAgain, LookFor, HandlerGoes, Drains, LaneTypes, LaneRecord, DrainRecord
<1>4. ASSUME NEW m \in Runs, AppendInput(m) PROVE Drains'
  <2>1. inputs' = Append(inputs, m) /\ inputs \in Seq(Runs) /\ lane' = lane /\ drain' = drain
    BY <1>4 DEF AppendInput, BotTypes
  <2>2. Len(inputs)' = Len(inputs) + 1 /\ Len(inputs) \in Nat
    BY <2>1, AppendProperties, LenProperties
  <2>3. \A k \in Workers : drain[k].last \in Nat
    BY DEF LaneTypes, DrainRecord
  <2> QED
    BY <2>1, <2>2, <2>3 DEF Drains
<1>5. ASSUME NEW m \in Runs, PatchQueued(m) PROVE Drains'
  BY <1>5 DEF PatchQueued, HandlerGoes, Drains, LaneTypes, LaneRecord, DrainRecord
<1>6. ASSUME NEW l \in Workers, NEW x \in drain[l].due, ApplyInput(l, x) PROVE Drains'
  <2> DEFINE y == [x EXCEPT !.tries = @ + 1]
  <2>1. /\ x \in drain[l].due /\ x \in Pending /\ y.msg = x.msg
        /\ lane' = lane /\ inputs' = inputs
    BY <1>6 DEF ApplyInput, LaneTypes, DrainRecord, Pending
  <2>2. drain[l].own => y \notin drain[l].due \ {x}
    <3>1. SUFFICES ASSUME drain[l].own, y \in drain[l].due, y # x PROVE FALSE
      OBVIOUS
    <3>2. x \in drain[l].due \cup drain[l].kept /\ y \in drain[l].due \cup drain[l].kept
      BY <2>1, <3>1
    <3> HIDE DEF y
    <3> QED
      BY <2>1, <3>1, <3>2 DEF Own, OwnInputs
  <2>3. /\ drain'[l].own = drain[l].own /\ drain'[l].last = drain[l].last
        /\ drain'[l].due = drain[l].due \ {x}
        /\ drain'[l].kept \subseteq drain[l].kept \cup {y}
        /\ \A k \in Workers \ {l} : drain'[k] = drain[k]
    BY <1>6 DEF ApplyInput, LaneTypes, DrainRecord
  <2> HIDE DEF y
  <2>4. drain[l] # NoDrain
    BY <2>1 DEF NoDrain
  <2>5. lane[l].at # "starting" /\ (lane[l].at = "executing" => drain[l].own)
    BY <2>4 DEF Drains
  <2>6. ASSUME NEW k \in Workers \ {l} PROVE drain'[k] = drain[k] /\ lane'[k] = lane[k]
    BY <2>1, <2>3
  <2>7. drain[l].own => drain'[l].due \cap drain'[l].kept = {}
    BY <2>2, <2>3 DEF Drains
  <2> QED
    BY <2>1, <2>3, <2>5, <2>6, <2>7 DEF Drains
<1>7. ASSUME NEW l \in Workers, EndDrain(l) PROVE Drains'
  BY <1>7 DEF EndDrain, Remembered, Drains, LaneTypes, LaneRecord, DrainRecord, NoDrain
<1>8. ASSUME NEW l \in Workers, LoseRun(l) PROVE Drains'
  BY <1>8 DEF LoseRun, Leave, Disowned, Drains, LaneTypes, LaneRecord, DrainRecord, Idle, NoDrain
<1>9. ASSUME NEW l \in Workers, StartPrompt(l) PROVE Drains'
  BY <1>9 DEF StartPrompt, At, Drains, LaneTypes, LaneRecord, DrainRecord
<1>10. ASSUME NEW l \in Workers, PatchFinalizing(l) PROVE Drains'
  <2>1. ASSUME Leave(l) PROVE Drains'
    BY <1>10, <2>1 DEF PatchFinalizing, Leave, Disowned, Drains, LaneTypes, LaneRecord, DrainRecord, Idle, NoDrain
  <2>2. ASSUME ~Leave(l) PROVE Drains'
    BY <1>10, <2>2 DEF PatchFinalizing, At, Drains, LaneTypes, LaneRecord
  <2> QED
    BY <2>1, <2>2
<1>11. ASSUME NEW l \in Workers, SettleSurface(l) PROVE Drains'
  BY <1>11 DEF SettleSurface, At, Drains, LaneTypes, LaneRecord, DrainRecord
<1>12. ASSUME NEW l \in Workers, FailRun(l) PROVE Drains'
  <2>1. ASSUME Leave(l) PROVE Drains'
    BY <1>12, <2>1 DEF FailRun, Leave, Disowned, Drains, LaneTypes, LaneRecord, DrainRecord, Idle, NoDrain
  <2>2. ASSUME ~Leave(l) PROVE Drains'
    BY <1>12, <2>2 DEF FailRun, At, Drains, LaneTypes, LaneRecord
  <2> QED
    BY <2>1, <2>2
<1>13. ASSUME NEW l \in Workers, Settle(l) PROVE Drains'
  BY <1>13 DEF Settle, At, Drains, LaneTypes, LaneRecord, DrainRecord
<1>14. ASSUME NEW l \in Workers, Release(l) PROVE Drains'
  BY <1>14 DEF Release, Drains, LaneTypes, LaneRecord, DrainRecord, Idle
<1>15. ASSUME NEW l \in Workers, NEW r \in Runs, TakeRun(l, r) PROVE Drains'
  BY <1>15 DEF TakeRun, Drains, LaneTypes, LaneRecord, DrainRecord, Idle
<1>16. ASSUME NEW l \in Workers, NEW r \in Runs, SkipSettled(l, r) PROVE Drains'
  BY <1>16 DEF SkipSettled, Drains, LaneTypes, LaneRecord, DrainRecord
<1>17. ASSUME NEW l \in Workers, NEW ready \in SUBSET lane[l].pending, ReadInputs(l, ready) PROVE Drains'
  <2> DEFINE new == [msg : Mine(l), tries : {0}]
             due == ready \cup new
             kept == lane[l].pending \ ready
  <2>1. lane[l].last <= PageEnd(l) /\ PageEnd(l) <= Len(inputs)
    BY PageProperties
  <2>2. /\ inputs' = inputs /\ drain[l] = NoDrain /\ ~drain[l].own
        /\ lane[l].at \in {"draining", "executing"}
    BY <1>17 DEF ReadInputs, NoDrain
  <2>3. due \cap kept = {}
    <3>1. SUFFICES ASSUME NEW p \in new, p \in lane[l].pending PROVE FALSE
      OBVIOUS
    <3>2. p.msg \in Upto(lane[l].last)
      BY <2>2, <3>1 DEF Own, OwnInputs
    <3>3. p.msg \in Mine(l)
      BY <3>1
    <3> QED
      BY <3>2, <3>3, PageIsAhead
  <2> HIDE DEF due, kept
  <2>4. CASE due = {}
    BY <1>17, <2>2, <2>4 DEF ReadInputs, due, kept, Remembered, Drains, LaneTypes, LaneRecord
  <2>5. CASE due # {}
    <3>1. /\ drain' = [drain EXCEPT ![l] =
                  [own |-> TRUE, last |-> PageEnd(l), due |-> due, kept |-> kept]]
          /\ lane' = lane
      BY <1>17, <2>5 DEF ReadInputs, due, kept
    <3> QED
      BY <2>1, <2>2, <2>3, <3>1 DEF Drains, LaneTypes
  <2> QED
    BY <2>4, <2>5
<1>18. ASSUME TurnBegins PROVE Drains'
  BY <1>18 DEF TurnBegins, Drains, LaneTypes, LaneRecord, DrainRecord
<1>19. ASSUME NEW outcome \in {"executed", "errored"}, TurnEnds(outcome) PROVE Drains'
  <2>1. CASE ~turn.live
    BY <1>19, <2>1 DEF TurnEnds, Drains
  <2>2. CASE turn.live
    <3> DEFINE l == turn.lane
    <3>1. /\ l \in Workers /\ inputs' = inputs
          /\ lane' = [lane EXCEPT ![l].at = outcome]
          /\ drain' = [drain EXCEPT ![l].own = FALSE]
      BY <1>19, <2>2 DEF TurnEnds, Chained, At, Disowned
    <3> HIDE DEF l
    <3>2. lane'[l].at = outcome /\ ~drain'[l].own
      BY <3>1 DEF LaneTypes, LaneRecord, DrainRecord
    <3>3. \A k \in Workers \ {l} : lane'[k] = lane[k] /\ drain'[k] = drain[k]
      BY <3>1 DEF LaneTypes
    <3> QED
      BY <3>1, <3>2, <3>3 DEF Drains
  <2> QED
    BY <2>1, <2>2
<1>20. ASSUME ReconcileReads PROVE Drains'
  BY <1>20 DEF ReconcileReads, Drains, LaneTypes, LaneRecord, DrainRecord
<1>21. ASSUME ReconcileRepairs PROVE Drains'
  BY <1>21 DEF ReconcileRepairs, Drains, LaneTypes, LaneRecord, DrainRecord
<1>22. ASSUME NEW r \in Runs, OrphanLeaseExpires(r) PROVE Drains'
  BY <1>22 DEF OrphanLeaseExpires, Drains, LaneTypes, LaneRecord, DrainRecord
<1>23. ASSUME NEW r \in Runs, HeldLeaseExpires(r) PROVE Drains'
  BY <1>23 DEF HeldLeaseExpires, Drains, LaneTypes, LaneRecord, DrainRecord
<1>24. ASSUME Crash PROVE Drains'
  BY <1>24 DEF Crash, Drains, LaneTypes, LaneRecord, DrainRecord, Idle, NoDrain
<1>25. ASSUME UNCHANGED vars PROVE Drains'
  BY <1>25 DEF vars, Drains
<1> QED
  BY <1>1, <1>2, <1>3, <1>4, <1>5, <1>6, <1>7, <1>8, <1>9, <1>10, <1>11, <1>12, <1>13, <1>14, <1>15, <1>16, <1>17, <1>18, <1>19, <1>20, <1>21, <1>22, <1>23, <1>24, <1>25 DEF Next, Handle, LaneStep

\* A lane executes from the moment it joins the chain until its turn is over.
LEMMA ChainedStep == TypeOK /\ Chained /\ [Next]_vars => Chained'
<1> SUFFICES ASSUME TypeOK /\ Chained, [Next]_vars PROVE Chained'
  OBVIOUS
<1> USE TypeParts, RunFacts DEF laneVars
<1>1. ASSUME NEW m \in Runs, Look(m) PROVE Chained'
  BY <1>1 DEF Look, LookFor, HandlerGoes, Chained, LaneTypes, LaneRecord, DrainRecord
<1>2. ASSUME NEW m \in Runs, TryEnqueue(m) PROVE Chained'
  BY <1>2 DEF TryEnqueue, HandlerGoes, Chained, LaneTypes, LaneRecord, DrainRecord
<1>3. ASSUME NEW m \in Runs, LookAgain(m) PROVE Chained'
  BY <1>3 DEF LookAgain, LookFor, HandlerGoes, Chained, LaneTypes, LaneRecord, DrainRecord
<1>4. ASSUME NEW m \in Runs, AppendInput(m) PROVE Chained'
  BY <1>4 DEF AppendInput, HandlerGoes, Chained, LaneTypes, LaneRecord, DrainRecord
<1>5. ASSUME NEW m \in Runs, PatchQueued(m) PROVE Chained'
  BY <1>5 DEF PatchQueued, HandlerGoes, Chained, LaneTypes, LaneRecord, DrainRecord
<1>6. ASSUME NEW l \in Workers, NEW x \in drain[l].due, ApplyInput(l, x) PROVE Chained'
  <2>1. /\ turn'.run = turn.run /\ turn'.lane = turn.lane /\ turn'.live = turn.live
        /\ (turn # NoTurn <=> turn' # NoTurn)
        /\ lane' = lane /\ waiting' = waiting
    BY <1>6 DEF ApplyInput, Steered, ChainTypes, NoTurn
  <2> QED
    BY <2>1 DEF Chained
<1>7. ASSUME NEW l \in Workers, EndDrain(l) PROVE Chained'
  <2>1. /\ \A k \in Workers : /\ lane'[k].run = lane[k].run
                              /\ lane[k].at = "executing" => lane'[k].at = "executing"
        /\ waiting' = waiting /\ turn' = turn
    BY <1>7 DEF EndDrain, Remembered, LaneTypes, LaneRecord
  <2>2. ToSet(waiting) \subseteq Workers
    BY LenProperties, ElementOfSeq DEF ChainTypes, ToSet
  <2>3. \A k \in ToSet(waiting)' : lane'[k].at = "executing"
    BY <2>1, <2>2 DEF Chained
  <2>4. turn.live => turn.lane \in Workers
    BY DEF Chained
  <2> QED
    BY <2>1, <2>3, <2>4 DEF Chained
<1>8. ASSUME NEW l \in Workers, LoseRun(l) PROVE Chained'
  <2>1. ASSUME Leave(l) PROVE Chained'
    <3>1. ToSet(waiting)' \subseteq ToSet(waiting) \ {l}
      BY <2>1, LeavesTheChain DEF Leave, ChainTypes
    <3>2. \A k \in Workers \ {l} : lane'[k] = lane[k]
      BY <2>1 DEF Leave, LaneTypes
    <3>3. ToSet(waiting) \subseteq Workers
      BY LenProperties, ElementOfSeq DEF ChainTypes, ToSet
    <3>4. turn' = IF turn.lane = l THEN [turn EXCEPT !.live = FALSE] ELSE turn
      BY <2>1 DEF Leave
    <3>5. /\ turn'.run = turn.run /\ turn'.lane = turn.lane
          /\ turn'.live => turn.live /\ turn.lane # l
          /\ turn' # NoTurn => turn # NoTurn
      <4>1. CASE turn.lane = l
        <5>1. turn' = [turn EXCEPT !.live = FALSE] /\ turn # NoTurn
          BY <3>4, <4>1 DEF NoTurn
        <5> QED
          BY <4>1, <5>1 DEF ChainTypes
      <4>2. CASE turn.lane # l
        BY <3>4, <4>2
      <4> QED
        BY <4>1, <4>2
    <3>6. turn'.live => turn' # NoTurn
      BY DEF NoTurn
    <3>7. turn'.live => turn.lane \in Workers \ {l}
      BY <3>5 DEF Chained
    <3>8. \A k \in ToSet(waiting)' : lane'[k].at = "executing"
      BY <3>1, <3>2, <3>3 DEF Chained
    <3> QED
      BY <3>1, <3>2, <3>5, <3>6, <3>7, <3>8 DEF Chained
  <2> QED
    BY <1>8, <2>1 DEF LoseRun
<1>9. ASSUME NEW l \in Workers, StartPrompt(l) PROVE Chained'
  <2>1. l \notin ToSet(waiting)
    BY <1>9 DEF StartPrompt, Chained
  <2>2. ToSet(waiting)' = ToSet(waiting) \cup {l}
    BY <1>9, <2>1, JoinsTheChain DEF StartPrompt, ChainTypes
  <2>3. turn' = turn /\ (turn.live => turn.lane # l)
    BY <1>9 DEF StartPrompt, Chained
  <2> QED
    BY <1>9, <2>2, <2>3 DEF StartPrompt, At, Chained, LaneTypes, LaneRecord
<1>10. ASSUME NEW l \in Workers, PatchFinalizing(l) PROVE Chained'
  <2>1. ASSUME Leave(l) PROVE Chained'
    <3>1. ToSet(waiting)' \subseteq ToSet(waiting) \ {l}
      BY <2>1, LeavesTheChain DEF Leave, ChainTypes
    <3>2. \A k \in Workers \ {l} : lane'[k] = lane[k]
      BY <2>1 DEF Leave, LaneTypes
    <3>3. ToSet(waiting) \subseteq Workers
      BY LenProperties, ElementOfSeq DEF ChainTypes, ToSet
    <3>4. turn' = IF turn.lane = l THEN [turn EXCEPT !.live = FALSE] ELSE turn
      BY <2>1 DEF Leave
    <3>5. /\ turn'.run = turn.run /\ turn'.lane = turn.lane
          /\ turn'.live => turn.live /\ turn.lane # l
          /\ turn' # NoTurn => turn # NoTurn
      <4>1. CASE turn.lane = l
        <5>1. turn' = [turn EXCEPT !.live = FALSE] /\ turn # NoTurn
          BY <3>4, <4>1 DEF NoTurn
        <5> QED
          BY <4>1, <5>1 DEF ChainTypes
      <4>2. CASE turn.lane # l
        BY <3>4, <4>2
      <4> QED
        BY <4>1, <4>2
    <3>6. turn'.live => turn' # NoTurn
      BY DEF NoTurn
    <3>7. turn'.live => turn.lane \in Workers \ {l}
      BY <3>5 DEF Chained
    <3>8. \A k \in ToSet(waiting)' : lane'[k].at = "executing"
      BY <3>1, <3>2, <3>3 DEF Chained
    <3> QED
      BY <3>1, <3>2, <3>5, <3>6, <3>7, <3>8 DEF Chained
  <2>2. ASSUME ~Leave(l) PROVE Chained'
    <3>1. /\ lane[l].at # "executing" /\ waiting' = waiting /\ turn' = turn
          /\ \A k \in Workers \ {l} : lane'[k] = lane[k]
      BY <1>10, <2>2 DEF PatchFinalizing, At, LaneTypes
    <3>2. ToSet(waiting) \subseteq Workers
      BY LenProperties, ElementOfSeq DEF ChainTypes, ToSet
    <3> QED
      BY <3>1, <3>2 DEF Chained
  <2> QED
    BY <2>1, <2>2
<1>11. ASSUME NEW l \in Workers, SettleSurface(l) PROVE Chained'
  BY <1>11 DEF SettleSurface, At, Chained, LaneTypes, LaneRecord, DrainRecord
<1>12. ASSUME NEW l \in Workers, FailRun(l) PROVE Chained'
  <2>1. ASSUME Leave(l) PROVE Chained'
    <3>1. ToSet(waiting)' \subseteq ToSet(waiting) \ {l}
      BY <2>1, LeavesTheChain DEF Leave, ChainTypes
    <3>2. \A k \in Workers \ {l} : lane'[k] = lane[k]
      BY <2>1 DEF Leave, LaneTypes
    <3>3. ToSet(waiting) \subseteq Workers
      BY LenProperties, ElementOfSeq DEF ChainTypes, ToSet
    <3>4. turn' = IF turn.lane = l THEN [turn EXCEPT !.live = FALSE] ELSE turn
      BY <2>1 DEF Leave
    <3>5. /\ turn'.run = turn.run /\ turn'.lane = turn.lane
          /\ turn'.live => turn.live /\ turn.lane # l
          /\ turn' # NoTurn => turn # NoTurn
      <4>1. CASE turn.lane = l
        <5>1. turn' = [turn EXCEPT !.live = FALSE] /\ turn # NoTurn
          BY <3>4, <4>1 DEF NoTurn
        <5> QED
          BY <4>1, <5>1 DEF ChainTypes
      <4>2. CASE turn.lane # l
        BY <3>4, <4>2
      <4> QED
        BY <4>1, <4>2
    <3>6. turn'.live => turn' # NoTurn
      BY DEF NoTurn
    <3>7. turn'.live => turn.lane \in Workers \ {l}
      BY <3>5 DEF Chained
    <3>8. \A k \in ToSet(waiting)' : lane'[k].at = "executing"
      BY <3>1, <3>2, <3>3 DEF Chained
    <3> QED
      BY <3>1, <3>2, <3>5, <3>6, <3>7, <3>8 DEF Chained
  <2>2. ASSUME ~Leave(l) PROVE Chained'
    <3>1. /\ lane[l].at # "executing" /\ waiting' = waiting /\ turn' = turn
          /\ \A k \in Workers \ {l} : lane'[k] = lane[k]
      BY <1>12, <2>2 DEF FailRun, At, LaneTypes
    <3>2. ToSet(waiting) \subseteq Workers
      BY LenProperties, ElementOfSeq DEF ChainTypes, ToSet
    <3> QED
      BY <3>1, <3>2 DEF Chained
  <2> QED
    BY <2>1, <2>2
<1>13. ASSUME NEW l \in Workers, Settle(l) PROVE Chained'
  BY <1>13 DEF Settle, At, Chained, LaneTypes, LaneRecord, DrainRecord
<1>14. ASSUME NEW l \in Workers, Release(l) PROVE Chained'
  BY <1>14 DEF Release, Chained, LaneTypes, LaneRecord, DrainRecord
<1>15. ASSUME NEW l \in Workers, NEW r \in Runs, TakeRun(l, r) PROVE Chained'
  BY <1>15 DEF TakeRun, Chained, LaneTypes, LaneRecord, DrainRecord
<1>16. ASSUME NEW l \in Workers, NEW r \in Runs, SkipSettled(l, r) PROVE Chained'
  BY <1>16 DEF SkipSettled, Chained, LaneTypes, LaneRecord, DrainRecord
<1>17. ASSUME NEW l \in Workers, NEW ready \in SUBSET lane[l].pending, ReadInputs(l, ready) PROVE Chained'
  <2>1. /\ \A k \in Workers : /\ lane'[k].run = lane[k].run
                              /\ lane[k].at = "executing" => lane'[k].at = "executing"
        /\ waiting' = waiting /\ turn' = turn
    BY <1>17 DEF ReadInputs, Remembered, LaneTypes, LaneRecord
  <2>2. ToSet(waiting) \subseteq Workers
    BY LenProperties, ElementOfSeq DEF ChainTypes, ToSet
  <2>3. \A k \in ToSet(waiting)' : lane'[k].at = "executing"
    BY <2>1, <2>2 DEF Chained
  <2>4. turn.live => turn.lane \in Workers
    BY DEF Chained
  <2> QED
    BY <2>1, <2>3, <2>4 DEF Chained
<1>18. ASSUME TurnBegins PROVE Chained'
  <2> DEFINE l == Head(waiting)
  <2>1. l \in Workers /\ l \in ToSet(waiting) /\ ToSet(waiting') \subseteq ToSet(waiting) \ {l}
    BY <1>18, HeadOfTheChain DEF TurnBegins, ChainTypes
  <2>2. lane[l].at = "executing" /\ lane[l].run \in Runs
    BY <2>1 DEF Chained
  <2>3. /\ turn' = [run |-> lane[l].run, lane |-> l, live |-> TRUE, heard |-> {}]
        /\ lane' = lane
    BY <1>18 DEF TurnBegins
  <2> HIDE DEF l
  <2> QED
    BY <2>1, <2>2, <2>3 DEF Chained, NoTurn, ToSet
<1>19. ASSUME NEW outcome \in {"executed", "errored"}, TurnEnds(outcome) PROVE Chained'
  <2>1. turn' = NoTurn /\ ~NoTurn.live /\ waiting' = waiting
    BY <1>19 DEF TurnEnds, NoTurn
  <2>2. ToSet(waiting) \subseteq Workers
    BY LenProperties, ElementOfSeq DEF ChainTypes, ToSet
  <2>3. \A k \in ToSet(waiting) : lane'[k] = lane[k]
    BY <1>19, <2>2 DEF TurnEnds, At, LaneTypes, Chained
  <2> QED
    BY <2>1, <2>3 DEF Chained
<1>20. ASSUME ReconcileReads PROVE Chained'
  BY <1>20 DEF ReconcileReads, Chained, LaneTypes, LaneRecord, DrainRecord
<1>21. ASSUME ReconcileRepairs PROVE Chained'
  BY <1>21 DEF ReconcileRepairs, Chained, LaneTypes, LaneRecord, DrainRecord
<1>22. ASSUME NEW r \in Runs, OrphanLeaseExpires(r) PROVE Chained'
  BY <1>22 DEF OrphanLeaseExpires, Chained, LaneTypes, LaneRecord, DrainRecord
<1>23. ASSUME NEW r \in Runs, HeldLeaseExpires(r) PROVE Chained'
  BY <1>23 DEF HeldLeaseExpires, Chained, LaneTypes, LaneRecord, DrainRecord
<1>24. ASSUME Crash PROVE Chained'
  BY <1>24 DEF Crash, Chained, LaneTypes, LaneRecord, DrainRecord, NoTurn, ToSet
<1>25. ASSUME UNCHANGED vars PROVE Chained'
  BY <1>25 DEF vars, Chained
<1> QED
  BY <1>1, <1>2, <1>3, <1>4, <1>5, <1>6, <1>7, <1>8, <1>9, <1>10, <1>11, <1>12, <1>13, <1>14, <1>15, <1>16, <1>17, <1>18, <1>19, <1>20, <1>21, <1>22, <1>23, <1>24, <1>25 DEF Next, Handle, LaneStep

\* A handler is through with a message once it is in the stream.
LEMMA StreamedStep == TypeOK /\ Streamed /\ [Next]_vars => Streamed'
<1> SUFFICES ASSUME TypeOK /\ Streamed, [Next]_vars PROVE Streamed'
  OBVIOUS
<1> USE TypeParts, RunFacts DEF botVars
<1>1. ASSUME NEW m \in Runs, Look(m) PROVE Streamed'
  BY <1>1 DEF Look, LookFor, HandlerGoes, Streamed, BotTypes, ToSet
<1>2. ASSUME NEW m \in Runs, TryEnqueue(m) PROVE Streamed'
  BY <1>2 DEF TryEnqueue, HandlerGoes, Streamed, BotTypes, ToSet
<1>3. ASSUME NEW m \in Runs, LookAgain(m) PROVE Streamed'
  BY <1>3 DEF LookAgain, LookFor, HandlerGoes, Streamed, BotTypes, ToSet
<1>4. ASSUME NEW m \in Runs, AppendInput(m) PROVE Streamed'
  <2>1. m \notin ToSet(inputs)
    BY <1>4 DEF AppendInput, Streamed
  <2>2. ToSet(inputs)' = ToSet(inputs) \cup {m}
    BY <1>4, <2>1, JoinsTheChain DEF AppendInput, BotTypes
  <2> QED
    BY <1>4, <2>2 DEF AppendInput, HandlerGoes, Streamed, BotTypes
<1>5. ASSUME NEW m \in Runs, PatchQueued(m) PROVE Streamed'
  BY <1>5 DEF PatchQueued, HandlerGoes, Streamed, BotTypes, ToSet
<1>6. ASSUME NEW l \in Workers, NEW x \in drain[l].due, ApplyInput(l, x) PROVE Streamed'
  BY <1>6 DEF ApplyInput, Streamed, BotTypes, ToSet
<1>7. ASSUME NEW l \in Workers, EndDrain(l) PROVE Streamed'
  BY <1>7 DEF EndDrain, Remembered, Streamed, BotTypes, ToSet
<1>8. ASSUME NEW l \in Workers, LoseRun(l) PROVE Streamed'
  BY <1>8 DEF LoseRun, Leave, Disowned, Streamed, BotTypes, ToSet
<1>9. ASSUME NEW l \in Workers, StartPrompt(l) PROVE Streamed'
  BY <1>9 DEF StartPrompt, At, Streamed, BotTypes, ToSet
<1>10. ASSUME NEW l \in Workers, PatchFinalizing(l) PROVE Streamed'
  BY <1>10 DEF PatchFinalizing, Leave, Disowned, At, Streamed, BotTypes, ToSet
<1>11. ASSUME NEW l \in Workers, SettleSurface(l) PROVE Streamed'
  BY <1>11 DEF SettleSurface, At, Streamed, BotTypes, ToSet
<1>12. ASSUME NEW l \in Workers, FailRun(l) PROVE Streamed'
  BY <1>12 DEF FailRun, Leave, Disowned, At, Streamed, BotTypes, ToSet
<1>13. ASSUME NEW l \in Workers, Settle(l) PROVE Streamed'
  BY <1>13 DEF Settle, At, Streamed, BotTypes, ToSet
<1>14. ASSUME NEW l \in Workers, Release(l) PROVE Streamed'
  BY <1>14 DEF Release, Streamed, BotTypes, ToSet
<1>15. ASSUME NEW l \in Workers, NEW r \in Runs, TakeRun(l, r) PROVE Streamed'
  BY <1>15 DEF TakeRun, Streamed, BotTypes, ToSet
<1>16. ASSUME NEW l \in Workers, NEW r \in Runs, SkipSettled(l, r) PROVE Streamed'
  BY <1>16 DEF SkipSettled, Streamed, BotTypes, ToSet
<1>17. ASSUME NEW l \in Workers, NEW ready \in SUBSET lane[l].pending, ReadInputs(l, ready) PROVE Streamed'
  BY <1>17 DEF ReadInputs, Streamed, BotTypes, ToSet
<1>18. ASSUME TurnBegins PROVE Streamed'
  BY <1>18 DEF TurnBegins, Streamed, BotTypes, ToSet
<1>19. ASSUME NEW outcome \in {"executed", "errored"}, TurnEnds(outcome) PROVE Streamed'
  BY <1>19 DEF TurnEnds, At, Disowned, Streamed, BotTypes, ToSet
<1>20. ASSUME ReconcileReads PROVE Streamed'
  BY <1>20 DEF ReconcileReads, Streamed, BotTypes, ToSet
<1>21. ASSUME ReconcileRepairs PROVE Streamed'
  BY <1>21 DEF ReconcileRepairs, Streamed, BotTypes, ToSet
<1>22. ASSUME NEW r \in Runs, OrphanLeaseExpires(r) PROVE Streamed'
  BY <1>22 DEF OrphanLeaseExpires, Streamed, BotTypes, ToSet
<1>23. ASSUME NEW r \in Runs, HeldLeaseExpires(r) PROVE Streamed'
  BY <1>23 DEF HeldLeaseExpires, Streamed, BotTypes, ToSet
<1>24. ASSUME Crash PROVE Streamed'
  BY <1>24 DEF Crash, Streamed, BotTypes, ToSet, Handling
<1>25. ASSUME UNCHANGED vars PROVE Streamed'
  BY <1>25 DEF vars, Streamed
<1> QED
  BY <1>1, <1>2, <1>3, <1>4, <1>5, <1>6, <1>7, <1>8, <1>9, <1>10, <1>11, <1>12, <1>13, <1>14, <1>15, <1>16, <1>17, <1>18, <1>19, <1>20, <1>21, <1>22, <1>23, <1>24, <1>25 DEF Next, Handle, LaneStep

\* A drain hands over what it could not apply, and reads on from its cursor; what
\* the turn has heard is behind that.
LEMMA InputsStep == (TypeOK /\ Drains /\ Chained /\ Streamed /\ Own /\ HeardIsBehind) /\ [Next]_vars => (Own /\ HeardIsBehind)'
<1> SUFFICES ASSUME (TypeOK /\ Drains /\ Chained /\ Streamed /\ Own /\ HeardIsBehind), [Next]_vars PROVE (Own /\ HeardIsBehind)'
  OBVIOUS
<1>0. Len(inputs) \in Nat /\ (turn.live => turn.lane \in Workers)
  BY LenProperties DEF Chained, TypeOK
<1> USE <1>0, TypeParts, RunFacts DEF laneVars, botVars
<1>1. ASSUME NEW m \in Runs, Look(m) PROVE (Own /\ HeardIsBehind)'
  <2>1. inputs' = inputs /\ \A i \in ToSet(inputs) : target'[i] = target[i]
    <3>1. m \notin ToSet(inputs) /\ inputs' = inputs
      BY <1>1 DEF Look, LookFor, Streamed
    <3>2. ToSet(inputs) \subseteq Runs
      BY LenProperties, ElementOfSeq DEF BotTypes, ToSet
    <3>3. \A i \in Runs \ {m} : target'[i] = target[i]
      BY <1>1 DEF Look, LookFor, BotTypes
    <3> QED
      BY <3>1, <3>2, <3>3
  <2>2. lane' = lane /\ drain' = drain /\ turn' = turn
    BY <1>1 DEF Look, LookFor
  <2>3. turn.live => turn.lane \in Workers
    BY DEF Chained
  <2> QED
    BY <2>1, <2>2, <2>3, InputsKept
<1>2. ASSUME NEW m \in Runs, TryEnqueue(m) PROVE (Own /\ HeardIsBehind)'
  <2>1. inputs' = inputs /\ target' = target
    BY <1>2 DEF TryEnqueue
  <2>2. \A k \in Workers :
          /\ \/ lane'[k].pending = {}
             \/ /\ lane'[k].run = lane[k].run /\ lane'[k].last = lane[k].last
                /\ lane'[k].pending = lane[k].pending
          /\ drain'[k].own => drain'[k] = drain[k] /\ lane'[k].run = lane[k].run
    BY <1>2 DEF TryEnqueue, LaneTypes, LaneRecord, DrainRecord
  <2>3. turn'.live =>
          \/ turn'.heard = {}
          \/ /\ turn.live /\ turn'.lane = turn.lane /\ turn'.heard = turn.heard
             /\ drain'[turn.lane] = drain[turn.lane]
             /\ lane'[turn.lane].last = lane[turn.lane].last
             /\ lane'[turn.lane].pending = lane[turn.lane].pending
             /\ turn.lane \in Workers
    BY <1>2 DEF TryEnqueue, LaneTypes, LaneRecord, DrainRecord, Chained
  <2> QED
    BY <2>1, <2>2, <2>3, InputsKept
<1>3. ASSUME NEW m \in Runs, LookAgain(m) PROVE (Own /\ HeardIsBehind)'
  <2>1. inputs' = inputs /\ \A i \in ToSet(inputs) : target'[i] = target[i]
    <3>1. m \notin ToSet(inputs) /\ inputs' = inputs
      BY <1>3 DEF LookAgain, LookFor, Streamed
    <3>2. ToSet(inputs) \subseteq Runs
      BY LenProperties, ElementOfSeq DEF BotTypes, ToSet
    <3>3. \A i \in Runs \ {m} : target'[i] = target[i]
      BY <1>3 DEF LookAgain, LookFor, BotTypes
    <3> QED
      BY <3>1, <3>2, <3>3
  <2>2. lane' = lane /\ drain' = drain /\ turn' = turn
    BY <1>3 DEF LookAgain, LookFor
  <2>3. turn.live => turn.lane \in Workers
    BY DEF Chained
  <2> QED
    BY <2>1, <2>2, <2>3, InputsKept
<1>4. ASSUME NEW m \in Runs, AppendInput(m) PROVE (Own /\ HeardIsBehind)'
  <2>1. /\ Len(inputs)' >= Len(inputs) /\ \A i \in 1..Len(inputs) : inputs'[i] = inputs[i]
        /\ target' = target
    <3>1. inputs' = Append(inputs, m) /\ inputs \in Seq(Runs) /\ target' = target
      BY <1>4 DEF AppendInput, BotTypes
    <3> QED
      BY <3>1, AppendProperties
  <2>2. lane' = lane /\ drain' = drain /\ turn' = turn
    BY <1>4 DEF AppendInput
  <2>3. turn.live => turn.lane \in Workers
    BY DEF Chained
  <2> QED
    BY <2>1, <2>2, <2>3, InputsKept
<1>5. ASSUME NEW m \in Runs, PatchQueued(m) PROVE (Own /\ HeardIsBehind)'
  <2>1. inputs' = inputs /\ target' = target
    BY <1>5 DEF PatchQueued
  <2>2. \A k \in Workers :
          /\ \/ lane'[k].pending = {}
             \/ /\ lane'[k].run = lane[k].run /\ lane'[k].last = lane[k].last
                /\ lane'[k].pending = lane[k].pending
          /\ drain'[k].own => drain'[k] = drain[k] /\ lane'[k].run = lane[k].run
    BY <1>5 DEF PatchQueued, LaneTypes, LaneRecord, DrainRecord
  <2>3. turn'.live =>
          \/ turn'.heard = {}
          \/ /\ turn.live /\ turn'.lane = turn.lane /\ turn'.heard = turn.heard
             /\ drain'[turn.lane] = drain[turn.lane]
             /\ lane'[turn.lane].last = lane[turn.lane].last
             /\ lane'[turn.lane].pending = lane[turn.lane].pending
             /\ turn.lane \in Workers
    BY <1>5 DEF PatchQueued, LaneTypes, LaneRecord, DrainRecord, Chained
  <2> QED
    BY <2>1, <2>2, <2>3, InputsKept
<1>6. ASSUME NEW l \in Workers, NEW x \in drain[l].due, ApplyInput(l, x) PROVE (Own /\ HeardIsBehind)'
  <2> DEFINE y == [x EXCEPT !.tries = @ + 1]
             S == drain[l].due \cup drain[l].kept
             T == drain'[l].due \cup drain'[l].kept
  <2>1. /\ x \in drain[l].due /\ x \in Pending /\ y.msg = x.msg
        /\ lane' = lane /\ inputs' = inputs /\ target' = target
    BY <1>6 DEF ApplyInput, LaneTypes, DrainRecord, Pending
  <2>2. /\ drain'[l].own = drain[l].own /\ drain'[l].last = drain[l].last
        /\ drain'[l].due = drain[l].due \ {x}
        /\ \/ drain'[l].kept = drain[l].kept
           \/ drain'[l].kept = drain[l].kept \cup {y} /\ turn = NoTurn
        /\ \A k \in Workers \ {l} : drain'[k] = drain[k]
    BY <1>6 DEF ApplyInput, LaneTypes, DrainRecord
  <2>3. /\ turn'.live = turn.live /\ turn'.lane = turn.lane
        /\ turn.lane # l => turn' = turn
        /\ turn'.heard \subseteq turn.heard \cup {x.msg}
    BY <1>6 DEF ApplyInput, Steered, ChainTypes
  <2> HIDE DEF y
  <2>4. ASSUME drain[l].own
        PROVE  /\ OwnInputs(T, drain[l].last, lane[l].run)
               /\ turn # NoTurn => T \subseteq S /\ \A p \in T : p.msg # x.msg
               /\ x \in S
    <3>1. OwnInputs(S, drain[l].last, lane[l].run) /\ drain[l].due \cap drain[l].kept = {}
      BY <2>4 DEF Own, Drains
    <3>2. T \subseteq (S \ {x}) \cup {y} /\ (turn # NoTurn => T \subseteq S \ {x}) /\ x \in S
      BY <2>1, <2>2, <3>1
    <3> HIDE DEF S, T
    <3>3. OwnInputs(T, drain[l].last, lane[l].run)
      BY <2>1, <3>1, <3>2 DEF OwnInputs
    <3>4. \A p \in S \ {x} : p.msg # x.msg
      BY <3>1, <3>2 DEF OwnInputs
    <3> QED
      BY <3>2, <3>3, <3>4
  <2>5. OwnInputs(lane'[l].pending, lane'[l].last, lane'[l].run)
    BY <2>1 DEF Own
  <2>6. drain'[l].own => OwnInputs(T, drain'[l].last, lane'[l].run)
    BY <2>1, <2>2, <2>4
  <2>7. turn'.live => turn.live /\ turn'.lane = turn.lane /\ turn.lane \in Workers
    BY <2>3 DEF Chained
  <2>8. ASSUME turn'.live, turn.lane = l
        PROVE  /\ turn'.heard \subseteq Upto(Cursor(l)')
               /\ \A p \in Remaining(l)' : p.msg \notin turn'.heard
    <3>1. turn.live /\ turn # NoTurn /\ drain[l].own
      BY <2>1, <2>3, <2>8 DEF Chained, Drains, NoDrain
    <3>2. Remaining(l) = S /\ Remaining(l)' = T /\ Cursor(l) = drain[l].last /\ Cursor(l)' = drain[l].last
      BY <2>2, <3>1 DEF Remaining, Cursor
    <3>3. turn.heard \subseteq Upto(drain[l].last) /\ \A p \in S : p.msg \notin turn.heard
      BY <2>8, <3>1, <3>2 DEF HeardIsBehind
    <3>4. x.msg \in Upto(drain[l].last)
      BY <2>4, <3>1 DEF Own, OwnInputs
    <3>5. T \subseteq S /\ \A p \in T : p.msg # x.msg
      BY <2>4, <3>1
    <3> HIDE DEF S, T
    <3> QED
      BY <2>3, <3>2, <3>3, <3>4, <3>5
  <2> QED
    BY <2>1, <2>2, <2>3, <2>5, <2>6, <2>7, <2>8, OtherDrains
<1>7. ASSUME NEW l \in Workers, EndDrain(l) PROVE (Own /\ HeardIsBehind)'
  <2>1. inputs' = inputs /\ target' = target /\ turn' = turn
    BY <1>7 DEF EndDrain
  <2>2. \A k \in Workers \ {l} : lane'[k] = lane[k] /\ drain'[k] = drain[k]
    BY <1>7 DEF EndDrain, Remembered, LaneTypes
  <2>3. drain'[l] = NoDrain /\ ~drain'[l].own
    BY <1>7 DEF EndDrain, NoDrain, LaneTypes
  <2>4. turn'.live => turn.live /\ turn'.lane = turn.lane /\ turn.lane \in Workers
    BY <2>1 DEF Chained
  <2>5. CASE drain[l].own
    <3>1. lane'[l].pending = drain[l].kept /\ lane'[l].last = drain[l].last /\ lane'[l].run = lane[l].run
      BY <1>7, <2>5 DEF EndDrain, Remembered, LaneTypes, LaneRecord
    <3>2. drain[l].last \in Nat /\ OwnInputs(drain[l].due \cup drain[l].kept, drain[l].last, lane[l].run)
      BY <2>5 DEF LaneTypes, DrainRecord, Own
    <3>3. OwnInputs(lane'[l].pending, lane'[l].last, lane'[l].run)
      <4>1. drain[l].kept \in SUBSET (drain[l].due \cup drain[l].kept) /\ drain[l].last <= drain[l].last
        BY <3>2
      <4>2. OwnInputs(drain[l].kept, drain[l].last, lane[l].run)
        BY <3>2, <4>1, OwnLess
      <4> QED
        BY <3>1, <4>2
    <3>4. Cursor(l)' = Cursor(l) /\ Remaining(l)' \subseteq Remaining(l)
      BY <2>3, <2>5, <3>1 DEF Cursor, Remaining
    <3>5. turn'.live /\ turn.lane = l =>
            /\ turn'.heard \subseteq Upto(Cursor(l)')
            /\ \A p \in Remaining(l)' : p.msg \notin turn'.heard
      <4>1. SUFFICES ASSUME turn.live, turn.lane = l
                     PROVE  /\ turn.heard \subseteq Upto(Cursor(l))
                            /\ \A p \in Remaining(l) : p.msg \notin turn.heard
        BY <2>1, <3>4
      <4> QED
        BY <4>1 DEF HeardIsBehind
    <3> QED
      BY <2>1, <2>2, <2>3, <2>4, <3>3, <3>5, OtherDrains
  <2>6. CASE ~drain[l].own
    <3>1. lane' = lane
      BY <1>7, <2>6 DEF EndDrain
    <3>2. ~(turn.live /\ turn.lane = l)
      BY <1>7, <2>6 DEF EndDrain, Chained, Drains
    <3>3. OwnInputs(lane'[l].pending, lane'[l].last, lane'[l].run)
      BY <3>1 DEF Own
    <3> QED
      BY <2>1, <2>2, <2>3, <2>4, <3>2, <3>3, OtherDrains
  <2> QED
    BY <2>5, <2>6
<1>8. ASSUME NEW l \in Workers, LoseRun(l) PROVE (Own /\ HeardIsBehind)'
  <2>1. inputs' = inputs /\ target' = target
    BY <1>8 DEF LoseRun, Leave, At, Disowned
  <2>2. \A k \in Workers :
          /\ \/ lane'[k].pending = {}
             \/ /\ lane'[k].run = lane[k].run /\ lane'[k].last = lane[k].last
                /\ lane'[k].pending = lane[k].pending
          /\ drain'[k].own => drain'[k] = drain[k] /\ lane'[k].run = lane[k].run
    BY <1>8 DEF LoseRun, Leave, At, Disowned, LaneTypes, LaneRecord, DrainRecord, Idle, Drains
  <2>3. turn'.live =>
          \/ turn'.heard = {}
          \/ /\ turn.live /\ turn'.lane = turn.lane /\ turn'.heard = turn.heard
             /\ drain'[turn.lane] = drain[turn.lane]
             /\ lane'[turn.lane].last = lane[turn.lane].last
             /\ lane'[turn.lane].pending = lane[turn.lane].pending
             /\ turn.lane \in Workers
    BY <1>8 DEF LoseRun, Leave, At, Disowned, LaneTypes, LaneRecord, DrainRecord, Chained, ChainTypes
  <2> QED
    BY <2>1, <2>2, <2>3, InputsKept
<1>9. ASSUME NEW l \in Workers, StartPrompt(l) PROVE (Own /\ HeardIsBehind)'
  <2>1. inputs' = inputs /\ target' = target
    BY <1>9 DEF StartPrompt, At
  <2>2. \A k \in Workers :
          /\ \/ lane'[k].pending = {}
             \/ /\ lane'[k].run = lane[k].run /\ lane'[k].last = lane[k].last
                /\ lane'[k].pending = lane[k].pending
          /\ drain'[k].own => drain'[k] = drain[k] /\ lane'[k].run = lane[k].run
    BY <1>9 DEF StartPrompt, At, LaneTypes, LaneRecord, DrainRecord
  <2>3. turn'.live =>
          \/ turn'.heard = {}
          \/ /\ turn.live /\ turn'.lane = turn.lane /\ turn'.heard = turn.heard
             /\ drain'[turn.lane] = drain[turn.lane]
             /\ lane'[turn.lane].last = lane[turn.lane].last
             /\ lane'[turn.lane].pending = lane[turn.lane].pending
             /\ turn.lane \in Workers
    BY <1>9 DEF StartPrompt, At, LaneTypes, LaneRecord, DrainRecord, Chained
  <2> QED
    BY <2>1, <2>2, <2>3, InputsKept
<1>10. ASSUME NEW l \in Workers, PatchFinalizing(l) PROVE (Own /\ HeardIsBehind)'
  <2>1. inputs' = inputs /\ target' = target
    BY <1>10 DEF PatchFinalizing, Leave, At, Disowned
  <2>2. \A k \in Workers :
          /\ \/ lane'[k].pending = {}
             \/ /\ lane'[k].run = lane[k].run /\ lane'[k].last = lane[k].last
                /\ lane'[k].pending = lane[k].pending
          /\ drain'[k].own => drain'[k] = drain[k] /\ lane'[k].run = lane[k].run
    <3>1. ASSUME NEW k \in Workers \ {l} PROVE lane'[k] = lane[k] /\ drain'[k] = drain[k]
      BY <1>10 DEF PatchFinalizing, Leave, At, Disowned, LaneTypes
    <3>2. /\ \/ lane'[l].pending = {}
             \/ /\ lane'[l].run = lane[l].run /\ lane'[l].last = lane[l].last
                /\ lane'[l].pending = lane[l].pending
          /\ ~drain'[l].own
      <4>1. CASE Leave(l)
        BY <4>1 DEF Leave, Disowned, Idle, LaneTypes, LaneRecord, DrainRecord
      <4>2. CASE ~Leave(l)
        BY <1>10, <4>2 DEF PatchFinalizing, At, Drains, LaneTypes, LaneRecord
      <4> QED
        BY <4>1, <4>2
    <3> QED
      BY <3>1, <3>2
  <2>3. turn'.live =>
          \/ turn'.heard = {}
          \/ /\ turn.live /\ turn'.lane = turn.lane /\ turn'.heard = turn.heard
             /\ drain'[turn.lane] = drain[turn.lane]
             /\ lane'[turn.lane].last = lane[turn.lane].last
             /\ lane'[turn.lane].pending = lane[turn.lane].pending
             /\ turn.lane \in Workers
    BY <1>10 DEF PatchFinalizing, Leave, At, Disowned, LaneTypes, LaneRecord, DrainRecord, Chained, ChainTypes
  <2> QED
    BY <2>1, <2>2, <2>3, InputsKept
<1>11. ASSUME NEW l \in Workers, SettleSurface(l) PROVE (Own /\ HeardIsBehind)'
  <2>1. inputs' = inputs /\ target' = target
    BY <1>11 DEF SettleSurface, At
  <2>2. \A k \in Workers :
          /\ \/ lane'[k].pending = {}
             \/ /\ lane'[k].run = lane[k].run /\ lane'[k].last = lane[k].last
                /\ lane'[k].pending = lane[k].pending
          /\ drain'[k].own => drain'[k] = drain[k] /\ lane'[k].run = lane[k].run
    BY <1>11 DEF SettleSurface, At, LaneTypes, LaneRecord, DrainRecord
  <2>3. turn'.live =>
          \/ turn'.heard = {}
          \/ /\ turn.live /\ turn'.lane = turn.lane /\ turn'.heard = turn.heard
             /\ drain'[turn.lane] = drain[turn.lane]
             /\ lane'[turn.lane].last = lane[turn.lane].last
             /\ lane'[turn.lane].pending = lane[turn.lane].pending
             /\ turn.lane \in Workers
    BY <1>11 DEF SettleSurface, At, LaneTypes, LaneRecord, DrainRecord, Chained
  <2> QED
    BY <2>1, <2>2, <2>3, InputsKept
<1>12. ASSUME NEW l \in Workers, FailRun(l) PROVE (Own /\ HeardIsBehind)'
  <2>1. inputs' = inputs /\ target' = target
    BY <1>12 DEF FailRun, Leave, At, Disowned
  <2>2. \A k \in Workers :
          /\ \/ lane'[k].pending = {}
             \/ /\ lane'[k].run = lane[k].run /\ lane'[k].last = lane[k].last
                /\ lane'[k].pending = lane[k].pending
          /\ drain'[k].own => drain'[k] = drain[k] /\ lane'[k].run = lane[k].run
    <3>1. ASSUME NEW k \in Workers \ {l} PROVE lane'[k] = lane[k] /\ drain'[k] = drain[k]
      BY <1>12 DEF FailRun, Leave, At, Disowned, LaneTypes
    <3>2. /\ \/ lane'[l].pending = {}
             \/ /\ lane'[l].run = lane[l].run /\ lane'[l].last = lane[l].last
                /\ lane'[l].pending = lane[l].pending
          /\ ~drain'[l].own
      <4>1. CASE Leave(l)
        BY <4>1 DEF Leave, Disowned, Idle, LaneTypes, LaneRecord, DrainRecord
      <4>2. CASE ~Leave(l)
        BY <1>12, <4>2 DEF FailRun, At, Drains, LaneTypes, LaneRecord
      <4> QED
        BY <4>1, <4>2
    <3> QED
      BY <3>1, <3>2
  <2>3. turn'.live =>
          \/ turn'.heard = {}
          \/ /\ turn.live /\ turn'.lane = turn.lane /\ turn'.heard = turn.heard
             /\ drain'[turn.lane] = drain[turn.lane]
             /\ lane'[turn.lane].last = lane[turn.lane].last
             /\ lane'[turn.lane].pending = lane[turn.lane].pending
             /\ turn.lane \in Workers
    BY <1>12 DEF FailRun, Leave, At, Disowned, LaneTypes, LaneRecord, DrainRecord, Chained, ChainTypes
  <2> QED
    BY <2>1, <2>2, <2>3, InputsKept
<1>13. ASSUME NEW l \in Workers, Settle(l) PROVE (Own /\ HeardIsBehind)'
  <2>1. inputs' = inputs /\ target' = target
    BY <1>13 DEF Settle, At
  <2>2. \A k \in Workers :
          /\ \/ lane'[k].pending = {}
             \/ /\ lane'[k].run = lane[k].run /\ lane'[k].last = lane[k].last
                /\ lane'[k].pending = lane[k].pending
          /\ drain'[k].own => drain'[k] = drain[k] /\ lane'[k].run = lane[k].run
    BY <1>13 DEF Settle, At, LaneTypes, LaneRecord, DrainRecord
  <2>3. turn'.live =>
          \/ turn'.heard = {}
          \/ /\ turn.live /\ turn'.lane = turn.lane /\ turn'.heard = turn.heard
             /\ drain'[turn.lane] = drain[turn.lane]
             /\ lane'[turn.lane].last = lane[turn.lane].last
             /\ lane'[turn.lane].pending = lane[turn.lane].pending
             /\ turn.lane \in Workers
    BY <1>13 DEF Settle, At, LaneTypes, LaneRecord, DrainRecord, Chained
  <2> QED
    BY <2>1, <2>2, <2>3, InputsKept
<1>14. ASSUME NEW l \in Workers, Release(l) PROVE (Own /\ HeardIsBehind)'
  <2>1. inputs' = inputs /\ target' = target
    BY <1>14 DEF Release
  <2>2. \A k \in Workers :
          /\ \/ lane'[k].pending = {}
             \/ /\ lane'[k].run = lane[k].run /\ lane'[k].last = lane[k].last
                /\ lane'[k].pending = lane[k].pending
          /\ drain'[k].own => drain'[k] = drain[k] /\ lane'[k].run = lane[k].run
    BY <1>14 DEF Release, LaneTypes, LaneRecord, DrainRecord, Idle, Drains
  <2>3. turn'.live =>
          \/ turn'.heard = {}
          \/ /\ turn.live /\ turn'.lane = turn.lane /\ turn'.heard = turn.heard
             /\ drain'[turn.lane] = drain[turn.lane]
             /\ lane'[turn.lane].last = lane[turn.lane].last
             /\ lane'[turn.lane].pending = lane[turn.lane].pending
             /\ turn.lane \in Workers
    BY <1>14 DEF Release, LaneTypes, LaneRecord, DrainRecord, Chained
  <2> QED
    BY <2>1, <2>2, <2>3, InputsKept
<1>15. ASSUME NEW l \in Workers, NEW r \in Runs, TakeRun(l, r) PROVE (Own /\ HeardIsBehind)'
  <2>1. inputs' = inputs /\ target' = target
    BY <1>15 DEF TakeRun
  <2>2. \A k \in Workers :
          /\ \/ lane'[k].pending = {}
             \/ /\ lane'[k].run = lane[k].run /\ lane'[k].last = lane[k].last
                /\ lane'[k].pending = lane[k].pending
          /\ drain'[k].own => drain'[k] = drain[k] /\ lane'[k].run = lane[k].run
    BY <1>15 DEF TakeRun, LaneTypes, LaneRecord, DrainRecord, Idle, Drains
  <2>3. turn'.live =>
          \/ turn'.heard = {}
          \/ /\ turn.live /\ turn'.lane = turn.lane /\ turn'.heard = turn.heard
             /\ drain'[turn.lane] = drain[turn.lane]
             /\ lane'[turn.lane].last = lane[turn.lane].last
             /\ lane'[turn.lane].pending = lane[turn.lane].pending
             /\ turn.lane \in Workers
    BY <1>15 DEF TakeRun, LaneTypes, LaneRecord, DrainRecord, Chained
  <2> QED
    BY <2>1, <2>2, <2>3, InputsKept
<1>16. ASSUME NEW l \in Workers, NEW r \in Runs, SkipSettled(l, r) PROVE (Own /\ HeardIsBehind)'
  <2>1. inputs' = inputs /\ target' = target
    BY <1>16 DEF SkipSettled
  <2>2. \A k \in Workers :
          /\ \/ lane'[k].pending = {}
             \/ /\ lane'[k].run = lane[k].run /\ lane'[k].last = lane[k].last
                /\ lane'[k].pending = lane[k].pending
          /\ drain'[k].own => drain'[k] = drain[k] /\ lane'[k].run = lane[k].run
    BY <1>16 DEF SkipSettled, LaneTypes, LaneRecord, DrainRecord
  <2>3. turn'.live =>
          \/ turn'.heard = {}
          \/ /\ turn.live /\ turn'.lane = turn.lane /\ turn'.heard = turn.heard
             /\ drain'[turn.lane] = drain[turn.lane]
             /\ lane'[turn.lane].last = lane[turn.lane].last
             /\ lane'[turn.lane].pending = lane[turn.lane].pending
             /\ turn.lane \in Workers
    BY <1>16 DEF SkipSettled, LaneTypes, LaneRecord, DrainRecord, Chained
  <2> QED
    BY <2>1, <2>2, <2>3, InputsKept
<1>17. ASSUME NEW l \in Workers, NEW ready \in SUBSET lane[l].pending, ReadInputs(l, ready) PROVE (Own /\ HeardIsBehind)'
  <2> DEFINE old == lane[l].pending
             new == [msg : Mine(l), tries : {0}]
             due == ready \cup new
             kept == lane[l].pending \ ready
  <2>1. /\ lane[l].last \in Nat /\ PageEnd(l) \in Nat /\ lane[l].last <= PageEnd(l)
        /\ \A p \in new : /\ p.msg \notin Upto(lane[l].last) /\ p.msg \in Upto(PageEnd(l))
                          /\ target[p.msg] = lane[l].run
        /\ \A p, q \in new : p.msg = q.msg => p = q
    BY PageProperties, PageIsAhead
  <2>2. /\ inputs' = inputs /\ target' = target /\ turn' = turn
        /\ drain[l] = NoDrain /\ ~drain[l].own
    BY <1>17 DEF ReadInputs, NoDrain
  <2>3. Upto(lane[l].last) \subseteq Upto(PageEnd(l))
    BY <2>1 DEF Upto
  <2>4. OwnInputs(old, lane[l].last, lane[l].run)
    BY DEF Own
  <2>5. due \cup kept = old \cup new
    OBVIOUS
  <2> HIDE DEF new, old, due, kept
  <2>6. OwnInputs(old, PageEnd(l), lane[l].run)
    BY <2>3, <2>4 DEF OwnInputs
  <2>7. OwnInputs(old \cup new, PageEnd(l), lane[l].run)
    <3>1. \A p \in old, q \in new : p.msg # q.msg
      BY <2>1, <2>4 DEF OwnInputs
    <3> QED
      BY <2>1, <2>6, <3>1 DEF OwnInputs
  <2>8. ASSUME turn.live, turn.lane = l
        PROVE  /\ turn.heard \subseteq Upto(lane[l].last) /\ turn.heard \subseteq Upto(PageEnd(l))
               /\ \A p \in old \cup new : p.msg \notin turn.heard
    <3>1. turn.heard \subseteq Upto(lane[l].last) /\ \A p \in old : p.msg \notin turn.heard
      BY <2>2, <2>8 DEF HeardIsBehind, Cursor, Remaining, old
    <3> QED
      BY <2>1, <2>3, <3>1
  <2>9. turn'.live => turn.live /\ turn'.lane = turn.lane /\ turn.lane \in Workers
    BY <2>2 DEF Chained
  <2>10. CASE due = {}
    <3>1. lane' = Remembered(l, PageEnd(l), kept) /\ drain' = drain
      BY <1>17, <2>10 DEF ReadInputs, due, kept, new
    <3>2. /\ lane'[l].last = PageEnd(l) /\ lane'[l].pending = kept /\ lane'[l].run = lane[l].run
          /\ \A k \in Workers \ {l} : lane'[k] = lane[k]
      BY <3>1 DEF Remembered, LaneTypes, LaneRecord
    <3>3. kept \subseteq old \cup new
      BY <2>5
    <3>4. OwnInputs(lane'[l].pending, lane'[l].last, lane'[l].run)
      BY <2>7, <3>2, <3>3 DEF OwnInputs
    <3>5. Cursor(l)' = PageEnd(l) /\ Remaining(l)' = kept /\ ~drain'[l].own
      BY <2>2, <3>1, <3>2 DEF Cursor, Remaining
    <3> QED
      BY <2>2, <2>8, <2>9, <3>1, <3>2, <3>3, <3>4, <3>5, OtherDrains
  <2>11. CASE due # {}
    <3> DEFINE read == [own |-> TRUE, last |-> PageEnd(l), due |-> due, kept |-> kept]
    <3>1. drain' = [drain EXCEPT ![l] = read] /\ lane' = lane
      BY <1>17, <2>11 DEF ReadInputs, due, kept, new
    <3>2. drain'[l] = read /\ \A k \in Workers \ {l} : drain'[k] = drain[k]
      BY <3>1 DEF LaneTypes
    <3>3. /\ drain'[l].own /\ drain'[l].last = PageEnd(l)
          /\ drain'[l].due \cup drain'[l].kept = old \cup new
      BY <2>5, <3>2
    <3> HIDE DEF read
    <3>4. Cursor(l)' = PageEnd(l) /\ Remaining(l)' = old \cup new
      BY <3>3 DEF Cursor, Remaining
    <3>5. OwnInputs(drain'[l].due \cup drain'[l].kept, drain'[l].last, lane'[l].run)
      BY <2>7, <3>1, <3>3
    <3>6. OwnInputs(lane'[l].pending, lane'[l].last, lane'[l].run)
      BY <2>4, <3>1 DEF old
    <3> QED
      BY <2>2, <2>8, <2>9, <3>1, <3>2, <3>4, <3>5, <3>6, OtherDrains
  <2> QED
    BY <2>10, <2>11
<1>18. ASSUME TurnBegins PROVE (Own /\ HeardIsBehind)'
  <2>1. inputs' = inputs /\ target' = target
    BY <1>18 DEF TurnBegins
  <2>2. \A k \in Workers :
          /\ \/ lane'[k].pending = {}
             \/ /\ lane'[k].run = lane[k].run /\ lane'[k].last = lane[k].last
                /\ lane'[k].pending = lane[k].pending
          /\ drain'[k].own => drain'[k] = drain[k] /\ lane'[k].run = lane[k].run
    BY <1>18 DEF TurnBegins, LaneTypes, LaneRecord, DrainRecord
  <2>3. turn'.live =>
          \/ turn'.heard = {}
          \/ /\ turn.live /\ turn'.lane = turn.lane /\ turn'.heard = turn.heard
             /\ drain'[turn.lane] = drain[turn.lane]
             /\ lane'[turn.lane].last = lane[turn.lane].last
             /\ lane'[turn.lane].pending = lane[turn.lane].pending
             /\ turn.lane \in Workers
    BY <1>18 DEF TurnBegins, LaneTypes, LaneRecord, DrainRecord, Chained
  <2> QED
    BY <2>1, <2>2, <2>3, InputsKept
<1>19. ASSUME NEW outcome \in {"executed", "errored"}, TurnEnds(outcome) PROVE (Own /\ HeardIsBehind)'
  <2>1. inputs' = inputs /\ target' = target
    BY <1>19 DEF TurnEnds, At, Disowned
  <2>2. \A k \in Workers :
          /\ \/ lane'[k].pending = {}
             \/ /\ lane'[k].run = lane[k].run /\ lane'[k].last = lane[k].last
                /\ lane'[k].pending = lane[k].pending
          /\ drain'[k].own => drain'[k] = drain[k] /\ lane'[k].run = lane[k].run
    BY <1>19 DEF TurnEnds, At, Disowned, LaneTypes, LaneRecord, DrainRecord
  <2>3. turn'.live =>
          \/ turn'.heard = {}
          \/ /\ turn.live /\ turn'.lane = turn.lane /\ turn'.heard = turn.heard
             /\ drain'[turn.lane] = drain[turn.lane]
             /\ lane'[turn.lane].last = lane[turn.lane].last
             /\ lane'[turn.lane].pending = lane[turn.lane].pending
             /\ turn.lane \in Workers
    BY <1>19 DEF TurnEnds, At, Disowned, LaneTypes, LaneRecord, DrainRecord, Chained, NoTurn
  <2> QED
    BY <2>1, <2>2, <2>3, InputsKept
<1>20. ASSUME ReconcileReads PROVE (Own /\ HeardIsBehind)'
  <2>1. inputs' = inputs /\ target' = target
    BY <1>20 DEF ReconcileReads
  <2>2. \A k \in Workers :
          /\ \/ lane'[k].pending = {}
             \/ /\ lane'[k].run = lane[k].run /\ lane'[k].last = lane[k].last
                /\ lane'[k].pending = lane[k].pending
          /\ drain'[k].own => drain'[k] = drain[k] /\ lane'[k].run = lane[k].run
    BY <1>20 DEF ReconcileReads, LaneTypes, LaneRecord, DrainRecord
  <2>3. turn'.live =>
          \/ turn'.heard = {}
          \/ /\ turn.live /\ turn'.lane = turn.lane /\ turn'.heard = turn.heard
             /\ drain'[turn.lane] = drain[turn.lane]
             /\ lane'[turn.lane].last = lane[turn.lane].last
             /\ lane'[turn.lane].pending = lane[turn.lane].pending
             /\ turn.lane \in Workers
    BY <1>20 DEF ReconcileReads, LaneTypes, LaneRecord, DrainRecord, Chained
  <2> QED
    BY <2>1, <2>2, <2>3, InputsKept
<1>21. ASSUME ReconcileRepairs PROVE (Own /\ HeardIsBehind)'
  <2>1. inputs' = inputs /\ target' = target
    BY <1>21 DEF ReconcileRepairs
  <2>2. \A k \in Workers :
          /\ \/ lane'[k].pending = {}
             \/ /\ lane'[k].run = lane[k].run /\ lane'[k].last = lane[k].last
                /\ lane'[k].pending = lane[k].pending
          /\ drain'[k].own => drain'[k] = drain[k] /\ lane'[k].run = lane[k].run
    BY <1>21 DEF ReconcileRepairs, LaneTypes, LaneRecord, DrainRecord
  <2>3. turn'.live =>
          \/ turn'.heard = {}
          \/ /\ turn.live /\ turn'.lane = turn.lane /\ turn'.heard = turn.heard
             /\ drain'[turn.lane] = drain[turn.lane]
             /\ lane'[turn.lane].last = lane[turn.lane].last
             /\ lane'[turn.lane].pending = lane[turn.lane].pending
             /\ turn.lane \in Workers
    BY <1>21 DEF ReconcileRepairs, LaneTypes, LaneRecord, DrainRecord, Chained
  <2> QED
    BY <2>1, <2>2, <2>3, InputsKept
<1>22. ASSUME NEW r \in Runs, OrphanLeaseExpires(r) PROVE (Own /\ HeardIsBehind)'
  <2>1. inputs' = inputs /\ target' = target
    BY <1>22 DEF OrphanLeaseExpires
  <2>2. \A k \in Workers :
          /\ \/ lane'[k].pending = {}
             \/ /\ lane'[k].run = lane[k].run /\ lane'[k].last = lane[k].last
                /\ lane'[k].pending = lane[k].pending
          /\ drain'[k].own => drain'[k] = drain[k] /\ lane'[k].run = lane[k].run
    BY <1>22 DEF OrphanLeaseExpires, LaneTypes, LaneRecord, DrainRecord
  <2>3. turn'.live =>
          \/ turn'.heard = {}
          \/ /\ turn.live /\ turn'.lane = turn.lane /\ turn'.heard = turn.heard
             /\ drain'[turn.lane] = drain[turn.lane]
             /\ lane'[turn.lane].last = lane[turn.lane].last
             /\ lane'[turn.lane].pending = lane[turn.lane].pending
             /\ turn.lane \in Workers
    BY <1>22 DEF OrphanLeaseExpires, LaneTypes, LaneRecord, DrainRecord, Chained
  <2> QED
    BY <2>1, <2>2, <2>3, InputsKept
<1>23. ASSUME NEW r \in Runs, HeldLeaseExpires(r) PROVE (Own /\ HeardIsBehind)'
  <2>1. inputs' = inputs /\ target' = target
    BY <1>23 DEF HeldLeaseExpires
  <2>2. \A k \in Workers :
          /\ \/ lane'[k].pending = {}
             \/ /\ lane'[k].run = lane[k].run /\ lane'[k].last = lane[k].last
                /\ lane'[k].pending = lane[k].pending
          /\ drain'[k].own => drain'[k] = drain[k] /\ lane'[k].run = lane[k].run
    BY <1>23 DEF HeldLeaseExpires, LaneTypes, LaneRecord, DrainRecord
  <2>3. turn'.live =>
          \/ turn'.heard = {}
          \/ /\ turn.live /\ turn'.lane = turn.lane /\ turn'.heard = turn.heard
             /\ drain'[turn.lane] = drain[turn.lane]
             /\ lane'[turn.lane].last = lane[turn.lane].last
             /\ lane'[turn.lane].pending = lane[turn.lane].pending
             /\ turn.lane \in Workers
    BY <1>23 DEF HeldLeaseExpires, LaneTypes, LaneRecord, DrainRecord, Chained
  <2> QED
    BY <2>1, <2>2, <2>3, InputsKept
<1>24. ASSUME Crash PROVE (Own /\ HeardIsBehind)'
  <2>1. inputs' = inputs /\ target' = target
    BY <1>24 DEF Crash
  <2>2. \A k \in Workers :
          /\ \/ lane'[k].pending = {}
             \/ /\ lane'[k].run = lane[k].run /\ lane'[k].last = lane[k].last
                /\ lane'[k].pending = lane[k].pending
          /\ drain'[k].own => drain'[k] = drain[k] /\ lane'[k].run = lane[k].run
    BY <1>24 DEF Crash, LaneTypes, LaneRecord, DrainRecord, Idle, NoDrain
  <2>3. turn'.live =>
          \/ turn'.heard = {}
          \/ /\ turn.live /\ turn'.lane = turn.lane /\ turn'.heard = turn.heard
             /\ drain'[turn.lane] = drain[turn.lane]
             /\ lane'[turn.lane].last = lane[turn.lane].last
             /\ lane'[turn.lane].pending = lane[turn.lane].pending
             /\ turn.lane \in Workers
    BY <1>24 DEF Crash, LaneTypes, LaneRecord, DrainRecord, Chained, NoTurn
  <2> QED
    BY <2>1, <2>2, <2>3, InputsKept
<1>25. ASSUME UNCHANGED vars PROVE (Own /\ HeardIsBehind)'
  BY <1>25, InputsKept DEF vars
<1> QED
  BY <1>1, <1>2, <1>3, <1>4, <1>5, <1>6, <1>7, <1>8, <1>9, <1>10, <1>11, <1>12, <1>13, <1>14, <1>15, <1>16, <1>17, <1>18, <1>19, <1>20, <1>21, <1>22, <1>23, <1>24, <1>25 DEF Next, Handle, LaneStep

-----------------------------------------------------------------------------
\* An untouched thread satisfies the invariant.
LEMMA ThreadBegins == Init => ThreadInv
<1> SUFFICES ASSUME Init PROVE ThreadInv
  OBVIOUS
<1> USE DEF Init
<1>1. StoreTypeOK
  BY StoreAssumption DEF StoreInit, StoreTypeOK
<1>2. BotTypes
  BY DEF BotTypes, Handling, IsInjective
<1>3. LaneTypes
  BY DEF LaneTypes, LaneRecord, DrainRecord, LaneStates, Idle, NoDrain
<1>4. ChainTypes
  BY DEF ChainTypes, NoTurn, IsInjective
<1>5. LoopTypes
  BY RunThreadAssumption DEF LoopTypes
<1>6. Drains /\ Chained
  BY DEF Drains, Chained, NoTurn, NoDrain, Idle, ToSet
<1>7. Streamed
  BY DEF Streamed, ToSet
<1>8. Own /\ HeardIsBehind
  BY DEF Own, OwnInputs, HeardIsBehind, NoTurn, NoDrain, Idle
<1> QED
  BY <1>1, <1>2, <1>3, <1>4, <1>5, <1>6, <1>7, <1>8, TypeParts DEF ThreadInv

\* The invariant holds of every reachable state.
LEMMA ThreadInvariant == Spec => []ThreadInv
<1>1. ASSUME ThreadInv, [Next]_vars PROVE ThreadInv'
  <2>1. StoreTypeOK' /\ BotTypes' /\ LaneTypes' /\ ChainTypes' /\ LoopTypes'
    BY <1>1, StoreStep, BotStep, LanesTyped, ChainTyped, LoopTyped DEF ThreadInv
  <2>2. TypeOK'
    BY <2>1 DEF TypeOK, StoreTypeOK, BotTypes, LaneTypes, ChainTypes, LoopTypes,
                LaneRecord, DrainRecord
  <2>3. Drains' /\ Chained' /\ Streamed' /\ Own' /\ HeardIsBehind'
    BY <1>1, DrainsStep, ChainedStep, StreamedStep, InputsStep DEF ThreadInv
  <2> QED
    BY <2>2, <2>3 DEF ThreadInv
<1> QED
  BY <1>1, ThreadBegins, PTL DEF Spec

\* Inputs, drains, lanes and the chain of operations keep their shape: a message
\* is in the stream once, and no lane waits in the chain twice
\* (leased-run-machine.ts, pi-session-manager.ts).
THEOREM ThreadTypes == Spec => []TypeOK
  BY ThreadInvariant, PTL DEF ThreadInv

\* Whatever a drain could not apply, whatever its page, and whoever took the run
\* over in between, a lane steers its turn with an input once
\* (leased-run-machine.ts, drainInputs).
THEOREM InputsAreHeardOnce == Spec => InputsHeardOnce
<1>1. ASSUME ThreadInv, [Next]_vars
      PROVE  [ \A l \in Workers : \A x \in drain[l].due :
                 Steers(l, x) /\ turn.live /\ turn.lane = l => x.msg \notin turn.heard ]_vars
  <2>1. SUFFICES ASSUME NEW l \in Workers, NEW x \in drain[l].due, turn.live, turn.lane = l
                 PROVE  x.msg \notin turn.heard
    OBVIOUS
  <2>2. drain[l].own
    <3>1. lane[l].at = "executing" /\ drain[l] # NoDrain
      BY <1>1, <2>1 DEF ThreadInv, Chained, NoDrain
    <3> QED
      BY <1>1, <3>1 DEF ThreadInv, Drains
  <2>3. x \in Remaining(l)
    BY <2>2 DEF Remaining
  <2> QED
    BY <1>1, <2>1, <2>3 DEF ThreadInv, HeardIsBehind
<1> QED
  BY <1>1, ThreadInvariant, PTL DEF Spec, InputsHeardOnce

\* An input that a lane applies while it owns its run does not reach the turn of
\* another run, unless that turn's lane has lost its run
\* (leased-run-machine.ts, drainInputs; discord-bot.ts, applyInput).
THEOREM InputsReachTheirRun == Spec => InputsStayWithTheirRun
<1>1. ASSUME ThreadInv, [Next]_vars
      PROVE  [ \A l \in Workers : \A x \in drain[l].due :
                 Steers(l, x) /\ drain[l].own /\ Owned(l) /\ Owns(turn.lane, turn.run) =>
                   turn.run = target[x.msg] ]_vars
  <2>1. SUFFICES ASSUME NEW l \in Workers, NEW x \in drain[l].due, turn # NoTurn,
                        drain[l].own, Owned(l), Owns(turn.lane, turn.run)
                 PROVE  turn.run = target[x.msg]
    BY DEF Steers
  <2>2. target[x.msg] = lane[l].run
    BY <1>1, <2>1 DEF ThreadInv, Own, OwnInputs
  <2>3. lane[l].run \in Runs /\ turn.run \in Runs
    <3>1. lane[l].at \in {"draining", "executing"}
      BY <1>1, <2>1 DEF ThreadInv, Drains
    <3> QED
      BY <1>1, <2>1, <3>1, RunFacts DEF ThreadInv, Chained
  <2>4. active[Thread] = lane[l].run /\ active[Thread] = turn.run
    BY <1>1, <2>1, <2>3, RunFacts DEF ThreadInv, Owned, Owns, IsActive
  <2> QED
    BY <2>2, <2>4
<1> QED
  BY <1>1, ThreadInvariant, PTL DEF Spec, InputsStayWithTheirRun

===============================================================================
