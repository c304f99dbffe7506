--------------------------- MODULE DriftProofs ---------------------------
(***************************************************************************)
(* Proofs about Capture, for every set of requests, with and without an    *)
(* extractor, and whether inserts fail or not; and, below, about Drift,    *)
(* whose steps are those of Capture and its own, for every set of requests *)
(* and projects, every interval and every set of scores.                   *)
(***************************************************************************)
EXTENDS Drift, OrderLemmas, FiniteSetTheorems, TLAPS

\* Every step keeps the state well typed.
LEMMA CaptureTypeStep == CaptureTypeOK /\ [CaptureNext]_captureVars => CaptureTypeOK'
<1> SUFFICES ASSUME CaptureTypeOK, [CaptureNext]_captureVars
             PROVE  CaptureTypeOK'
  OBVIOUS
<1> USE LargeAssumption DEF CaptureTypeOK, storeVars, historyVars, Done
<1>1. ASSUME NEW h \in Requests, HandlerStep(h)
      PROVE  CaptureTypeOK'
  BY <1>1 DEF HandlerStep, Arrive, Answer, Record, Return
<1>2. ASSUME NEW h \in Requests, WriterStep(h)
      PROVE  CaptureTypeOK'
  <2>1. h \in Large
    BY <1>2 DEF WriterStep, CreateTask, CreateFails, Enrich, EnrichFails
  <2> QED
    BY <1>2, <2>1 DEF WriterStep, CreateTask, CreateFails, Enrich, EnrichFails
<1>3. ASSUME ServerStep
      PROVE  CaptureTypeOK'
  BY <1>3 DEF ServerStep, Signal, ListenerFails, Drain, Wait, Resume, CloseStore, Exit
<1>4. CASE UNCHANGED captureVars
  BY <1>4 DEF captureVars
<1> QED
  BY <1>1, <1>2, <1>3, <1>4 DEF CaptureNext

\* Every reachable state of the capture and of the shutdown is well typed.
THEOREM CaptureTypeCorrect == CaptureSafety => []CaptureTypeOK
<1>1. CaptureInit => CaptureTypeOK
  BY DEF CaptureInit, CaptureTypeOK
<1> QED
  BY <1>1, CaptureTypeStep, PTL DEF CaptureSafety

-----------------------------------------------------------------------------

\* What RecordedIsWritten rests on: a goroutine starts once its handler has
\* answered and never again; while the store is open a goroutine past its
\* insert has left its row or is counted as dropped; and what shutdown awaits
\* has a goroutine.
WritingInv ==
  /\ \A h \in Requests :
       handler[h] \in {"idle", "forward", "answered"} => writer[h] = "none"
  /\ StoreOpen =>
       \A h \in Requests :
         writer[h] \in {"enrich", "done"} => h \in Rows \/ h \in dropped
  /\ \A h \in awaited : writer[h] # "none"
  /\ server \in {"released", "closing"} => \A h \in awaited : writer[h] = "done"

\* Appending keeps the rows and adds one.
LEMMA RowsAppend ==
  ASSUME CaptureTypeOK, NEW h \in Large, tasks' = Append(tasks, h)
  PROVE  Rows' = Rows \cup {h}
BY DEF CaptureTypeOK, Rows

\* A handler's step keeps the invariant: Record finds no goroutine of its
\* request and adds to what is awaited only before Wait is called.
LEMMA HandlerKeeps ==
  ASSUME CaptureTypeOK, WritingInv, NEW h \in Requests, HandlerStep(h)
  PROVE  WritingInv'
<1> USE LargeAssumption DEF CaptureTypeOK, WritingInv, storeVars, historyVars, Rows, StoreOpen
<1>1. CASE Arrive(h) \/ Answer(h) \/ Return(h)
  BY <1>1 DEF Arrive, Answer, Return
<1>2. CASE Record(h)
  BY <1>2 DEF Record
<1> QED
  BY <1>1, <1>2 DEF HandlerStep

\* The end of a goroutine keeps what is said of the awaited captures: the last
\* one to end is the one that releases Wait.
LEMMA DoneKeeps ==
  ASSUME CaptureTypeOK, WritingInv, NEW h \in Requests,
         writer[h] \in {"create", "enrich"}, Done(h), UNCHANGED <<handler, awaited>>
  PROVE  /\ \A g \in Requests :
              handler'[g] \in {"idle", "forward", "answered"} => writer'[g] = "none"
         /\ \A g \in awaited' : writer'[g] # "none"
         /\ server' \in {"released", "closing"} => \A g \in awaited' : writer'[g] = "done"
         /\ StoreOpen' = StoreOpen
<1> USE LargeAssumption DEF CaptureTypeOK, WritingInv
<1>1. CASE server = "blocked" /\ Writing = {h}
  BY <1>1 DEF Done, Writing, StoreOpen
<1>2. CASE ~(server = "blocked" /\ Writing = {h})
  BY <1>2 DEF Done, StoreOpen
<1> QED
  BY <1>1, <1>2

\* A goroutine's step keeps the invariant.
LEMMA WriterKeeps ==
  ASSUME CaptureTypeOK, WritingInv, NEW h \in Requests, WriterStep(h)
  PROVE  WritingInv'
<1> USE LargeAssumption
<1>1. CASE CreateTask(h)
  <2>1. h \in Large /\ writer[h] = "create" /\ tasks' = Append(tasks, h)
    BY <1>1 DEF CreateTask, CaptureTypeOK
  <2>2. Rows' = Rows \cup {h}
    BY <2>1, RowsAppend
  <2>3. CASE Extractor
    BY <1>1, <2>1, <2>2, <2>3 DEF CreateTask, CaptureTypeOK, WritingInv, historyVars, StoreOpen
  <2>4. CASE ~Extractor
    <3>1. Done(h) /\ UNCHANGED <<handler, awaited, dropped>>
      BY <1>1, <2>4 DEF CreateTask, historyVars
    <3>2. \A g \in Requests :
            writer'[g] \in {"enrich", "done"} /\ g # h => writer[g] \in {"enrich", "done"}
      BY <3>1 DEF Done, CaptureTypeOK
    <3> QED
      BY <1>1, <2>1, <2>2, <3>1, <3>2, DoneKeeps DEF CreateTask, WritingInv
  <2> QED
    BY <2>3, <2>4
<1>2. CASE CreateFails(h) \/ Enrich(h) \/ EnrichFails(h)
  <2>1. Done(h) /\ UNCHANGED <<handler, awaited, tasks>> /\ writer[h] \in {"create", "enrich"}
    BY <1>2 DEF CreateFails, Enrich, EnrichFails, storeVars, historyVars
  <2>2. Rows' = Rows
    BY <2>1 DEF Rows
  <2>3. \A g \in Requests :
          writer'[g] \in {"enrich", "done"} /\ g # h => writer[g] \in {"enrich", "done"}
    BY <2>1 DEF Done, CaptureTypeOK
  <2>4. dropped \subseteq dropped'
    BY <1>2 DEF CreateFails, Enrich, EnrichFails, historyVars
  <2>5. StoreOpen => h \in Rows \/ h \in dropped'
    BY <1>2, <2>4 DEF CreateFails, Enrich, EnrichFails, WritingInv
  <2> QED
    BY <2>1, <2>2, <2>3, <2>4, <2>5, DoneKeeps DEF WritingInv
<1> QED
  BY <1>1, <1>2 DEF WriterStep

\* A step of the shutdown keeps the invariant: Wait and Resume go on to closing
\* only when no goroutine is left, and the store is never opened again.
LEMMA ServerKeeps ==
  ASSUME CaptureTypeOK, WritingInv, ServerStep
  PROVE  WritingInv'
<1>1. UNCHANGED <<handler, writer, tasks, awaited, dropped>>
  BY DEF ServerStep, Signal, ListenerFails, Drain, Wait, Resume, CloseStore, Exit,
         storeVars, historyVars
<1>2. StoreOpen' => StoreOpen
  BY DEF ServerStep, Signal, ListenerFails, Drain, Wait, Resume, CloseStore, Exit, StoreOpen
<1>3. server' \in {"released", "closing"} => Writing = {}
  BY DEF ServerStep, Signal, ListenerFails, Drain, Wait, Resume, CloseStore, Exit
<1>4. \A h \in awaited : Writing = {} => writer[h] = "done"
  BY LargeAssumption DEF Writing, CaptureTypeOK, WritingInv
<1> QED
  BY <1>1, <1>2, <1>3, <1>4 DEF WritingInv, Rows

\* Whatever handlers outlive the deadline, what was recorded before Wait was
\* called is written when it is released or returns.
THEOREM RecordedIsWrittenThm == CaptureSafety => []RecordedIsWritten
<1>1. CaptureInit => WritingInv
  BY DEF CaptureInit, WritingInv
<1>2. CaptureTypeOK /\ WritingInv /\ [CaptureNext]_captureVars => WritingInv'
  <2> SUFFICES ASSUME CaptureTypeOK, WritingInv, [CaptureNext]_captureVars
               PROVE  WritingInv'
    OBVIOUS
  <2>1. CASE UNCHANGED captureVars
    BY <2>1 DEF captureVars, WritingInv, Rows, StoreOpen, storeVars, historyVars
  <2> QED
    BY <2>1, HandlerKeeps, WriterKeeps, ServerKeeps DEF CaptureNext
<1>3. CaptureTypeOK /\ WritingInv => RecordedIsWritten
  BY LargeAssumption DEF CaptureTypeOK, WritingInv, RecordedIsWritten, StoreOpen
<1> QED
  BY <1>1, <1>2, <1>3, CaptureTypeCorrect, PTL DEF CaptureSafety

\* The end of a goroutine leaves another one, or releases Wait.
LEMMA DoneWakes ==
  ASSUME CaptureTypeOK, NoLostWakeup, NEW h \in Requests,
         writer[h] \in {"create", "enrich"}, Done(h)
  PROVE  NoLostWakeup'
<1>1. Writing' = Writing \ {h}
  BY DEF Done, Writing, CaptureTypeOK
<1>2. CASE server = "blocked" /\ Writing = {h}
  BY <1>2 DEF Done, NoLostWakeup
<1>3. CASE ~(server = "blocked" /\ Writing = {h})
  <2>1. server' = server
    BY <1>3 DEF Done
  <2>2. h \in Writing
    BY DEF Writing
  <2> QED
    BY <1>1, <1>3, <2>1, <2>2 DEF NoLostWakeup
<1> QED
  BY <1>2, <1>3

\* Shutdown never waits for nobody, however many handlers outlive the deadline
\* and record while it waits (capture.go, Record and Wait).
THEOREM NoLostWakeupThm == CaptureSafety => []NoLostWakeup
<1>1. CaptureInit => NoLostWakeup
  BY DEF CaptureInit, NoLostWakeup
<1>2. CaptureTypeOK /\ NoLostWakeup /\ [CaptureNext]_captureVars => NoLostWakeup'
  <2> SUFFICES ASSUME CaptureTypeOK, NoLostWakeup, [CaptureNext]_captureVars
               PROVE  NoLostWakeup'
    OBVIOUS
  <2>1. ASSUME NEW h \in Requests, HandlerStep(h)
        PROVE  NoLostWakeup'
    <3>1. server' = server /\ Writing \subseteq Writing'
      BY <2>1 DEF HandlerStep, Arrive, Answer, Record, Return, Writing, CaptureTypeOK
    <3> QED
      BY <3>1 DEF NoLostWakeup
  <2>2. ASSUME NEW h \in Requests, WriterStep(h)
        PROVE  NoLostWakeup'
    <3>1. CASE CreateTask(h) /\ Extractor
      <4>1. server' = server /\ Writing' = Writing
        BY <3>1 DEF CreateTask, Writing, CaptureTypeOK
      <4> QED
        BY <4>1 DEF NoLostWakeup
    <3>2. CASE ~(CreateTask(h) /\ Extractor)
      <4>1. writer[h] \in {"create", "enrich"} /\ Done(h)
        BY <2>2, <3>2 DEF WriterStep, CreateTask, CreateFails, Enrich, EnrichFails
      <4> QED
        BY <4>1, DoneWakes
    <3> QED
      BY <3>1, <3>2
  <2>3. ASSUME ServerStep
        PROVE  NoLostWakeup'
    BY <2>3 DEF ServerStep, Signal, ListenerFails, Drain, Wait, Resume, CloseStore, Exit,
                NoLostWakeup, Writing
  <2>4. CASE UNCHANGED captureVars
    BY <2>4 DEF captureVars, NoLostWakeup, Writing
  <2> QED
    BY <2>1, <2>2, <2>3, <2>4 DEF CaptureNext
<1> QED
  BY <1>1, <1>2, CaptureTypeCorrect, PTL DEF CaptureSafety

-----------------------------------------------------------------------------

\* A drift step is a capture step or leaves the captures alone.
LEMMA StepsCapture == [Next]_vars => [CaptureNext]_captureVars
BY DEF Next, DriftArrive, Tick, CheckStep, ListTasks, ScoreAction, BuildCorrection, Persist,
       QueueCorrection, GiveUp, CheckAt, CaptureNext, HandlerStep, vars, captureVars

\* Drift checks change nothing of the captures and the shutdown: what holds of
\* Capture holds beside them.
THEOREM CaptureImplemented == Spec => CaptureSafety
<1>1. Init => CaptureInit
  BY DEF Init
<1> QED
  BY <1>1, StepsCapture, PTL DEF Spec, CaptureSafety

\* With drift checks under way too, what was recorded before Wait is written
\* when it is released, and Wait never blocks for nobody.
THEOREM ShutdownBesideChecks == Spec => [](RecordedIsWritten /\ NoLostWakeup)
BY CaptureImplemented, RecordedIsWrittenThm, NoLostWakeupThm, PTL

\* Rows that are filled in stay so.
LEMMA EnrichedGrows == [CaptureNext]_captureVars => enriched \subseteq enriched'
BY DEF CaptureNext, HandlerStep, Arrive, Answer, Record, Return, WriterStep, CreateTask,
       CreateFails, Enrich, EnrichFails, ServerStep, Signal, ListenerFails, Drain, Wait,
       Resume, CloseStore, Exit, captureVars, storeVars

\* The newest of some rows is one of them.
LEMMA NewestIsOne ==
  ASSUME CaptureTypeOK, NEW S, S \subseteq Rows, S # {}
  PROVE  Newest(S) \in S
<1> DEFINE I == {i \in DOMAIN tasks : tasks[i] \in S}
<1>1. Len(tasks) \in Nat /\ I \subseteq 0..Len(tasks) /\ I # {}
  BY DEF CaptureTypeOK, Rows
<1>2. PICK i \in I : \A j \in I : j <= i
  <2> HIDE DEF I
  <2> QED
    BY <1>1, Greatest
<1>3. tasks[i] \in S /\ \A j \in DOMAIN tasks : tasks[j] \in S => j <= i
  BY <1>2
<1> QED
  BY <1>2, <1>3 DEF Newest

-----------------------------------------------------------------------------

\* A step of one check that leaves the queue alone keeps the types it does not
\* touch.
LEMMA CheckTyped ==
  ASSUME TypeOK, NEW h \in Requests, CheckStep(h)
  PROVE  /\ check' \in [Requests -> {"none", "list", "score", "build", "log", "draft", "queue", "done"}]
         /\ count' \in Nat
         /\ verdicts' \in [{"steps", "drift_log"} -> SUBSET Requests]
<1>1. count' = count
  BY DEF CheckStep, ListTasks, ScoreAction, BuildCorrection, Persist, QueueCorrection, GiveUp
<1>2. \E at, next \in {"list", "score", "build", "log", "draft", "queue", "done"} :
        CheckAt(h, at, next)
  BY DEF CheckStep, ListTasks, ScoreAction, BuildCorrection, Persist, QueueCorrection, GiveUp
<1>3. check' \in [Requests -> {"none", "list", "score", "build", "log", "draft", "queue", "done"}]
  BY <1>2 DEF CheckAt, TypeOK
<1>4. verdicts' \in [{"steps", "drift_log"} -> SUBSET Requests]
  <2>1. verdicts \in [{"steps", "drift_log"} -> SUBSET Requests]
    BY DEF TypeOK
  <2>2. CASE Persist(h)
    BY <2>1, <2>2 DEF Persist
  <2> QED
    BY <2>1, <2>2
    DEF CheckStep, ListTasks, ScoreAction, BuildCorrection, QueueCorrection, GiveUp
<1> QED
  BY <1>1, <1>3, <1>4 DEF TypeOK

\* A check finds a row of its project that is filled in.
LEMMA GoalFound ==
  ASSUME TypeOK, NEW h \in Requests, ListTasks(h)
  PROVE  /\ goalFrom' = [goalFrom EXCEPT ![h] = Newest(RowsOf(h) \cap enriched)]
         /\ Newest(RowsOf(h) \cap enriched) \in RowsOf(h) \cap enriched
<1>1. RowsOf(h) \cap enriched \subseteq Rows /\ RowsOf(h) \cap enriched # {}
  BY DEF ListTasks, RowsOf
<1>2. CaptureTypeOK
  BY DEF TypeOK
<1> QED
  BY <1>1, <1>2, NewestIsOne DEF ListTasks

\* The goal a check takes is a row of the store.
LEMMA GoalTyped ==
  ASSUME TypeOK, NEW h \in Requests, CheckStep(h)
  PROVE  goalFrom' \in [Requests -> Requests \cup {NoRow}]
<1>1. goalFrom \in [Requests -> Requests \cup {NoRow}] /\ enriched \subseteq Requests
  BY LargeAssumption DEF TypeOK, CaptureTypeOK
<1>2. CASE ListTasks(h)
  BY <1>1, <1>2, GoalFound
<1> QED
  BY <1>1, <1>2 DEF CheckStep, ScoreAction, BuildCorrection, Persist, QueueCorrection, GiveUp

\* Scores are given once, and the counter of the project moves by one and never
\* below its floor.
LEMMA ScoreTyped ==
  ASSUME TypeOK, NEW h \in Requests, CheckStep(h)
  PROVE  score' \in [Requests -> Scores \cup {0}] /\ escalations' \in [Projects -> Nat]
<1>1. score \in [Requests -> Scores \cup {0}] /\ escalations \in [Projects -> Nat]
  BY DEF TypeOK
<1>2. CASE ScoreAction(h)
  <2>1. PICK n \in Scores :
          /\ score' = [score EXCEPT ![h] = n]
          /\ Escalate(ProjectOf[h], Level(n))
    BY <1>2 DEF ScoreAction
  <2>2. score' \in [Requests -> Scores \cup {0}]
    BY <1>1, <2>1
  <2>3. PICK p \in Projects : Escalate(p, Level(n))
    BY <2>1, ProjectOfAssumption
  <2>4. escalations' \in [Projects -> Nat]
    BY <1>1, <2>3 DEF Escalate
  <2> QED
    BY <2>2, <2>4
<1> QED
  BY <1>1, <1>2 DEF CheckStep, ListTasks, BuildCorrection, Persist, QueueCorrection, GiveUp

\* A check queues itself, under its own project.
LEMMA QueueTyped ==
  ASSUME TypeOK, NEW h \in Requests, CheckStep(h)
  PROVE  /\ DOMAIN corrections' \subseteq Projects
         /\ corrections' \in [DOMAIN corrections' -> Requests]
         /\ spliced' = spliced
<1>1. DOMAIN corrections \subseteq Projects /\ corrections \in [DOMAIN corrections -> Requests]
  BY DEF TypeOK
<1>2. CASE QueueCorrection(h)
  <2>1. PICK p \in Projects : p = ProjectOf[h]
    BY ProjectOfAssumption
  <2>2. corrections' = With(corrections, p, h) /\ spliced' = spliced
    BY <1>2, <2>1 DEF QueueCorrection
  <2> QED
    BY <1>1, <2>1, <2>2 DEF With
<1>3. CASE ~QueueCorrection(h)
  <2>1. UNCHANGED queueVars
    BY <1>3 DEF CheckStep, ListTasks, ScoreAction, BuildCorrection, Persist, GiveUp
  <2> QED
    BY <1>1, <2>1 DEF queueVars
<1> QED
  BY <1>2, <1>3

\* Taking a correction keeps the queue and the record of splices typed.
LEMMA ConsumeTyped ==
  ASSUME TypeOK, NEW h \in Requests, Consume(h)
  PROVE  /\ DOMAIN corrections' \subseteq Projects
         /\ corrections' \in [DOMAIN corrections' -> Requests]
         /\ DOMAIN spliced' \subseteq Requests
         /\ spliced' \in [DOMAIN spliced' -> Requests]
<1>1. /\ DOMAIN corrections \subseteq Projects /\ corrections \in [DOMAIN corrections -> Requests]
      /\ DOMAIN spliced \subseteq Requests /\ spliced \in [DOMAIN spliced -> Requests]
  BY DEF TypeOK
<1>2. CASE UNCHANGED queueVars
  BY <1>1, <1>2 DEF queueVars
<1>3. CASE ProjectOf[h] \in DOMAIN corrections
  <2>1. PICK p \in DOMAIN corrections : p = ProjectOf[h]
    BY <1>3
  <2>2. corrections' = Without(corrections, p)
        /\ (spliced' = With(spliced, h, corrections[p]) \/ spliced' = spliced)
    BY <2>1 DEF Consume
  <2>3. DOMAIN corrections' \subseteq Projects /\ corrections' \in [DOMAIN corrections' -> Requests]
    BY <1>1, <2>2 DEF Without
  <2>4. corrections[p] \in Requests
    BY <1>1
  <2>5. DOMAIN spliced' \subseteq Requests /\ spliced' \in [DOMAIN spliced' -> Requests]
    BY <1>1, <2>2, <2>4 DEF With
  <2> QED
    BY <2>3, <2>5
<1> QED
  BY <1>2, <1>3 DEF Consume

\* Every step keeps the types.
LEMMA DriftTypeStep == TypeOK /\ [Next]_vars => TypeOK'
<1> SUFFICES ASSUME TypeOK, [Next]_vars
             PROVE  TypeOK'
  OBVIOUS
<1>1. CaptureTypeOK'
  BY StepsCapture, CaptureTypeStep DEF TypeOK
<1>2. ASSUME NEW h \in Requests, DriftArrive(h)
      PROVE  TypeOK'
  BY <1>1, <1>2, ConsumeTyped DEF DriftArrive, TypeOK, checkVars
<1>3. ASSUME NEW h \in Requests, Tick(h)
      PROVE  TypeOK'
  BY <1>1, <1>3 DEF Tick, TypeOK, queueVars
<1>4. ASSUME NEW h \in Requests, CheckStep(h)
      PROVE  TypeOK'
  BY <1>1, <1>4, CheckTyped, GoalTyped, ScoreTyped, QueueTyped DEF TypeOK
<1>5. CASE UNCHANGED driftVars
  BY <1>1, <1>5 DEF driftVars, checkVars, queueVars, TypeOK
<1> QED
  BY <1>2, <1>3, <1>4, <1>5 DEF Next, vars

\* Every reachable state of the drift checks is well typed.
THEOREM TypeCorrect == Spec => []TypeOK
<1>1. Init => TypeOK
  <2> SUFFICES ASSUME Init PROVE TypeOK
    OBVIOUS
  <2>1. CaptureTypeOK
    BY DEF Init, CaptureInit, CaptureTypeOK
  <2>2. /\ corrections \in [DOMAIN corrections -> Requests] /\ DOMAIN corrections = {}
        /\ spliced \in [DOMAIN spliced -> Requests] /\ DOMAIN spliced = {}
    BY DEF Init
  <2> QED
    BY <2>1, <2>2 DEF Init, TypeOK
<1> QED
  BY <1>1, DriftTypeStep, PTL DEF Spec

-----------------------------------------------------------------------------

\* A request is checked after its handler has ended; a correction that is
\* queued or was spliced in belongs to a check that is over, and a queued one
\* to its project.
QueueInv ==
  /\ \A h \in Requests : handler[h] # "returned" => check[h] = "none"
  /\ \A p \in DOMAIN corrections :
       check[corrections[p]] = "done" /\ ProjectOf[corrections[p]] = p
  /\ \A r \in DOMAIN spliced : check[spliced[r]] = "done"
  /\ CorrectionUsedOnce

\* A step that changes the check of a request it finds unfinished disturbs no
\* correction.
LEMMA ChecksUndisturbed ==
  ASSUME TypeOK, QueueInv, NEW h \in Requests, check[h] # "done",
         \A g \in Requests \ {h} : check'[g] = check[g],
         UNCHANGED queueVars
  PROVE  /\ \A p \in DOMAIN corrections' :
              check'[corrections'[p]] = "done" /\ ProjectOf[corrections'[p]] = p
         /\ \A r \in DOMAIN spliced' : check'[spliced'[r]] = "done"
         /\ CorrectionUsedOnce'
<1>1. UNCHANGED <<corrections, spliced>>
  BY DEF queueVars
<1>2. /\ \A p \in DOMAIN corrections : corrections[p] \in Requests \ {h}
      /\ \A r \in DOMAIN spliced : spliced[r] \in Requests \ {h}
  BY DEF QueueInv, TypeOK
<1> QED
  BY <1>1, <1>2 DEF QueueInv, CorrectionUsedOnce

\* Taking a correction from the queue keeps the queue invariant: what is spliced in
\* is queued no more.
LEMMA ConsumeKeepsQueue ==
  ASSUME TypeOK, QueueInv, NEW h \in Requests, DriftArrive(h)
  PROVE  QueueInv'
<1>1. check' = check /\ \A g \in Requests : handler'[g] # "returned" => handler[g] # "returned"
  BY DEF DriftArrive, Arrive, checkVars, TypeOK, CaptureTypeOK
<1>2. CASE UNCHANGED queueVars
  BY <1>1, <1>2 DEF queueVars, QueueInv, CorrectionUsedOnce
<1>3. CASE ProjectOf[h] \in DOMAIN corrections
  <2> DEFINE p == ProjectOf[h]
  <2>1. corrections' = Without(corrections, p)
        /\ (spliced' = With(spliced, h, corrections[p]) \/ spliced' = spliced)
    BY <1>3 DEF DriftArrive, Consume
  <2>2. /\ DOMAIN corrections' = DOMAIN corrections \ {p}
        /\ \A q \in DOMAIN corrections' : corrections'[q] = corrections[q]
    BY <2>1 DEF Without
  <2>3. /\ DOMAIN spliced' \subseteq DOMAIN spliced \cup {h}
        /\ \A r \in DOMAIN spliced' :
             \/ r = h /\ spliced'[r] = corrections[p]
             \/ r \in DOMAIN spliced /\ spliced'[r] = spliced[r]
    BY <2>1 DEF With
  <2>4. \A q \in DOMAIN corrections' : corrections[q] # corrections[p]
    BY <2>2, <1>3 DEF QueueInv
  <2>5. \A q \in DOMAIN corrections' :
          check'[corrections'[q]] = "done" /\ ProjectOf[corrections'[q]] = q
    BY <1>1, <2>2 DEF QueueInv
  <2>6. \A r \in DOMAIN spliced' : check'[spliced'[r]] = "done"
    BY <1>1, <1>3, <2>3 DEF QueueInv
  <2>7. CorrectionUsedOnce'
    BY <1>3, <2>2, <2>3, <2>4 DEF QueueInv, CorrectionUsedOnce
  <2> QED
    BY <1>1, <2>5, <2>6, <2>7 DEF QueueInv
<1> QED
  BY <1>2, <1>3 DEF DriftArrive, Consume

\* The end of a handler begins a check that was not begun before.
LEMMA TickKeeps ==
  ASSUME TypeOK, QueueInv, NEW h \in Requests, Tick(h)
  PROVE  QueueInv'
<1> check \in [Requests -> {"none", "list", "score", "build", "log", "draft", "queue", "done"}]
  BY DEF TypeOK
<1>1. handler[h] = "recorded" /\ handler' = [handler EXCEPT ![h] = "returned"]
  BY DEF Tick, Return
<1>2. check[h] = "none"
  BY <1>1 DEF QueueInv
<1>3. \A g \in Requests \ {h} : check'[g] = check[g]
  BY DEF Tick, TypeOK
<1>4. \A g \in Requests : handler'[g] # "returned" => check'[g] = "none"
  BY <1>1, <1>3 DEF QueueInv, TypeOK, CaptureTypeOK
<1>5. UNCHANGED queueVars
  BY DEF Tick
<1> QED
  BY <1>2, <1>3, <1>4, <1>5, ChecksUndisturbed DEF QueueInv

\* A check puts its own correction into the queue, once.
LEMMA CheckKeeps ==
  ASSUME TypeOK, QueueInv, NEW h \in Requests, CheckStep(h)
  PROVE  QueueInv'
<1>1. /\ check[h] \notin {"none", "done"}
      /\ \A g \in Requests \ {h} : check'[g] = check[g]
      /\ UNCHANGED captureVars
  BY DEF CheckStep, ListTasks, ScoreAction, BuildCorrection, Persist, QueueCorrection, GiveUp,
         CheckAt, TypeOK
<1>2. handler[h] = "returned" /\ handler' = handler
  BY <1>1 DEF QueueInv, captureVars
<1>3. \A g \in Requests : handler'[g] # "returned" => check'[g] = "none"
  BY <1>1, <1>2 DEF QueueInv
<1>4. CASE UNCHANGED queueVars
  BY <1>1, <1>3, <1>4, ChecksUndisturbed DEF QueueInv
<1>5. CASE QueueCorrection(h)
  <2> DEFINE p == ProjectOf[h]
  <2>1. /\ check' = [check EXCEPT ![h] = "done"] /\ spliced' = spliced
        /\ corrections' = With(corrections, p, h)
    BY <1>5 DEF QueueCorrection, CheckAt
  <2>2. /\ DOMAIN corrections' = DOMAIN corrections \cup {p}
        /\ \A q \in DOMAIN corrections' :
             IF q = p THEN corrections'[q] = h
                      ELSE q \in DOMAIN corrections /\ corrections'[q] = corrections[q]
    BY <2>1 DEF With
  <2>3. \A g \in Requests : check'[g] = "done" <=> check[g] = "done" \/ g = h
    BY <2>1 DEF TypeOK
  <2>4. /\ \A q \in DOMAIN corrections : corrections[q] \in Requests
        /\ \A r \in DOMAIN spliced : spliced[r] \in Requests /\ spliced[r] # h
    BY <1>1 DEF TypeOK, QueueInv
  <2>5. \A q \in DOMAIN corrections' :
          check'[corrections'[q]] = "done" /\ ProjectOf[corrections'[q]] = q
    BY <2>2, <2>3, <2>4 DEF QueueInv
  <2>6. \A r \in DOMAIN spliced' : check'[spliced'[r]] = "done"
    BY <2>1, <2>3, <2>4 DEF QueueInv
  <2>7. CorrectionUsedOnce'
    BY <2>1, <2>2, <2>4 DEF QueueInv, CorrectionUsedOnce
  <2> QED
    BY <1>3, <2>5, <2>6, <2>7 DEF QueueInv
<1> QED
  BY <1>4, <1>5
  DEF CheckStep, ListTasks, ScoreAction, BuildCorrection, Persist, GiveUp, queueVars

\* Steps of the captures leave the queue invariant alone.
LEMMA CaptureKeeps ==
  ASSUME TypeOK, QueueInv, UNCHANGED driftVars,
         \A h \in Requests : handler'[h] # "returned" => handler[h] # "returned"
  PROVE  QueueInv'
BY DEF driftVars, checkVars, queueVars, QueueInv, CorrectionUsedOnce

\* Every step keeps the queue invariant.
LEMMA QueueStep ==
  ASSUME TypeOK, QueueInv, [Next]_vars
  PROVE  QueueInv'
<1>1. ASSUME NEW h \in Requests, Answer(h) \/ Record(h) \/ WriterStep(h)
      PROVE  \A g \in Requests : handler'[g] # "returned" => handler[g] # "returned"
  BY <1>1 DEF Answer, Record, WriterStep, CreateTask, CreateFails, Enrich, EnrichFails,
              TypeOK, CaptureTypeOK
<1>2. ASSUME ServerStep \/ UNCHANGED vars
      PROVE  \A g \in Requests : handler'[g] # "returned" => handler[g] # "returned"
  BY <1>2 DEF ServerStep, Signal, ListenerFails, Drain, Wait, Resume, CloseStore, Exit, vars,
              captureVars
<1>3. UNCHANGED vars => UNCHANGED driftVars
  BY DEF vars
<1> QED
  BY <1>1, <1>2, <1>3, ConsumeKeepsQueue, TickKeeps, CheckKeeps, CaptureKeeps DEF Next

\* What is queued or spliced in is always the correction of a check that is over,
\* and no correction is in two places.
THEOREM QueueInvariant == Spec => []QueueInv
<1>1. Init => QueueInv
  BY DEF Init, CaptureInit, QueueInv, CorrectionUsedOnce
<1>2. TypeOK /\ QueueInv /\ [Next]_vars => QueueInv'
  BY QueueStep
<1> QED
  BY <1>1, <1>2, TypeCorrect, PTL DEF Spec

\* However handlers and checks interleave, a correction goes into one request
\* at most, and is queued no more once it did.
THEOREM CorrectionUsedOnceThm == Spec => []CorrectionUsedOnce
BY QueueInvariant, PTL DEF QueueInv

-----------------------------------------------------------------------------

\* The goal of a check is that of a row of its project the extractor filled in.
HasGoal(h) == goalFrom[h] \in enriched /\ ProjectOf[goalFrom[h]] = ProjectOf[h]

\* Its score calls for a correction.
IsLow(h) == score[h] # 0 /\ Level(score[h]) # "none"

\* What a check has found stands behind every later step of it.
EarnedInv ==
  /\ \A h \in Requests : check[h] \in {"score", "build", "log", "draft", "queue"} => HasGoal(h)
  /\ \A h \in Requests : check[h] \in {"build", "draft", "queue"} => IsLow(h)
  /\ \A p \in DOMAIN corrections : HasGoal(corrections[p]) /\ IsLow(corrections[p])
  /\ \A r \in DOMAIN spliced : /\ HasGoal(spliced[r]) /\ IsLow(spliced[r])
                               /\ ProjectOf[spliced[r]] = ProjectOf[r]

\* A check's goal and score are found once.
LEMMA FoundStays ==
  ASSUME TypeOK, [Next]_vars, NEW g \in Requests
  PROVE  /\ check[g] # "list" /\ HasGoal(g) => HasGoal(g)'
         /\ check[g] # "score" /\ IsLow(g) => IsLow(g)'
<1>1. enriched \subseteq enriched'
  BY StepsCapture, EnrichedGrows
<1>2. check[g] # "list" => goalFrom'[g] = goalFrom[g]
  BY DEF Next, DriftArrive, Tick, CheckStep, ListTasks, ScoreAction, BuildCorrection, Persist,
         QueueCorrection, GiveUp, CheckAt, checkVars, driftVars, vars, TypeOK
<1>3. check[g] # "score" => score'[g] = score[g]
  BY DEF Next, DriftArrive, Tick, CheckStep, ListTasks, ScoreAction, BuildCorrection, Persist,
         QueueCorrection, GiveUp, CheckAt, checkVars, driftVars, vars, TypeOK
<1> QED
  BY <1>1, <1>2, <1>3 DEF HasGoal, IsLow

\* A check moves by a step of its own, or begins.
LEMMA CheckMoves ==
  ASSUME TypeOK, [Next]_vars, NEW g \in Requests
  PROVE  check'[g] = check[g] \/ check'[g] = "list" \/ CheckStep(g)
<1> check \in [Requests -> {"none", "list", "score", "build", "log", "draft", "queue", "done"}]
  BY DEF TypeOK
<1>1. ASSUME NEW h \in Requests, CheckStep(h), h # g
      PROVE  check'[g] = check[g]
  BY <1>1 DEF CheckStep, ListTasks, ScoreAction, BuildCorrection, Persist, QueueCorrection,
              GiveUp, CheckAt
<1>2. ASSUME NEW h \in Requests, Tick(h)
      PROVE  check'[g] = check[g] \/ check'[g] = "list"
  BY <1>2 DEF Tick
<1> QED
  BY <1>1, <1>2 DEF Next, DriftArrive, checkVars, driftVars, vars

\* A check comes to be scored with a goal, ...
LEMMA GoalStep ==
  ASSUME TypeOK, EarnedInv, [Next]_vars, NEW g \in Requests,
         check'[g] \in {"score", "build", "log", "draft", "queue"}
  PROVE  HasGoal(g)'
<1>1. CASE check[g] \in {"score", "build", "log", "draft", "queue"}
  BY <1>1, FoundStays DEF EarnedInv
<1>2. CASE check[g] \notin {"score", "build", "log", "draft", "queue"}
  <2> check \in [Requests -> {"none", "list", "score", "build", "log", "draft", "queue", "done"}]
    BY DEF TypeOK
  <2> goalFrom \in [Requests -> Requests \cup {NoRow}]
    BY DEF TypeOK
  <2>1. ListTasks(g)
    BY <1>2, CheckMoves
    DEF CheckStep, ScoreAction, BuildCorrection, Persist, QueueCorrection, GiveUp, CheckAt
  <2>2. goalFrom'[g] \in RowsOf(g) \cap enriched
    BY <2>1, GoalFound
  <2>3. enriched \subseteq enriched'
    BY StepsCapture, EnrichedGrows
  <2> QED
    BY <2>2, <2>3 DEF HasGoal, RowsOf
<1> QED
  BY <1>1, <1>2

\* ... and to be corrected with a score that calls for it.
LEMMA LowStep ==
  ASSUME TypeOK, EarnedInv, [Next]_vars, NEW g \in Requests,
         check'[g] \in {"build", "draft", "queue"}
  PROVE  IsLow(g)'
<1>1. CASE check[g] \in {"build", "draft", "queue"}
  BY <1>1, FoundStays DEF EarnedInv
<1>2. CASE check[g] \notin {"build", "draft", "queue"}
  <2> check \in [Requests -> {"none", "list", "score", "build", "log", "draft", "queue", "done"}]
    BY DEF TypeOK
  <2>1. ScoreAction(g)
    BY <1>2, CheckMoves
    DEF CheckStep, ListTasks, BuildCorrection, Persist, QueueCorrection, GiveUp, CheckAt
  <2>2. PICK n \in Scores : /\ CheckAt(g, "score", IF Level(n) = "none" THEN "log" ELSE "build")
                            /\ score' = [score EXCEPT ![g] = n]
    BY <2>1 DEF ScoreAction
  <2>3. score'[g] = n /\ n # 0
    BY <2>2, ScoresAssumption DEF TypeOK
  <2>4. check'[g] = IF Level(n) = "none" THEN "log" ELSE "build"
    BY <2>2 DEF CheckAt, TypeOK
  <2> QED
    BY <2>3, <2>4 DEF IsLow
<1> QED
  BY <1>1, <1>2

\* Corrections move from a check to the queue and from the queue to a request
\* of the same project.
LEMMA CorrectionsMove ==
  ASSUME TypeOK, QueueInv, [Next]_vars
  PROVE  /\ \A p \in DOMAIN corrections' :
              \/ p \in DOMAIN corrections /\ corrections'[p] = corrections[p]
              \/ corrections'[p] \in Requests /\ check[corrections'[p]] = "queue"
         /\ \A r \in DOMAIN spliced' :
              \/ r \in DOMAIN spliced /\ spliced'[r] = spliced[r]
              \/ \E p \in DOMAIN corrections :
                   spliced'[r] = corrections[p] /\ p = ProjectOf[r]
<1>1. CASE UNCHANGED queueVars
  BY <1>1 DEF queueVars
<1>2. ASSUME NEW h \in Requests, QueueCorrection(h)
      PROVE  /\ spliced' = spliced
             /\ \A p \in DOMAIN corrections' :
                  \/ p \in DOMAIN corrections /\ corrections'[p] = corrections[p]
                  \/ corrections'[p] \in Requests /\ check[corrections'[p]] = "queue"
  BY <1>2 DEF QueueCorrection, CheckAt, With
<1>3. ASSUME NEW h \in Requests, DriftArrive(h), ~UNCHANGED queueVars
      PROVE  /\ \A p \in DOMAIN corrections' :
                  p \in DOMAIN corrections /\ corrections'[p] = corrections[p]
             /\ \A r \in DOMAIN spliced' :
                  \/ r \in DOMAIN spliced /\ spliced'[r] = spliced[r]
                  \/ \E p \in DOMAIN corrections :
                       spliced'[r] = corrections[p] /\ p = ProjectOf[r]
  <2>1. PICK p \in DOMAIN corrections : p = ProjectOf[h]
    BY <1>3 DEF DriftArrive, Consume
  <2>2. /\ corrections' = Without(corrections, p)
        /\ spliced' = With(spliced, h, corrections[p]) \/ spliced' = spliced
    BY <1>3, <2>1 DEF DriftArrive, Consume
  <2> QED
    BY <2>1, <2>2 DEF With, Without
<1> QED
  BY <1>1, <1>2, <1>3
  DEF Next, Tick, CheckStep, ListTasks, ScoreAction, BuildCorrection, Persist, GiveUp, driftVars,
      vars

\* What stands behind a correction is left standing by every step.
LEMMA EarnedStep ==
  ASSUME TypeOK, QueueInv, EarnedInv, [Next]_vars
  PROVE  EarnedInv'
<1>1. ASSUME NEW g \in Requests, HasGoal(g), IsLow(g), check[g] \in {"queue", "done"}
      PROVE  HasGoal(g)' /\ IsLow(g)'
  BY <1>1, FoundStays
<1>2. \A p \in DOMAIN corrections :
        /\ corrections[p] \in Requests /\ check[corrections[p]] = "done"
        /\ HasGoal(corrections[p]) /\ IsLow(corrections[p]) /\ ProjectOf[corrections[p]] = p
  BY DEF TypeOK, QueueInv, EarnedInv
<1>3. \A r \in DOMAIN spliced :
        /\ spliced[r] \in Requests /\ check[spliced[r]] = "done"
        /\ HasGoal(spliced[r]) /\ IsLow(spliced[r]) /\ ProjectOf[spliced[r]] = ProjectOf[r]
  BY DEF TypeOK, QueueInv, EarnedInv
<1>4. ASSUME NEW p \in DOMAIN corrections'
      PROVE  \E g \in Requests : corrections'[p] = g /\ HasGoal(g)' /\ IsLow(g)'
  <2>1. CASE p \in DOMAIN corrections /\ corrections'[p] = corrections[p]
    <3>1. PICK g \in Requests : g = corrections[p] /\ check[g] = "done" /\ HasGoal(g) /\ IsLow(g)
      BY <2>1, <1>2
    <3> QED
      BY <2>1, <3>1, <1>1
  <2>2. CASE corrections'[p] \in Requests /\ check[corrections'[p]] = "queue"
    <3>1. PICK g \in Requests : g = corrections'[p] /\ check[g] = "queue"
      BY <2>2
    <3>2. HasGoal(g) /\ IsLow(g)
      BY <3>1 DEF EarnedInv
    <3> QED
      BY <3>1, <3>2, <1>1
  <2> QED
    BY <2>1, <2>2, CorrectionsMove
<1>5. ASSUME NEW r \in DOMAIN spliced'
      PROVE  \E g \in Requests : /\ spliced'[r] = g /\ HasGoal(g)' /\ IsLow(g)'
                                 /\ ProjectOf[g] = ProjectOf[r]
  <2>1. PICK g \in Requests : /\ g = spliced'[r] /\ check[g] = "done" /\ HasGoal(g) /\ IsLow(g)
                              /\ ProjectOf[g] = ProjectOf[r]
    <3>1. CASE r \in DOMAIN spliced /\ spliced'[r] = spliced[r]
      BY <3>1, <1>3
    <3>2. CASE \E p \in DOMAIN corrections : spliced'[r] = corrections[p] /\ p = ProjectOf[r]
      BY <3>2, <1>2
    <3> QED
      BY <3>1, <3>2, CorrectionsMove
  <2> QED
    BY <2>1, <1>1
<1> QED
  BY <1>4, <1>5, GoalStep, LowStep DEF EarnedInv, HasGoal, IsLow

\* A correction rests on a low score against a goal of its own project, however
\* checks of several projects interleave with requests and captures.
THEOREM CorrectionEarnedThm == Spec => []CorrectionEarned
<1>1. Init => EarnedInv
  BY DEF Init, EarnedInv
<1>2. TypeOK /\ QueueInv /\ EarnedInv /\ [Next]_vars => EarnedInv'
  BY EarnedStep
<1>3. QueueInv /\ EarnedInv => CorrectionEarned
  BY DEF QueueInv, EarnedInv, HasGoal, IsLow, CorrectionEarned
<1> QED
  BY <1>1, <1>2, <1>3, TypeCorrect, QueueInvariant, PTL DEF Spec

-----------------------------------------------------------------------------

\* The checks that began.
Checked == {h \in Requests : check[h] # "none"}

CheckedInv == IsFiniteSet(Checked) /\ Cardinality(Checked) = count \div Interval

LEMMA NextQuotient ==
  ASSUME NEW n \in Nat, NEW d \in Nat \ {0}
  PROVE  (n + 1) \div d = IF (n + 1) % d = 0 THEN n \div d + 1 ELSE n \div d
OBVIOUS

\* Only the end of a handler counts, and only there a check begins.
LEMMA CountsAtTick ==
  ASSUME TypeOK, QueueInv, [Next]_vars
  PROVE  (\E h \in Requests : Tick(h)) \/ UNCHANGED <<count, Checked>>
<1> SUFFICES ASSUME ~(\E h \in Requests : Tick(h)) PROVE UNCHANGED <<count, Checked>>
  OBVIOUS
<1>1. ASSUME NEW h \in Requests, CheckStep(h)
      PROVE  UNCHANGED <<count, Checked>>
  <2>1. UNCHANGED count
    BY <1>1 DEF CheckStep, ListTasks, ScoreAction, BuildCorrection, Persist, QueueCorrection, GiveUp
  <2>2. check[h] # "none" /\ check'[h] # "none" /\ \A g \in Requests \ {h} : check'[g] = check[g]
    BY <1>1 DEF CheckStep, ListTasks, ScoreAction, BuildCorrection, Persist, QueueCorrection,
                GiveUp, CheckAt, TypeOK
  <2>3. QED BY <2>1, <2>2 DEF Checked
<1>2. UNCHANGED <<count, check>> => UNCHANGED <<count, Checked>>
  BY DEF Checked
<1>3. QED BY <1>1, <1>2 DEF Next, DriftArrive, checkVars, driftVars, vars

LEMMA CheckedStep ==
  ASSUME TypeOK, QueueInv, CheckedInv, [Next]_vars
  PROVE  CheckedInv'
<1>1. CASE UNCHANGED <<count, Checked>>
  BY <1>1 DEF CheckedInv
<1>2. ASSUME NEW h \in Requests, Tick(h)
      PROVE  CheckedInv'
  <2>1. /\ count \in Nat /\ count' = count + 1 /\ check[h] = "none"
        /\ check' = IF count' % Interval = 0 THEN [check EXCEPT ![h] = "list"] ELSE check
    BY <1>2 DEF Tick, Return, TypeOK, QueueInv
  <2>2. h \notin Checked
    BY <2>1 DEF Checked
  <2>3. CASE count' % Interval = 0
    <3>1. Checked' = Checked \cup {h}
      BY <2>1, <2>3 DEF Checked, TypeOK
    <3>2. IsFiniteSet(Checked') /\ Cardinality(Checked') = Cardinality(Checked) + 1
      BY <2>2, <3>1, FS_AddElement DEF CheckedInv
    <3>3. count' \div Interval = count \div Interval + 1
      BY <2>1, <2>3, NextQuotient, IntervalAssumption
    <3>4. QED BY <3>2, <3>3 DEF CheckedInv
  <2>4. CASE count' % Interval # 0
    <3>1. Checked' = Checked
      BY <2>1, <2>4 DEF Checked
    <3>2. count' \div Interval = count \div Interval
      BY <2>1, <2>4, NextQuotient, IntervalAssumption
    <3>3. QED BY <3>1, <3>2 DEF CheckedInv
  <2>5. QED BY <2>3, <2>4
<1>3. QED BY <1>1, <1>2, CountsAtTick

\* Tick counts under its lock: whatever handlers end together, every Interval-th
\* starts a check, and no other does.
THEOREM EveryNthThm == Spec => []EveryNthChecked
<1>1. Init => CheckedInv
  <2>1. ASSUME Init PROVE Checked = {} /\ count = 0
    BY <2>1 DEF Init, Checked
  <2>2. 0 \div Interval = 0
    BY IntervalAssumption
  <2>3. QED BY <2>1, <2>2, FS_EmptySet DEF CheckedInv
<1>2. TypeOK /\ QueueInv /\ CheckedInv /\ [Next]_vars => CheckedInv'
  BY CheckedStep
<1>3. CheckedInv => EveryNthChecked
  BY DEF CheckedInv, EveryNthChecked, Checked
<1>4. QED BY <1>1, <1>2, <1>3, TypeCorrect, QueueInvariant, PTL DEF Spec

-----------------------------------------------------------------------------

\* A check is scored once; a project's counter has lost no more than one drift
\* for each of its recoveries.
ScoredInv ==
  /\ \A h \in Requests : check[h] \in {"none", "list", "score"} => score[h] = 0
  /\ \A p \in Projects : IsFiniteSet(Scored(p))
  /\ EscalationTracksVerdicts

\* Only an answer of ScoreAction scores and counts.
LEMMA CountsAtScore ==
  ASSUME TypeOK, [Next]_vars
  PROVE  (\E h \in Requests : ScoreAction(h)) \/ UNCHANGED <<score, escalations>>
BY DEF Next, DriftArrive, Tick, CheckStep, ListTasks, BuildCorrection, Persist, QueueCorrection,
       GiveUp, checkVars, driftVars, vars

\* A check that was not scored is not before its score again.
LEMMA UnscoredStays ==
  ASSUME TypeOK, QueueInv, ScoredInv, [Next]_vars, UNCHANGED score, NEW g \in Requests,
         check'[g] \in {"none", "list", "score"}
  PROVE  score'[g] = 0
<1> check \in [Requests -> {"none", "list", "score", "build", "log", "draft", "queue", "done"}]
  BY DEF TypeOK
<1>1. CASE CheckStep(g)
  <2>1. check[g] \in {"none", "list", "score"}
    BY <1>1 DEF CheckStep, ListTasks, ScoreAction, BuildCorrection, Persist, QueueCorrection,
                GiveUp, CheckAt
  <2>2. QED BY <2>1 DEF ScoredInv
<1>2. CASE ~CheckStep(g)
  <2>1. ASSUME NEW h \in Requests, CheckStep(h)
        PROVE  check'[g] = check[g]
    BY <1>2, <2>1 DEF CheckStep, ListTasks, ScoreAction, BuildCorrection, Persist,
                      QueueCorrection, GiveUp, CheckAt
  <2>2. ASSUME NEW h \in Requests, Tick(h)
        PROVE  check'[g] = check[g] \/ check[g] = "none"
    BY <2>2 DEF Tick, Return, QueueInv
  <2>3. check'[g] = check[g] \/ check[g] = "none"
    BY <2>1, <2>2 DEF Next, DriftArrive, checkVars, driftVars, vars
  <2>4. QED BY <2>3 DEF ScoredInv
<1>3. QED BY <1>1, <1>2

\* A verdict joins those of its project, and the counter goes one up or down.
LEMMA ScoreCounts ==
  ASSUME TypeOK, ScoredInv, NEW h \in Requests, ScoreAction(h)
  PROVE  ScoredInv'
<1>1. PICK n \in Scores :
        /\ CheckAt(h, "score", IF Level(n) = "none" THEN "log" ELSE "build")
        /\ score' = [score EXCEPT ![h] = n]
        /\ Escalate(ProjectOf[h], Level(n))
  BY DEF ScoreAction
<1> DEFINE q == ProjectOf[h]
<1>2. q \in Projects /\ n \in Scores /\ n # 0
  BY ProjectOfAssumption, ScoresAssumption
<1>3. score[h] = 0 /\ score'[h] = n /\ \A g \in Requests \ {h} : score'[g] = score[g]
  BY <1>1 DEF CheckAt, ScoredInv, TypeOK
<1>4. check'[h] \in {"log", "build"} /\ \A g \in Requests \ {h} : check'[g] = check[g]
  BY <1>1 DEF CheckAt, TypeOK
<1>5. \A g \in Requests : check'[g] \in {"none", "list", "score"} => score'[g] = 0
  BY <1>3, <1>4 DEF ScoredInv
<1>6. ASSUME NEW p \in Projects, p # q
      PROVE  /\ IsFiniteSet(Scored(p)') /\ escalations'[p] <= Cardinality(Drifted(p)')
             /\ escalations'[p] >= 2 * Cardinality(Drifted(p)') - Cardinality(Scored(p)')
  <2>1. Scored(p)' = Scored(p)
    BY <1>3, <1>6 DEF Scored
  <2>2. Drifted(p)' = Drifted(p)
    BY <2>1, <1>3, <1>6 DEF Drifted, Scored
  <2>3. escalations'[p] = escalations[p]
    BY <1>1, <1>6 DEF Escalate, TypeOK
  <2>4. QED BY <2>1, <2>2, <2>3 DEF ScoredInv, EscalationTracksVerdicts
<1>7. /\ IsFiniteSet(Scored(q)') /\ escalations'[q] <= Cardinality(Drifted(q)')
      /\ escalations'[q] >= 2 * Cardinality(Drifted(q)') - Cardinality(Scored(q)')
  <2>1. /\ IsFiniteSet(Scored(q)) /\ IsFiniteSet(Drifted(q))
        /\ Cardinality(Scored(q)) \in Nat /\ Cardinality(Drifted(q)) \in Nat
        /\ Cardinality(Drifted(q)) <= Cardinality(Scored(q))
    <3>1. IsFiniteSet(Scored(q)) /\ Drifted(q) \in SUBSET Scored(q)
      BY <1>2 DEF ScoredInv, Drifted
    <3>2. QED BY <3>1, FS_Subset, FS_CardinalityType
  <2>2. h \notin Scored(q) /\ h \notin Drifted(q)
    BY <1>3 DEF Drifted, Scored
  <2>3. Scored(q)' = Scored(q) \cup {h}
    BY <1>2, <1>3 DEF Scored
  <2>4. Drifted(q)' = IF Level(n) # "none" THEN Drifted(q) \cup {h} ELSE Drifted(q)
    BY <1>2, <1>3 DEF Drifted, Scored
  <2>5. IsFiniteSet(Scored(q)') /\ Cardinality(Scored(q)') = Cardinality(Scored(q)) + 1
    BY <2>1, <2>2, <2>3, FS_AddElement
  <2>6. /\ escalations[q] \in Nat
        /\ escalations'[q] = IF Level(n) # "none" THEN escalations[q] + 1
                             ELSE IF escalations[q] > 0 THEN escalations[q] - 1
                             ELSE escalations[q]
    BY <1>1, <1>2 DEF Escalate, TypeOK
  <2>7. /\ escalations[q] <= Cardinality(Drifted(q))
        /\ escalations[q] >= 2 * Cardinality(Drifted(q)) - Cardinality(Scored(q))
    BY <1>2 DEF ScoredInv, EscalationTracksVerdicts
  <2>8. CASE Level(n) # "none"
    <3>1. Cardinality(Drifted(q)') = Cardinality(Drifted(q)) + 1
      BY <2>1, <2>2, <2>4, <2>8, FS_AddElement
    <3>2. QED BY <2>1, <2>5, <2>6, <2>7, <2>8, <3>1
  <2>9. CASE Level(n) = "none"
    <3>1. Cardinality(Drifted(q)') = Cardinality(Drifted(q))
      BY <2>4, <2>9
    <3>2. QED BY <2>1, <2>5, <2>6, <2>7, <2>9, <3>1
  <2>10. QED BY <2>8, <2>9
<1>8. QED BY <1>5, <1>6, <1>7 DEF ScoredInv, EscalationTracksVerdicts

LEMMA ScoredStep ==
  ASSUME TypeOK, QueueInv, ScoredInv, [Next]_vars
  PROVE  ScoredInv'
<1>1. CASE \E h \in Requests : ScoreAction(h)
  BY <1>1, ScoreCounts
<1>2. CASE UNCHANGED <<score, escalations>>
  <2>1. \A g \in Requests : check'[g] \in {"none", "list", "score"} => score'[g] = 0
    BY <1>2, UnscoredStays
  <2>2. \A p \in Projects : Scored(p)' = Scored(p) /\ Drifted(p)' = Drifted(p)
    BY <1>2 DEF Scored, Drifted
  <2>3. QED BY <1>2, <2>1, <2>2 DEF ScoredInv, EscalationTracksVerdicts
<1>3. QED BY <1>1, <1>2, CountsAtScore

\* State.Record of concurrent checks: no drift is counted twice, none is taken
\* back but by a recovery, and the counter stays at its floor.
THEOREM EscalationThm == Spec => []EscalationTracksVerdicts
<1>1. Init => ScoredInv
  <2>1. ASSUME Init, NEW p \in Projects
        PROVE  Scored(p) = {} /\ Drifted(p) = {} /\ escalations[p] = 0
    BY <2>1 DEF Init, Scored, Drifted
  <2>2. ASSUME Init, NEW p \in Projects
        PROVE  /\ IsFiniteSet(Scored(p)) /\ escalations[p] <= Cardinality(Drifted(p))
               /\ escalations[p] >= 2 * Cardinality(Drifted(p)) - Cardinality(Scored(p))
    BY <2>1, <2>2, FS_EmptySet
  <2>3. QED BY <2>2 DEF Init, ScoredInv, EscalationTracksVerdicts
<1>2. TypeOK /\ QueueInv /\ ScoredInv /\ [Next]_vars => ScoredInv'
  BY ScoredStep
<1>3. ScoredInv => EscalationTracksVerdicts
  BY DEF ScoredInv
<1>4. QED BY <1>1, <1>2, <1>3, TypeCorrect, QueueInvariant, PTL DEF Spec

=============================================================================
