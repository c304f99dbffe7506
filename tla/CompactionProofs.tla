-------------------------- MODULE CompactionProofs --------------------------
(***************************************************************************)
(* Proofs that compaction's invariants hold for every set of projects,     *)
(* conversations and requests, every threshold and every usage report,     *)
(* and that its handlers implement CompactionPhases.                       *)
(***************************************************************************)
EXTENDS Compaction, OrderLemmas, TLAPS

\* What one call of StartCompute, or one end of a computation, may do to the
\* cache, whoever makes it (compact.go StartCompute).
LEMMA CacheStepTyped ==
  ASSUME CacheTypeOK, NEW p \in Projects, NEW convo \in SUBSET Messages,
         StartComputeFor(p, convo)
  PROVE  CacheTypeOK'
<1>1. CASE Cached(p) \/ p \in pending
  BY <1>1 DEF StartComputeFor, CacheTypeOK, cacheVars
<1>2. CASE ~(Cached(p) \/ p \in pending)
  BY <1>2 DEF StartComputeFor, CacheTypeOK, Job
<1>3. QED BY <1>1, <1>2

\* The end of a job keeps the cache typed, whether it stores a summary or not.
LEMMA SettleTyped ==
  ASSUME CacheTypeOK, NEW j, ComputeSucceeds(j) \/ ComputeFails(j)
  PROVE  CacheTypeOK'
<1>1. j \in jobs /\ j.proj \in Projects /\ j.convo \in SUBSET Messages
  BY DEF ComputeSucceeds, ComputeFails, CacheTypeOK, Job
<1>2. CASE ComputeSucceeds(j)
  BY <1>1, <1>2 DEF ComputeSucceeds, CacheTypeOK
<1>3. CASE ComputeFails(j)
  BY <1>1, <1>3, MaxFailuresAssumption DEF ComputeFails, CacheTypeOK
<1>4. QED BY <1>2, <1>3

\* A body and its summaries are sets of messages.
LEMMA BodiesTyped ==
  /\ \A c \in Conversations, n \in 0..MaxTurns : History(c, n) \subseteq Messages
  /\ \A b, s \in SUBSET Messages : Apply(b, s) \subseteq Messages
BY MaxTurnsAssumption DEF History, Messages, Apply, LastUserPrompt

\* Recording a usage total yields a session hook again.
LEMMA ObserveTyped ==
  ASSUME NEW h \in Hook, NEW total \in Nat
  PROVE  Observe(h, total) \in Hook
BY ThresholdsAssumption DEF Observe, Hook

\* Reporting the total of a response keeps the whole state typed.
LEMMA ReportTyped ==
  ASSUME TypeOK, NEW r \in Requests, NEW total \in Nat,
         NEW next \in {"idle", "stream"}, Report(r, total, next)
  PROVE  TypeOK'
<1> DEFINE p == Project(r)
           h == Observe(hook[p], total)
<1>1. p \in Projects /\ hook[p] \in Hook /\ h \in Hook
  BY ObserveTyped DEF Project, TypeOK
<1>2. CacheTypeOK'
  BY DEF Report, TypeOK, CacheTypeOK, cacheVars
<1>3. hook' \in [Projects -> Hook] /\ applyPending' \in [Projects -> BOOLEAN]
  BY <1>1 DEF Report, TypeOK, Hook
<1>4. pc' \in [Requests -> PCs] /\ body' \in [Requests -> SUBSET Messages]
  BY DEF Report, Continue, TypeOK, PCs
<1>5. tokens' \in [Requests -> Nat] /\ resume' \in [Requests -> {"idle", "stream"}]
  BY DEF Report, TypeOK
<1>6. QED BY <1>2, <1>3, <1>4, <1>5 DEF Report, TypeOK

-----------------------------------------------------------------------------

\* Type correctness (the maps and flags of compactSessions, Cache and the
\* handlers' locals keep their types).
THEOREM TypeCorrect == Spec => []TypeOK
<1>1. Init => TypeOK
  BY AssignmentsAssumption, MaxTurnsAssumption, MaxFailuresAssumption
  DEF Init, TypeOK, CacheInit, CacheTypeOK, Hook, PCs
<1>2. ASSUME TypeOK, [Next]_vars
      PROVE  TypeOK'
  <2>1. ASSUME NEW r \in Requests, NEW c \in Conversations, Drain(r, c)
        PROVE  TypeOK'
    <3>1. turns[c] + 1 \in 0..MaxTurns /\ projectOf[c] \in Projects
      <4>1. turns[c] \in 0..MaxTurns
        BY <1>2 DEF TypeOK
      <4>2. turns[c] + 1 <= MaxTurns
        BY <2>1 DEF Drain
      <4>3. projectOf[c] \in Projects
        BY <1>2 DEF TypeOK
      <4>4. QED BY <4>1, <4>2, <4>3, MaxTurnsAssumption
    <3>2. History(c, turns[c] + 1) \in SUBSET Messages
      BY <3>1, BodiesTyped
    <3>3. hook' \in [Projects -> Hook]
      <4>1. Reset(hook[projectOf[c]]) \in Hook
        BY <1>2, <3>1 DEF TypeOK, Reset, Hook
      <4>2. \/ hook' = hook
            \/ hook' = [hook EXCEPT ![projectOf[c]] = Reset(hook[projectOf[c]])]
        BY <2>1 DEF Drain
      <4>3. QED BY <1>2, <4>1, <4>2 DEF TypeOK
    <3>4. CacheTypeOK'
      BY <1>2, <2>1 DEF Drain, TypeOK, CacheTypeOK, cacheVars
    <3>5. pc' \in [Requests -> PCs]
      BY <1>2, <2>1 DEF Drain, TypeOK, PCs
    <3>6. /\ turns' = [turns EXCEPT ![c] = turns[c] + 1]
          /\ conv' = [conv EXCEPT ![r] = c]
          /\ body' = [body EXCEPT ![r] = History(c, turns[c] + 1)]
          /\ tokens' = [tokens EXCEPT ![r] = 0]
          /\ applyPending' = [applyPending EXCEPT ![projectOf[c]] = FALSE]
          /\ resume' = resume /\ projectOf' = projectOf
      BY <2>1 DEF Drain
    <3>7. QED BY <1>2, <3>1, <3>2, <3>3, <3>4, <3>5, <3>6 DEF TypeOK
  <2>2. ASSUME NEW r \in Requests, Splice(r)
        PROVE  TypeOK'
    <3>1. CacheTypeOK'
      BY <1>2, <2>2 DEF Splice, TypeOK, CacheTypeOK, cacheVars
    <3>2. body' \in [Requests -> SUBSET Messages]
      <4>1. Cached(Project(r)) => summaries[Project(r)] \in SUBSET Messages
        BY <1>2 DEF TypeOK, CacheTypeOK, Cached
      <4>2. QED BY <1>2, <2>2, <4>1, BodiesTyped DEF Splice, TypeOK
    <3>3. pc' \in [Requests -> PCs]
      BY <1>2, <2>2 DEF Splice, TypeOK, PCs
    <3>4. QED BY <1>2, <2>2, <3>1, <3>2, <3>3 DEF Splice, TypeOK, sessionVars
  <2>3. ASSUME NEW r \in Requests,
               MessageStart(r) \/ MessageDelta(r) \/ DoneStream(r) \/ DoneJSON(r)
        PROVE  TypeOK'
    <3>1. PICK total \in Nat, next \in {"idle", "stream"} : Report(r, total, next)
      BY <1>2, <2>3, ReportsAssumption
      DEF MessageStart, MessageDelta, DoneStream, DoneJSON, TypeOK
    <3>2. QED BY <1>2, <3>1, ReportTyped
  <2>4. ASSUME NEW r \in Requests, DoneSilent(r)
        PROVE  TypeOK'
    BY <1>2, <2>4 DEF DoneSilent, Continue, TypeOK, CacheTypeOK, PCs, cacheVars, sessionVars
  <2>5. ASSUME NEW r \in Requests, StartCompute(r)
        PROVE  TypeOK'
    <3>1. CacheTypeOK'
      BY <1>2, <2>5, CacheStepTyped
      DEF StartCompute, TypeOK, Project
    <3>2. QED BY <1>2, <2>5, <3>1 DEF StartCompute, Continue, TypeOK, PCs, sessionVars
  <2>6. ASSUME NEW p \in Projects, Settle(p)
        PROVE  TypeOK'
    <3>1. CacheTypeOK'
      BY <1>2, <2>6, SettleTyped DEF Settle, TypeOK
    <3>2. QED BY <1>2, <2>6, <3>1 DEF Settle, TypeOK, sessionVars, handlerVars
  <2>7. CASE UNCHANGED vars
    BY <1>2, <2>7
    DEF vars, cacheVars, sessionVars, handlerVars, TypeOK, CacheTypeOK
  <2>8. QED
    BY <1>2, <2>1, <2>2, <2>3, <2>4, <2>5, <2>6, <2>7 DEF Next, Handle
<1>3. QED BY <1>1, <1>2, PTL DEF Spec

-----------------------------------------------------------------------------

\* What a report does to the hook of its own project.
LEMMA ReportEffect ==
  ASSUME TypeOK, NEW r \in Requests, NEW total \in Nat,
         NEW next \in {"idle", "stream"}, Report(r, total, next)
  PROVE  LET p == Project(r)
         IN  /\ p \in Projects
             /\ \A q \in Projects \ {p} :
                  hook'[q] = hook[q] /\ applyPending'[q] = applyPending[q]
             /\ hook'[p].pre <=> hook[p].pre \/ total >= WarnTokens
             /\ hook'[p].apply <=> hook[p].apply \/ total >= ClearTokens
             /\ applyPending'[p] <=>
                  applyPending[p] \/ (hook'[p].apply /\ ~hook[p].apply)
             /\ pc' = [pc EXCEPT ![r] =
                         IF hook'[p].pre /\ ~hook[p].pre THEN "start" ELSE next]
             /\ UNCHANGED <<cacheVars, projectOf, turns, conv>>
             /\ \A s \in Requests : body'[s] \subseteq body[s]
<1> DEFINE p == Project(r)
           h == Observe(hook[p], total)
<1>1. p \in Projects /\ hook[p] \in Hook /\ applyPending[p] \in BOOLEAN
  BY DEF Project, TypeOK
<1>2. /\ hook' = [hook EXCEPT ![p] = h]
      /\ applyPending' =
           [applyPending EXCEPT ![p] = applyPending[p] \/ (h.apply /\ ~hook[p].apply)]
      /\ UNCHANGED <<cacheVars, projectOf, turns, conv>>
  BY DEF Report
<1>3. /\ h.pre <=> hook[p].pre \/ total >= WarnTokens
      /\ h.apply <=> hook[p].apply \/ total >= ClearTokens
  BY <1>1 DEF Observe, Hook
<1>4. hook'[p] = h /\ (applyPending'[p] <=>
                         applyPending[p] \/ (h.apply /\ ~hook[p].apply))
  BY <1>1, <1>2 DEF TypeOK
<1>5. \A q \in Projects \ {p} :
        hook'[q] = hook[q] /\ applyPending'[q] = applyPending[q]
  BY <1>2 DEF TypeOK
<1>6. pc' = [pc EXCEPT ![r] = IF h.pre /\ ~hook[p].pre THEN "start" ELSE next]
  BY DEF Report, Continue
<1>7. \A s \in Requests : body'[s] \subseteq body[s]
  BY DEF Report, Continue, TypeOK
<1>8. QED BY <1>1, <1>2, <1>3, <1>4, <1>5, <1>6, <1>7

\* A handler's step is one of: taking the next request, splicing, a report,
\* an end without one, or the call of StartCompute.
LEMMA ReportingSteps ==
  ASSUME TypeOK, NEW r \in Requests,
         MessageStart(r) \/ MessageDelta(r) \/ DoneStream(r) \/ DoneJSON(r)
  PROVE  /\ pc[r] \in {"forward", "stream"}
         /\ \E total \in Nat, next \in {"idle", "stream"} : Report(r, total, next)
BY ReportsAssumption DEF MessageStart, MessageDelta, DoneStream, DoneJSON, TypeOK

\* What drainPending does to the hooks.
LEMMA DrainEffect ==
  ASSUME TypeOK, NEW r \in Requests, NEW c \in Conversations, Drain(r, c)
  PROVE  LET p == projectOf[c]
         IN  /\ p \in Projects
             /\ \A q \in Projects \ {p} :
                  hook'[q] = hook[q] /\ applyPending'[q] = applyPending[q]
             /\ applyPending'[p] = FALSE
             /\ applyPending[p] => ~hook'[p].pre /\ ~hook'[p].apply
             /\ ~applyPending[p] => hook'[p] = hook[p]
<1> DEFINE p == projectOf[c]
<1>1. p \in Projects /\ hook[p] \in Hook
  BY DEF TypeOK
<1>2. applyPending' = [applyPending EXCEPT ![p] = FALSE]
  BY DEF Drain
<1>3. CASE applyPending[p]
  <2>1. hook' = [hook EXCEPT ![p] = Reset(hook[p])]
    BY <1>3 DEF Drain
  <2>2. ~Reset(hook[p]).pre /\ ~Reset(hook[p]).apply
    BY <1>1 DEF Reset, Hook
  <2>3. QED BY <1>1, <1>2, <1>3, <2>1, <2>2 DEF TypeOK
<1>4. CASE ~applyPending[p]
  <2>1. hook' = hook
    BY <1>4 DEF Drain
  <2>2. QED BY <1>1, <1>2, <1>4, <2>1 DEF TypeOK
<1>5. QED BY <1>3, <1>4

\* A compaction is pending exactly when the hook says it fired, and never
\* before the pre-computation fired (observe and drainPending keep applyPending
\* and compactHook in step under one lock).
THEOREM HookCorrect == Spec => []HookConsistent
<1>1. Init => HookConsistent
  <2>1. SUFFICES ASSUME Init, NEW p \in Projects
                 PROVE  applyPending[p] = FALSE /\ hook[p].apply = FALSE
    BY DEF HookConsistent
  <2>2. QED BY <2>1 DEF Init
<1>2. ASSUME TypeOK, HookConsistent, [Next]_vars
      PROVE  HookConsistent'
  <2>1. ASSUME NEW r \in Requests, NEW c \in Conversations, Drain(r, c)
        PROVE  HookConsistent'
    BY <1>2, <2>1, DrainEffect DEF HookConsistent
  <2>2. ASSUME NEW r \in Requests,
               MessageStart(r) \/ MessageDelta(r) \/ DoneStream(r) \/ DoneJSON(r)
        PROVE  HookConsistent'
    <3>1. PICK total \in Nat, next \in {"idle", "stream"} : Report(r, total, next)
      BY <1>2, <2>2, ReportingSteps
    <3>2. SUFFICES ASSUME NEW q \in Projects
                   PROVE  /\ applyPending'[q] <=> hook'[q].apply
                          /\ WarnTokens <= ClearTokens /\ hook'[q].apply => hook'[q].pre
      BY DEF HookConsistent
    <3>3. CASE q = Project(r)
      BY <1>2, <3>1, <3>3, ReportEffect, ThresholdsAssumption DEF HookConsistent
    <3>4. CASE q # Project(r)
      BY <1>2, <3>1, <3>4, ReportEffect DEF HookConsistent
    <3>5. QED BY <3>3, <3>4
  <2>3. ASSUME UNCHANGED sessionVars
        PROVE  HookConsistent'
    BY <1>2, <2>3 DEF HookConsistent, sessionVars
  <2>4. QED
    BY <1>2, <2>1, <2>2, <2>3
    DEF Next, Handle, Splice, DoneSilent, StartCompute, Settle, vars
<1>3. QED BY <1>1, <1>2, TypeCorrect, PTL DEF Spec

-----------------------------------------------------------------------------

\* The maps and the goroutines of the cache agree: one goroutine per pending
\* project, none for a cached one (Cache.StartCompute tests both maps under
\* its lock).
THEOREM FlightCorrect == Spec => []SingleFlight
<1>1. Init => SingleFlight
  BY DEF Init, CacheInit, SingleFlight, JobsOf, Cached
<1>2. ASSUME TypeOK, SingleFlight, [Next]_vars
      PROVE  SingleFlight'
  <2>1. ASSUME NEW r \in Requests, StartCompute(r)
        PROVE  SingleFlight'
    <3>0. PICK p \in Projects : p = Project(r)
      BY <1>2 DEF TypeOK, Project
    <3>1. CASE Cached(p) \/ p \in pending
      BY <1>2, <2>1, <3>0, <3>1
      DEF StartCompute, StartComputeFor, cacheVars, SingleFlight, JobsOf, Cached
    <3>2. CASE ~(Cached(p) \/ p \in pending)
      <4>1. JobsOf(p) = {}
        BY <1>2, <3>2 DEF SingleFlight
      <4>2. /\ pending' = pending \cup {p}
            /\ jobs' = jobs \cup {[proj |-> p, convo |-> body[r]]}
            /\ summaries' = summaries
        BY <2>1, <3>0, <3>2 DEF StartCompute, StartComputeFor
      <4>3. JobsOf(p)' = {[proj |-> p, convo |-> body[r]]}
        <5>1. \A j \in jobs : j.proj # p
          BY <4>1 DEF JobsOf
        <5>2. [proj |-> p, convo |-> body[r]].proj = p
          OBVIOUS
        <5>3. QED BY <4>2, <5>1, <5>2 DEF JobsOf
      <4>4. \A q \in Projects \ {p} : JobsOf(q)' = JobsOf(q)
        BY <4>2 DEF JobsOf
      <4>5. SUFFICES ASSUME NEW q \in Projects
                     PROVE  /\ q \in pending' <=> JobsOf(q)' # {}
                            /\ \A i, j \in JobsOf(q)' : i = j
                            /\ q \in pending' => ~Cached(q)'
        BY DEF SingleFlight
      <4>6. CASE q = p
        BY <3>2, <4>2, <4>3, <4>6 DEF Cached
      <4>7. CASE q # p
        BY <1>2, <4>2, <4>4, <4>7 DEF SingleFlight, Cached
      <4>8. QED BY <4>6, <4>7
    <3>3. QED BY <3>1, <3>2
  <2>2. ASSUME NEW p \in Projects, Settle(p)
        PROVE  SingleFlight'
    <3>1. PICK j \in JobsOf(p) : ComputeSucceeds(j) \/ ComputeFails(j)
      BY <2>2 DEF Settle
    <3>2. /\ j \in jobs /\ j.proj = p
          /\ jobs' = jobs \ {j}
          /\ pending' = pending \ {p}
          /\ \A q \in Projects \ {p} : Cached(q)' <=> Cached(q)
      BY <3>1 DEF JobsOf, ComputeSucceeds, ComputeFails, Cached
    <3>3. JobsOf(p)' = {}
      BY <1>2, <3>1, <3>2 DEF SingleFlight, JobsOf
    <3>4. \A q \in Projects \ {p} : JobsOf(q)' = JobsOf(q)
      BY <3>2 DEF JobsOf
    <3>5. QED BY <1>2, <3>2, <3>3, <3>4 DEF SingleFlight
  <2>3. ASSUME UNCHANGED cacheVars
        PROVE  SingleFlight'
    BY <1>2, <2>3 DEF SingleFlight, cacheVars, JobsOf, Cached
  <2>4. ASSUME NEW r \in Requests,
               MessageStart(r) \/ MessageDelta(r) \/ DoneStream(r) \/ DoneJSON(r)
        PROVE  UNCHANGED cacheVars
    BY <1>2, <2>4, ReportingSteps, ReportEffect
  <2>5. QED
    BY <1>2, <2>1, <2>2, <2>3, <2>4
    DEF Next, Handle, Drain, Splice, DoneSilent, vars
<1>3. QED BY <1>1, <1>2, TypeCorrect, PTL DEF Spec

\* A stored summary stays what it is (only StartCompute's goroutine writes
\* Cache.summaries, and none runs for a cached project).
THEOREM SummaryStays == Spec => SummaryWrittenOnce
<1>1. ASSUME TypeOK, SingleFlight, [Next]_vars, NEW p \in DOMAIN summaries
      PROVE  Cached(p)' /\ summaries'[p] = summaries[p]
  <2>1. ASSUME NEW r \in Requests, StartCompute(r)
        PROVE  summaries' = summaries
    BY <2>1 DEF StartCompute, StartComputeFor, cacheVars
  <2>2. ASSUME NEW q \in Projects, Settle(q)
        PROVE  Cached(p)' /\ summaries'[p] = summaries[p]
    <3>1. PICK j \in JobsOf(q) : ComputeSucceeds(j) \/ ComputeFails(j)
      BY <2>2 DEF Settle
    <3>2. p \in Projects /\ p # j.proj
      BY <1>1, <3>1 DEF SingleFlight, JobsOf, Cached, TypeOK, CacheTypeOK
    <3>3. QED BY <3>1, <3>2 DEF ComputeSucceeds, ComputeFails, Cached
  <2>3. ASSUME UNCHANGED summaries
        PROVE  Cached(p)' /\ summaries'[p] = summaries[p]
    BY <2>3 DEF Cached
  <2>4. ASSUME NEW r \in Requests,
               MessageStart(r) \/ MessageDelta(r) \/ DoneStream(r) \/ DoneJSON(r)
        PROVE  UNCHANGED summaries
    BY <1>1, <2>4, ReportingSteps, ReportEffect DEF cacheVars
  <2>5. QED
    BY <1>1, <2>1, <2>2, <2>3, <2>4
    DEF Next, Handle, Drain, Splice, DoneSilent, vars, cacheVars
<1>2. TypeOK /\ SingleFlight /\ [Next]_vars =>
        [\A p \in DOMAIN summaries : Cached(p)' /\ summaries'[p] = summaries[p]]_vars
  BY <1>1
<1>3. QED BY <1>2, TypeCorrect, FlightCorrect, PTL DEF Spec, SummaryWrittenOnce

-----------------------------------------------------------------------------

\* The disjuncts of ComputeUnderWay.
Answered(p) == Cached(p) \/ p \in pending \/ failures[p] > 0

Starting(p) == \E r \in Requests : pc[r] = "start" /\ Project(r) = p

\* An answer once given stays, except that a summary or a failure takes the
\* place of a computation.
LEMMA AnswerStays ==
  ASSUME TypeOK, SingleFlight, NEW p \in Projects, Answered(p),
         \/ UNCHANGED cacheVars
         \/ \E r \in Requests : StartCompute(r)
         \/ \E q \in Projects : Settle(q)
  PROVE  Answered(p)'
<1>1. CASE UNCHANGED cacheVars
  BY <1>1 DEF Answered, Cached, cacheVars
<1>2. ASSUME NEW r \in Requests, StartCompute(r)
      PROVE  Answered(p)'
  BY <1>2 DEF StartCompute, StartComputeFor, Answered, Cached, cacheVars
<1>3. ASSUME NEW q \in Projects, NEW j \in JobsOf(q), ComputeSucceeds(j)
      PROVE  Answered(p)'
  BY <1>3 DEF ComputeSucceeds, Answered, Cached, JobsOf
<1>4. ASSUME NEW q \in Projects, NEW j \in JobsOf(q), ComputeFails(j)
      PROVE  Answered(p)'
  <2>1. /\ j.proj = q /\ failures[q] \in Nat
        /\ failures' = [failures EXCEPT ![q] = failures[q] + 1]
        /\ pending' = pending \ {q}
        /\ summaries' = summaries
    <3>1. j.proj = q
      BY <1>4 DEF JobsOf
    <3>2. failures[q] \in 0..MaxFailures
      BY DEF TypeOK, CacheTypeOK
    <3>3. QED BY <1>4, <3>1, <3>2, MaxFailuresAssumption DEF ComputeFails
  <2>2. CASE p = q
    <3>1. failures'[q] = failures[q] + 1
      BY <2>1 DEF TypeOK, CacheTypeOK
    <3>2. failures'[q] > 0
      BY <2>1, <3>1
    <3>3. QED BY <2>2, <3>2 DEF Answered
  <2>3. CASE p # q
    <3>1. failures'[p] = failures[p]
      BY <2>1, <2>3 DEF TypeOK, CacheTypeOK
    <3>2. QED BY <2>1, <2>3, <3>1 DEF Answered, Cached
  <2>4. QED BY <2>2, <2>3
<1>5. QED BY <1>1, <1>2, <1>3, <1>4 DEF Settle

\* Once the warn threshold fired, its pre-computation is not lost between
\* observe's unlock and StartCompute (compact_state.go observe).
THEOREM ComputeNotLost == Spec => []ComputeUnderWay
<1> DEFINE Inv == \A p \in Projects : hook[p].pre => Answered(p) \/ Starting(p)
<1>1. Inv <=> ComputeUnderWay
  BY DEF ComputeUnderWay, Answered, Starting
<1>2. Init => Inv
  <2>1. SUFFICES ASSUME Init, NEW p \in Projects
                 PROVE  hook[p].pre = FALSE
    OBVIOUS
  <2>2. QED BY <2>1 DEF Init
<1>3. ASSUME TypeOK, SingleFlight, Inv, [Next]_vars
      PROVE  Inv'
  <2>1. SUFFICES ASSUME NEW p \in Projects, hook'[p].pre
                 PROVE  Answered(p)' \/ Starting(p)'
    OBVIOUS
  <2>2. ASSUME NEW r \in Requests, NEW c \in Conversations, Drain(r, c)
        PROVE  Answered(p)' \/ Starting(p)'
    <3>1. hook[p].pre
      BY <1>3, <2>1, <2>2, DrainEffect
    <3>2. Answered(p) => Answered(p)'
      BY <1>3, <2>2, AnswerStays DEF Drain
    <3>3. Starting(p) => Starting(p)'
      <4>1. /\ pc[r] = "idle" /\ projectOf' = projectOf
            /\ \A s \in Requests \ {r} : pc'[s] = pc[s] /\ conv'[s] = conv[s]
        BY <1>3, <2>2 DEF Drain, TypeOK
      <4>2. QED BY <4>1 DEF Starting, Project
    <3>4. QED BY <1>3, <3>1, <3>2, <3>3
  <2>3. ASSUME NEW r \in Requests,
               MessageStart(r) \/ MessageDelta(r) \/ DoneStream(r) \/ DoneJSON(r)
        PROVE  Answered(p)' \/ Starting(p)'
    <3>1. PICK total \in Nat, next \in {"idle", "stream"} : Report(r, total, next)
      BY <1>3, <2>3, ReportingSteps
    <3>2. /\ pc[r] \in {"forward", "stream"}
          /\ pc' = [pc EXCEPT ![r] = IF hook'[Project(r)].pre /\ ~hook[Project(r)].pre
                                       THEN "start" ELSE next]
          /\ conv' = conv /\ projectOf' = projectOf
          /\ UNCHANGED cacheVars
      BY <1>3, <2>3, <3>1, ReportingSteps, ReportEffect
    <3>3. CASE hook[p].pre
      <4>1. Answered(p) => Answered(p)'
        BY <1>3, <3>2, AnswerStays
      <4>2. Starting(p) => Starting(p)'
        BY <1>3, <3>2 DEF Starting, Project, TypeOK
      <4>3. QED BY <1>3, <3>3, <4>1, <4>2
    <3>4. CASE ~hook[p].pre
      <4>1. p = Project(r)
        BY <1>3, <2>1, <3>1, <3>4, ReportEffect
      <4>2. pc'[r] = "start"
        BY <1>3, <2>1, <3>2, <3>4, <4>1 DEF TypeOK
      <4>3. QED BY <3>2, <4>1, <4>2 DEF Starting, Project
    <3>5. QED BY <3>3, <3>4
  <2>4. ASSUME NEW r \in Requests, StartCompute(r)
        PROVE  Answered(p)' \/ Starting(p)'
    <3>1. hook[p].pre /\ UNCHANGED <<projectOf, conv>> /\ pc' = [pc EXCEPT ![r] = resume[r]]
      BY <2>1, <2>4 DEF StartCompute, Continue, sessionVars
    <3>2. CASE Answered(p)
      BY <1>3, <2>4, <3>2, AnswerStays
    <3>3. CASE p = Project(r)
      BY <2>4, <3>3
      DEF StartCompute, StartComputeFor, cacheVars, Answered, Cached
    <3>4. CASE p # Project(r) /\ Starting(p)
      BY <1>3, <3>1, <3>4 DEF Starting, Project, TypeOK
    <3>5. QED BY <1>3, <3>1, <3>2, <3>3, <3>4
  <2>5. ASSUME NEW q \in Projects, Settle(q)
        PROVE  Answered(p)' \/ Starting(p)'
    <3>1. hook[p].pre /\ UNCHANGED <<projectOf, pc, conv>>
      BY <2>1, <2>5 DEF Settle, sessionVars, handlerVars
    <3>2. QED BY <1>3, <2>5, <3>1, AnswerStays DEF Starting, Project
  <2>6. ASSUME NEW r \in Requests, Splice(r) \/ DoneSilent(r)
        PROVE  Answered(p)' \/ Starting(p)'
    <3>1. /\ hook[p].pre /\ UNCHANGED <<cacheVars, projectOf, conv>>
          /\ pc[r] # "start"
          /\ \A s \in Requests \ {r} : pc'[s] = pc[s]
      BY <1>3, <2>1, <2>6 DEF Splice, DoneSilent, Continue, sessionVars, TypeOK
    <3>2. QED BY <1>3, <3>1, AnswerStays DEF Starting, Project
  <2>7. CASE UNCHANGED vars
    <3>1. hook[p].pre /\ UNCHANGED <<cacheVars, projectOf, pc, conv>>
      BY <2>1, <2>7 DEF vars, sessionVars, handlerVars
    <3>2. QED BY <1>3, <3>1, AnswerStays DEF Starting, Project
  <2>8. QED
    BY <1>3, <2>2, <2>3, <2>4, <2>5, <2>6, <2>7 DEF Next, Handle
<1>4. QED BY <1>1, <1>2, <1>3, TypeCorrect, FlightCorrect, PTL DEF Spec

-----------------------------------------------------------------------------

\* The messages of project p.
OwnMessages(p) == {m \in Messages : projectOf[m[1]] = p}

\* Messages never cross projects: the cache is keyed by the project, the
\* goroutine stores under the project it was started for, and Splice reads the
\* project of the request (server.go handleMessages).
THEOREM IsolationCorrect == Spec => []ProjectIsolation
<1> DEFINE CachedOwn == \A p \in DOMAIN summaries : summaries[p] \subseteq OwnMessages(p)
           JobsOwn == \A j \in jobs : j.convo \subseteq OwnMessages(j.proj)
           BodiesOwn == \A r \in Requests :
                          pc[r] # "idle" => body[r] \subseteq OwnMessages(Project(r))
           Inv == CachedOwn /\ JobsOwn /\ BodiesOwn
<1>1. Inv <=> ProjectIsolation
  BY DEF ProjectIsolation, OwnMessages
<1>2. Init => Inv
  BY DEF Init, CacheInit
<1>3. ASSUME TypeOK, Inv, [Next]_vars
      PROVE  Inv'
  <2>1. ASSUME NEW r \in Requests, NEW c \in Conversations, Drain(r, c)
        PROVE  Inv'
    <3>1. /\ UNCHANGED <<summaries, jobs, projectOf>>
          /\ conv' = [conv EXCEPT ![r] = c]
          /\ body' = [body EXCEPT ![r] = History(c, turns[c] + 1)]
          /\ turns[c] + 1 <= MaxTurns
          /\ \A s \in Requests \ {r} : pc'[s] = pc[s]
      BY <1>3, <2>1 DEF Drain, cacheVars, TypeOK
    <3>2. History(c, turns[c] + 1) \subseteq OwnMessages(projectOf[c])
      <4>1. turns[c] + 1 \in 0..MaxTurns
        BY <1>3, <3>1, MaxTurnsAssumption DEF TypeOK
      <4>2. QED BY <4>1, BodiesTyped DEF History, OwnMessages
    <3>3. CachedOwn' /\ JobsOwn'
      BY <1>3, <3>1 DEF OwnMessages
    <3>4. \A s \in Requests \ {r} : body'[s] = body[s] /\ conv'[s] = conv[s]
      BY <1>3, <3>1 DEF TypeOK
    <3>5. body'[r] = History(c, turns[c] + 1) /\ conv'[r] = c
      BY <1>3, <3>1 DEF TypeOK
    <3>6. BodiesOwn'
      BY <1>3, <3>1, <3>2, <3>4, <3>5 DEF Project, OwnMessages
    <3>7. QED BY <3>3, <3>6
  <2>2. ASSUME NEW r \in Requests, Splice(r)
        PROVE  Inv'
    <3>1. /\ UNCHANGED <<summaries, jobs, projectOf, conv>>
          /\ pc[r] # "idle"
          /\ \A s \in Requests \ {r} : pc'[s] = pc[s] /\ body'[s] = body[s]
      BY <1>3, <2>2 DEF Splice, cacheVars, TypeOK
    <3>2. body'[r] \subseteq OwnMessages(Project(r))
      <4>1. \/ body'[r] = body[r]
            \/ /\ Cached(Project(r))
               /\ body'[r] = Apply(body[r], summaries[Project(r)])
        BY <1>3, <2>2 DEF Splice, TypeOK
      <4>2. body[r] \subseteq OwnMessages(Project(r))
        BY <1>3, <3>1
      <4>3. Cached(Project(r)) =>
              summaries[Project(r)] \subseteq OwnMessages(Project(r))
        BY <1>3 DEF Cached
      <4>4. QED BY <4>1, <4>2, <4>3 DEF Apply, LastUserPrompt
    <3>3. CachedOwn' /\ JobsOwn'
      BY <1>3, <3>1 DEF OwnMessages
    <3>4. BodiesOwn'
      BY <1>3, <3>1, <3>2 DEF Project, OwnMessages
    <3>5. QED BY <3>3, <3>4
  <2>3. ASSUME UNCHANGED <<summaries, jobs, projectOf, conv>>,
               \A r \in Requests : pc[r] = "idle" => pc'[r] = "idle",
               \A r \in Requests : body'[r] \subseteq body[r]
        PROVE  Inv'
    BY <1>3, <2>3 DEF Project, OwnMessages
  <2>4. ASSUME NEW r \in Requests,
               MessageStart(r) \/ MessageDelta(r) \/ DoneStream(r) \/ DoneJSON(r)
        PROVE  Inv'
    <3>1. PICK total \in Nat, next \in {"idle", "stream"} : Report(r, total, next)
      BY <1>3, <2>4, ReportingSteps
    <3>2. /\ UNCHANGED <<summaries, jobs, projectOf, conv>>
          /\ pc[r] # "idle"
          /\ \A s \in Requests \ {r} : pc'[s] = pc[s]
          /\ \A s \in Requests : body'[s] \subseteq body[s]
      BY <1>3, <2>4, <3>1, ReportingSteps, ReportEffect DEF cacheVars, TypeOK
    <3>3. QED BY <2>3, <3>2
  <2>5. ASSUME NEW r \in Requests, DoneSilent(r)
        PROVE  Inv'
    <3>1. /\ UNCHANGED <<summaries, jobs, projectOf, conv>>
          /\ \A s \in Requests : pc[s] = "idle" => pc'[s] = "idle"
          /\ \A s \in Requests : body'[s] \subseteq body[s]
      BY <1>3, <2>5 DEF DoneSilent, Continue, cacheVars, TypeOK
    <3>2. QED BY <2>3, <3>1
  <2>6. ASSUME NEW r \in Requests, StartCompute(r)
        PROVE  Inv'
    <3>1. /\ UNCHANGED <<summaries, projectOf, conv>>
          /\ \A s \in Requests : body'[s] \subseteq body[s]
          /\ jobs' \subseteq jobs \cup {[proj |-> Project(r), convo |-> body[r]]}
          /\ pc[r] # "idle"
          /\ \A s \in Requests \ {r} : pc'[s] = pc[s]
      BY <1>3, <2>6 DEF StartCompute, StartComputeFor, Continue, cacheVars, TypeOK
    <3>2. body[r] \subseteq OwnMessages(Project(r))
      BY <1>3, <3>1
    <3>3. JobsOwn'
      BY <1>3, <3>1, <3>2 DEF OwnMessages
    <3>4. CachedOwn' /\ BodiesOwn'
      BY <1>3, <3>1 DEF Project, OwnMessages
    <3>5. QED BY <3>3, <3>4
  <2>7. ASSUME NEW p \in Projects, Settle(p)
        PROVE  Inv'
    <3>1. PICK j \in jobs : ComputeSucceeds(j) \/ ComputeFails(j)
      BY <2>7 DEF Settle, JobsOf
    <3>2. UNCHANGED <<projectOf, pc, conv, body>> /\ jobs' \subseteq jobs
      BY <2>7, <3>1 DEF Settle, handlerVars, ComputeSucceeds, ComputeFails
    <3>3. CachedOwn'
      BY <1>3, <3>1, <3>2 DEF ComputeSucceeds, ComputeFails, OwnMessages
    <3>4. JobsOwn' /\ BodiesOwn'
      BY <1>3, <3>2 DEF Project, OwnMessages
    <3>5. QED BY <3>3, <3>4
  <2>8. CASE UNCHANGED vars
    BY <2>3, <2>8 DEF vars, cacheVars, handlerVars
  <2>9. QED
    BY <1>3, <2>1, <2>2, <2>4, <2>5, <2>6, <2>7, <2>8 DEF Next, Handle
<1>4. QED BY <1>1, <1>2, <1>3, TypeCorrect, PTL DEF Spec

-----------------------------------------------------------------------------

\* A text of the conversation a body is for.
HasText(b, c) == \E m \in b \ ToolTurns : m[1] = c

\* A body still to be spliced is of its own conversation only.
PromptInv ==
  \A r \in Requests :
    /\ pc[r] # "idle" => HasText(body[r], conv[r])
    /\ pc[r] = "lookup" => body[r] \subseteq {conv[r]} \X (1..MaxTurns)

\* LastUserPrompt finds a text where there is one.
LEMMA PromptFound ==
  ASSUME NEW c \in Conversations, NEW b \in SUBSET ({c} \X (1..MaxTurns)), HasText(b, c)
  PROVE  HasText(LastUserPrompt(b), c)
<1> DEFINE texts == b \ ToolTurns
           places == {m[2] : m \in texts}
<1>1. \A m \in texts : m[1] = c /\ m[2] \in 0..MaxTurns
  BY MaxTurnsAssumption
<1>2. places \subseteq 0..MaxTurns /\ places # {}
  BY <1>1 DEF HasText
<1>3. PICK x \in places : \A y \in places : y <= x
  <2> HIDE DEF places
  <2>1. QED BY <1>2, Greatest, MaxTurnsAssumption
<1>4. PICK m \in texts : x = m[2]
  OBVIOUS
<1>5. m \in LastUserPrompt(b) /\ m \notin ToolTurns
  BY <1>3, <1>4 DEF LastUserPrompt
<1>6. QED BY <1>1, <1>4, <1>5 DEF HasText

\* Every request forwarded carries a text its own client typed: the first
\* message of a conversation at least, and after Apply the newest one, whatever
\* conversation the summary is of.
THEOREM PromptCorrect == Spec => []PromptForwarded
<1>1. Init => PromptInv
  BY DEF Init, PromptInv
<1>2. ASSUME TypeOK, PromptInv, [Next]_vars
      PROVE  PromptInv'
  <2>1. ASSUME NEW r \in Requests, NEW c \in Conversations, Drain(r, c)
        PROVE  PromptInv'
    <3>1. /\ conv' = [conv EXCEPT ![r] = c]
          /\ body' = [body EXCEPT ![r] = History(c, turns[c] + 1)]
          /\ turns[c] + 1 \in 1..MaxTurns
          /\ \A s \in Requests \ {r} : pc'[s] = pc[s]
      BY <1>2, <2>1, MaxTurnsAssumption DEF Drain, TypeOK
    <3>2. <<c, 1>> \in History(c, turns[c] + 1) \ ToolTurns
      BY <3>1, ToolTurnsAssumption DEF History
    <3>3. /\ body'[r] = History(c, turns[c] + 1) /\ conv'[r] = c
          /\ \A s \in Requests \ {r} : body'[s] = body[s] /\ conv'[s] = conv[s]
      BY <1>2, <3>1 DEF TypeOK
    <3>4. HasText(body'[r], c) /\ body'[r] \subseteq {c} \X (1..MaxTurns)
      <4>1. HasText(History(c, turns[c] + 1), c)
        <5>1. <<c, 1>>[1] = c
          OBVIOUS
        <5>2. QED BY <3>2, <5>1 DEF HasText
      <4>2. 1..(turns[c] + 1) \subseteq 1..MaxTurns
        BY <3>1, MaxTurnsAssumption
      <4>3. QED BY <3>3, <4>1, <4>2 DEF History
    <3>5. QED BY <1>2, <3>1, <3>3, <3>4 DEF PromptInv
  <2>2. ASSUME NEW r \in Requests, Splice(r)
        PROVE  PromptInv'
    <3>1. /\ pc[r] = "lookup" /\ pc'[r] = "forward" /\ conv' = conv
          /\ \A s \in Requests \ {r} : pc'[s] = pc[s] /\ body'[s] = body[s]
          /\ \/ body'[r] = body[r]
             \/ body'[r] = Apply(body[r], summaries[Project(r)])
      BY <1>2, <2>2 DEF Splice, TypeOK
    <3>2. /\ HasText(body[r], conv[r]) /\ conv[r] \in Conversations
          /\ body[r] \subseteq {conv[r]} \X (1..MaxTurns)
      BY <1>2, <3>1 DEF PromptInv, TypeOK
    <3>3. HasText(LastUserPrompt(body[r]), conv[r])
      BY <3>2, PromptFound
    <3>4. HasText(body'[r], conv[r])
      BY <3>1, <3>2, <3>3 DEF Apply, HasText
    <3>5. QED BY <1>2, <3>1, <3>4 DEF PromptInv
  <2>3. ASSUME conv' = conv,
               \A s \in Requests : \/ pc'[s] = "idle"
                                   \/ /\ pc[s] # "idle" /\ body'[s] = body[s]
                                      /\ pc'[s] = pc[s] \/ pc'[s] # "lookup"
                                   \/ pc'[s] = pc[s] /\ body'[s] = body[s]
        PROVE  PromptInv'
    BY <1>2, <2>3 DEF PromptInv
  <2>4. ASSUME NEW r \in Requests, NEW next \in {"idle", "start", "stream"},
               pc[r] # "idle", conv' = conv, Continue(r, next)
        PROVE  PromptInv'
    <3>1. /\ pc'[r] = next
          /\ next # "idle" => body'[r] = body[r]
          /\ \A s \in Requests \ {r} : pc'[s] = pc[s] /\ body'[s] = body[s]
      BY <1>2, <2>4 DEF Continue, TypeOK
    <3>2. ASSUME NEW s \in Requests
          PROVE  \/ pc'[s] = "idle"
                 \/ /\ pc[s] # "idle" /\ body'[s] = body[s]
                    /\ pc'[s] = pc[s] \/ pc'[s] # "lookup"
                 \/ pc'[s] = pc[s] /\ body'[s] = body[s]
      <4>1. CASE s = r
        BY <2>4, <3>1, <4>1
      <4>2. CASE s # r
        BY <3>1, <4>2
      <4>3. QED BY <4>1, <4>2
    <3>3. QED BY <2>3, <2>4, <3>2
  <2>5. ASSUME NEW r \in Requests,
               MessageStart(r) \/ MessageDelta(r) \/ DoneStream(r) \/ DoneJSON(r)
        PROVE  PromptInv'
    <3>1. PICK total \in Nat, next \in {"idle", "stream"} : Report(r, total, next)
      BY <1>2, <2>5, ReportingSteps
    <3>2. /\ pc[r] # "idle" /\ conv' = conv
          /\ \E n \in {"idle", "start", "stream"} : Continue(r, n)
      BY <1>2, <2>5, <3>1, ReportingSteps DEF Report
    <3>3. QED BY <2>4, <3>2
  <2>6. ASSUME NEW r \in Requests, DoneSilent(r) \/ StartCompute(r)
        PROVE  PromptInv'
    <3>1. /\ pc[r] # "idle" /\ conv' = conv
          /\ \E n \in {"idle", "start", "stream"} : Continue(r, n)
      BY <1>2, <2>6 DEF DoneSilent, StartCompute, TypeOK
    <3>2. QED BY <2>4, <3>1
  <2>7. CASE (\E p \in Projects : Settle(p)) \/ UNCHANGED vars
    BY <2>3, <2>7 DEF Settle, vars, handlerVars
  <2>8. QED
    BY <1>2, <2>1, <2>2, <2>5, <2>6, <2>7 DEF Next, Handle
<1>3. PromptInv => PromptForwarded
  BY DEF PromptInv, PromptForwarded, HasText
<1>4. QED BY <1>1, <1>2, <1>3, TypeCorrect, PTL DEF Spec

-----------------------------------------------------------------------------

\* One project's hook changes: its phase changes, and no other project's.
LEMMA PhaseMoves ==
  ASSUME NEW p \in Projects, NEW s,
         phaseOf'[p] = s,
         \A q \in Projects \ {p} :
           hook'[q] = hook[q] /\ applyPending'[q] = applyPending[q]
  PROVE  phaseOf' = [phaseOf EXCEPT ![p] = s]
<1>1. \A q \in Projects \ {p} : phaseOf'[q] = phaseOf[q]
  BY DEF phaseOf
<1>2. /\ phaseOf' = [q \in Projects |-> phaseOf'[q]]
      /\ DOMAIN phaseOf = Projects
  BY DEF phaseOf
<1>3. QED BY <1>1, <1>2

\* One project's cache entry changes.
LEMMA SummaryMoves ==
  ASSUME NEW p \in Projects, NEW s,
         summaryOf'[p] = s,
         \A q \in Projects \ {p} :
           (Cached(q)' <=> Cached(q)) /\ (q \in pending' <=> q \in pending)
  PROVE  summaryOf' = [summaryOf EXCEPT ![p] = s]
<1>1. \A q \in Projects \ {p} : summaryOf'[q] = summaryOf[q]
  BY DEF summaryOf
<1>2. /\ summaryOf' = [q \in Projects |-> summaryOf'[q]]
      /\ DOMAIN summaryOf = Projects
  BY DEF summaryOf
<1>3. QED BY <1>1, <1>2

\* A step that leaves the sessions alone leaves every phase alone ...
LEMMA SessionsMapUnchanged == UNCHANGED sessionVars => phaseOf' = phaseOf
BY DEF sessionVars, phaseOf

\* ... and one that leaves the cache alone leaves every stored summary alone.
LEMMA CacheMapUnchanged == UNCHANGED cacheVars => summaryOf' = summaryOf
BY DEF cacheVars, summaryOf, Cached

\* Draining a session is a step of the phases: ready to idle, or a stutter.
LEMMA DrainTakes ==
  ASSUME TypeOK, NEW r \in Requests, NEW c \in Conversations, Drain(r, c)
  PROVE  [Phased!Next]_Phased!phaseVars
<1>1. PICK p \in Projects : p = projectOf[c]
  BY DEF TypeOK
<1>2. summaryOf' = summaryOf
  BY CacheMapUnchanged DEF Drain
<1>3. CASE applyPending[p]
  <2>1. phaseOf[p] = "armed"
    BY <1>3 DEF phaseOf
  <2>2. phaseOf'[p] = "watching"
    BY <1>1, <1>3, DrainEffect DEF phaseOf
  <2>3. phaseOf' = [phaseOf EXCEPT ![p] = "watching"]
    BY <1>1, <2>2, DrainEffect, PhaseMoves
  <2>4. QED BY <1>2, <2>1, <2>3 DEF Phased!Next, Phased!Take
<1>4. CASE ~applyPending[p]
  <2>1. phaseOf'[p] = phaseOf[p]
    BY <1>1, <1>4, DrainEffect DEF phaseOf
  <2>2. phaseOf' = [phaseOf EXCEPT ![p] = phaseOf[p]]
    BY <1>1, <2>1, DrainEffect, PhaseMoves
  <2>3. phaseOf' = phaseOf
    BY <2>2 DEF phaseOf
  <2>4. QED BY <1>2, <2>3 DEF Phased!phaseVars
<1>5. QED BY <1>3, <1>4

\* Reporting a total is a warning, an arming or a stutter of the phases.
LEMMA ReportWarnsOrArms ==
  ASSUME TypeOK, HookConsistent, NEW r \in Requests, NEW total \in Nat,
         NEW next \in {"idle", "stream"}, Report(r, total, next)
  PROVE  [Phased!Next]_Phased!phaseVars
<1>1. PICK p \in Projects : p = Project(r)
  BY ReportEffect
<1>2. /\ summaryOf' = summaryOf
      /\ \A q \in Projects \ {p} :
           hook'[q] = hook[q] /\ applyPending'[q] = applyPending[q]
      /\ applyPending[p] => applyPending'[p]
      /\ hook[p].pre => hook'[p].pre
  BY <1>1, ReportEffect, CacheMapUnchanged
<1>3. CASE ~applyPending[p] /\ applyPending'[p]
  <2>1. phaseOf[p] # "armed" /\ phaseOf'[p] = "armed"
    BY <1>3 DEF phaseOf
  <2>2. phaseOf' = [phaseOf EXCEPT ![p] = "armed"]
    BY <1>2, <2>1, PhaseMoves
  <2>3. QED BY <1>2, <2>1, <2>2 DEF Phased!Next, Phased!Arm
<1>4. CASE ~applyPending'[p] /\ ~hook[p].pre /\ hook'[p].pre
  <2>1. phaseOf[p] = "watching" /\ phaseOf'[p] = "warned"
    BY <1>2, <1>4 DEF phaseOf
  <2>2. phaseOf' = [phaseOf EXCEPT ![p] = "warned"]
    BY <1>2, <2>1, PhaseMoves
  <2>3. QED BY <1>2, <2>1, <2>2 DEF Phased!Next, Phased!Warn
<1>5. CASE /\ applyPending[p] <=> applyPending'[p]
           /\ applyPending[p] \/ (hook[p].pre <=> hook'[p].pre)
  <2>1. phaseOf'[p] = phaseOf[p]
    BY <1>5 DEF phaseOf
  <2>2. phaseOf' = [phaseOf EXCEPT ![p] = phaseOf[p]]
    BY <1>2, <2>1, PhaseMoves
  <2>3. phaseOf' = phaseOf
    BY <2>2 DEF phaseOf
  <2>4. QED BY <1>2, <2>3 DEF Phased!phaseVars
<1>6. QED BY <1>2, <1>3, <1>4, <1>5

\* The start of a computation is one of the phases, or a stutter.
LEMMA StartComputeBegins ==
  ASSUME TypeOK, NEW r \in Requests, StartCompute(r)
  PROVE  [Phased!Next]_Phased!phaseVars
<1>1. PICK p \in Projects : p = Project(r)
  BY DEF TypeOK, Project
<1>2. phaseOf' = phaseOf
  BY SessionsMapUnchanged DEF StartCompute
<1>3. CASE Cached(p) \/ p \in pending
  BY <1>1, <1>2, <1>3, CacheMapUnchanged
  DEF StartCompute, StartComputeFor, Phased!phaseVars
<1>4. CASE ~(Cached(p) \/ p \in pending)
  <2>1. summaries' = summaries /\ pending' = pending \cup {p}
    BY <1>1, <1>4 DEF StartCompute, StartComputeFor
  <2>2. summaryOf[p] = "absent" /\ summaryOf'[p] = "computing"
    BY <1>4, <2>1 DEF summaryOf, Cached
  <2>3. summaryOf' = [summaryOf EXCEPT ![p] = "computing"]
    BY <2>1, <2>2, SummaryMoves DEF Cached
  <2>4. QED BY <1>2, <2>2, <2>3 DEF Phased!Next, Phased!Begin
<1>5. QED BY <1>3, <1>4

\* The end of a job is the end of a computation of the phases.
LEMMA SettleEnds ==
  ASSUME TypeOK, SingleFlight, NEW p \in Projects, Settle(p)
  PROVE  [Phased!Next]_Phased!phaseVars
<1>1. phaseOf' = phaseOf
  BY SessionsMapUnchanged DEF Settle
<1>2. PICK j \in JobsOf(p) : ComputeSucceeds(j) \/ ComputeFails(j)
  BY DEF Settle
<1>3. /\ p \in pending /\ ~Cached(p)
      /\ pending' = pending \ {p}
      /\ \A q \in Projects \ {p} : Cached(q)' <=> Cached(q)
  BY <1>2 DEF SingleFlight, JobsOf, ComputeSucceeds, ComputeFails, Cached
<1>4. summaryOf[p] = "computing"
  BY <1>3 DEF summaryOf
<1>5. PICK s \in {"ready", "absent"} : summaryOf'[p] = s
  BY <1>3 DEF summaryOf
<1>6. summaryOf' = [summaryOf EXCEPT ![p] = s]
  BY <1>3, <1>5, SummaryMoves
<1>7. QED BY <1>1, <1>4, <1>6 DEF Phased!Next, Phased!End

\* The handlers, the hook's flags and the cache implement the phases: an armed
\* compaction is taken once, a summary is computed by one computation at a
\* time and stays (the safety part of ImplementsPhases).
THEOREM PhasesImplemented == Spec => Phased!Safety
<1>1. Init => Phased!Init
  <2>1. SUFFICES ASSUME Init
                 PROVE  Phased!Init
    OBVIOUS
  <2>2. \A p \in Projects : /\ applyPending[p] = FALSE /\ hook[p].pre = FALSE
                            /\ ~Cached(p) /\ p \notin pending
    BY <2>1 DEF Init, CacheInit, Cached
  <2>3. QED BY <2>2 DEF Phased!Init, phaseOf, summaryOf
<1>2. ASSUME TypeOK, HookConsistent, SingleFlight, [Next]_vars
      PROVE  [Phased!Next]_Phased!phaseVars
  <2>1. ASSUME NEW r \in Requests,
               MessageStart(r) \/ MessageDelta(r) \/ DoneStream(r) \/ DoneJSON(r)
        PROVE  [Phased!Next]_Phased!phaseVars
    BY <1>2, <2>1, ReportingSteps, ReportWarnsOrArms
  <2>2. ASSUME UNCHANGED <<cacheVars, sessionVars>>
        PROVE  [Phased!Next]_Phased!phaseVars
    BY <2>2, SessionsMapUnchanged, CacheMapUnchanged DEF Phased!phaseVars
  <2>3. QED
    BY <1>2, <2>1, <2>2, DrainTakes, StartComputeBegins, SettleEnds
    DEF Next, Handle, Splice, DoneSilent, vars
<1>3. QED
  BY <1>1, <1>2, TypeCorrect, HookCorrect, FlightCorrect, PTL
  DEF Spec, Phased!Safety

=============================================================================
