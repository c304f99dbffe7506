------------------------------- MODULE Drift -------------------------------
(***************************************************************************)
(* Drift checks (proxy/drift_hook.go, scoreAndQueueCorrection, package     *)
(* drift) beside the handlers and the captures of module Capture.          *)
(*                                                                         *)
(* Every Interval-th request starts a goroutine that looks up a goal among *)
(* the project's rows, has the extractor score the request against it,     *)
(* counts the verdict, has a correction written if the score is low,       *)
(* persists the check and queues the correction.  The next request of the  *)
(* project takes the correction from the queue and splices it in.          *)
(*                                                                         *)
(* A check, its correction and its verdict go by the number of the request *)
(* they are about.                                                         *)
(***************************************************************************)
EXTENDS Capture, Integers, FiniteSets

CONSTANTS
  Projects,
  ProjectOf,                \* the project of each request
  Interval,                 \* driftHook.interval
  Scores                    \* the scores the extractor may give

ASSUME ProjectOfAssumption == ProjectOf \in [Requests -> Projects]
ASSUME IntervalAssumption == Interval \in Nat \ {0}
ASSUME ScoresAssumption == Scores \subseteq 1..10

VARIABLES
  count,        \* driftHook.count
  check,        \* where each request's check is
  goalFrom,     \* per check: the row whose goal it uses
  score,        \* per check: the score, 0 while there is none
  escalations,  \* State.escalations
  corrections,  \* Server.corrections: a map from projects to corrections
  spliced,      \* history: a map from requests to the correction they carry
  verdicts      \* the tables steps and drift_log: the checks persisted

checkVars == <<check, goalFrom, score>>
queueVars == <<corrections, spliced>>
driftVars == <<count, checkVars, escalations, queueVars, verdicts>>
vars == <<captureVars, driftVars>>

\* LevelFromScore.
Level(n) ==
  CASE n >= 8 -> "none"
    [] n = 7 -> "nudge"
    [] n \in 5..6 -> "correct"
    [] n \in 3..4 -> "intervene"
    [] OTHER -> "halt"

Levels == {"none", "nudge", "correct", "intervene", "halt"}

NoRow == "no row"

TypeOK ==
  /\ CaptureTypeOK
  /\ count \in Nat
  /\ check \in [Requests -> {"none", "list", "score", "build", "log", "draft", "queue", "done"}]
  /\ goalFrom \in [Requests -> Requests \cup {NoRow}]
  /\ score \in [Requests -> Scores \cup {0}]
  /\ escalations \in [Projects -> Nat]
  /\ DOMAIN corrections \subseteq Projects
  /\ corrections \in [DOMAIN corrections -> Requests]
  /\ DOMAIN spliced \subseteq Requests
  /\ spliced \in [DOMAIN spliced -> Requests]
  /\ verdicts \in [{"steps", "drift_log"} -> SUBSET Requests]

Init ==
  /\ CaptureInit
  /\ count = 0
  /\ check = [h \in Requests |-> "none"]
  /\ goalFrom = [h \in Requests |-> NoRow]
  /\ score = [h \in Requests |-> 0]
  /\ escalations = [p \in Projects |-> 0]
  /\ corrections = [p \in {} |-> NoRow]
  /\ spliced = [h \in {} |-> NoRow]
  /\ verdicts = [t \in {"steps", "drift_log"} |-> {}]

Without(map, k) == [x \in DOMAIN map \ {k} |-> map[x]]

With(map, k, v) == [x \in DOMAIN map \cup {k} |-> IF x = k THEN v ELSE map[x]]

-----------------------------------------------------------------------------

\* Mutant of Consume: the correction stays queued.
ConsumeKeeps(h) ==
  LET p == ProjectOf[h]
  IN  IF p \in DOMAIN corrections
        THEN /\ corrections' = corrections
             /\ spliced' = With(spliced, h, corrections[p])
        ELSE UNCHANGED queueVars

\* consumeCorrection and injectCorrectionPayload: the correction is taken from
\* the queue even if it cannot be spliced into the body.
Consume(h) ==
  LET p == ProjectOf[h]
  IN  IF p \in DOMAIN corrections
        THEN /\ corrections' = Without(corrections, p)
             /\ \/ spliced' = With(spliced, h, corrections[p])
                \/ UNCHANGED spliced
        ELSE UNCHANGED queueVars

DriftArrive(h) ==
  /\ Arrive(h)
  /\ Consume(h)
  /\ UNCHANGED <<count, checkVars, escalations, verdicts>>

\* Mutant of Tick: the first boundary is missed.
TickLate(h) ==
  /\ Return(h)
  /\ count' = count + 1
  /\ check' = IF count' % Interval = 0 /\ count' > Interval
                THEN [check EXCEPT ![h] = "list"] ELSE check
  /\ UNCHANGED <<goalFrom, score, escalations, queueVars, verdicts>>

\* The end of a handler: driftHook.Tick, and a check at every boundary.
Tick(h) ==
  /\ Return(h)
  /\ count' = count + 1
  /\ check' = IF count' % Interval = 0 THEN [check EXCEPT ![h] = "list"] ELSE check
  /\ UNCHANGED <<goalFrom, score, escalations, queueVars, verdicts>>

-----------------------------------------------------------------------------

\* Mutant of RowsOf: the rows of every project.
RowsOfAll(h) == Rows

\* The rows ListTasks returns to the check of a request.
RowsOf(h) == {t \in Rows : ProjectOf[t] = ProjectOf[h]}

Newest(S) == CHOOSE t \in S : \E i \in DOMAIN tasks :
               tasks[i] = t /\ \A j \in DOMAIN tasks : tasks[j] \in S => j <= i

CheckAt(h, at, next) ==
  /\ check[h] = at
  /\ server # "exited"
  /\ check' = [check EXCEPT ![h] = next]
  /\ UNCHANGED captureVars

\* A check ends early: no rows, no goal, an error of the store or of the
\* extractor, its 30 s over.
GiveUp(h) ==
  /\ CheckAt(h, "list", "done") \/ CheckAt(h, "score", "done")
  /\ UNCHANGED <<count, goalFrom, score, escalations, queueVars, verdicts>>

\* The goal is the newest enriched row's.
ListTasks(h) ==
  /\ CheckAt(h, "list", "score")
  /\ StoreOpen
  /\ RowsOf(h) \cap enriched # {}
  /\ goalFrom' = [goalFrom EXCEPT ![h] = Newest(RowsOf(h) \cap enriched)]
  /\ UNCHANGED <<count, score, escalations, queueVars, verdicts>>

\* Mutant of Escalate: a nudge counts as a recovery.
EscalateAboveNudge(p, level) ==
  escalations' = [escalations EXCEPT
    ![p] = IF level \notin {"none", "nudge"} THEN @ + 1 ELSE IF @ > 0 THEN @ - 1 ELSE @]

\* Mutant of Escalate: no floor.
EscalateBelowZero(p, level) ==
  escalations' = [escalations EXCEPT ![p] = IF level # "none" THEN @ + 1 ELSE @ - 1]

\* State.Record.
Escalate(p, level) ==
  escalations' = [escalations EXCEPT
    ![p] = IF level # "none" THEN @ + 1 ELSE IF @ > 0 THEN @ - 1 ELSE @]

\* ScoreAction answers and the level is counted.
ScoreAction(h) ==
  \E n \in Scores :
    /\ CheckAt(h, "score", IF Level(n) = "none" THEN "log" ELSE "build")
    /\ score' = [score EXCEPT ![h] = n]
    /\ Escalate(ProjectOf[h], Level(n))
    /\ UNCHANGED <<count, goalFrom, queueVars, verdicts>>

\* BuildCorrection returns a text, or an error or an empty text: the verdict is
\* persisted either way, and a text is queued.
BuildCorrection(h) ==
  /\ CheckAt(h, "build", "draft") \/ CheckAt(h, "build", "log")
  /\ UNCHANGED <<count, goalFrom, score, escalations, queueVars, verdicts>>

\* Persist: one row in the table the score selects.  Its error is ignored.
Persist(h) ==
  LET table == IF score[h] >= 5 THEN "steps" ELSE "drift_log"
  IN  /\ CheckAt(h, "log", "done") \/ CheckAt(h, "draft", "queue")
      /\ \/ StoreOpen /\ verdicts' = [verdicts EXCEPT ![table] = @ \cup {h}]
         \/ UNCHANGED verdicts
      /\ UNCHANGED <<count, goalFrom, score, escalations, queueVars>>

\* queueCorrection: the project's queued correction, if any, is overwritten.
QueueCorrection(h) ==
  /\ CheckAt(h, "queue", "done")
  /\ corrections' = With(corrections, ProjectOf[h], h)
  /\ UNCHANGED <<count, goalFrom, score, escalations, spliced, verdicts>>

-----------------------------------------------------------------------------

CheckStep(h) ==
  \/ ListTasks(h) \/ ScoreAction(h) \/ BuildCorrection(h)
  \/ Persist(h) \/ QueueCorrection(h) \/ GiveUp(h)

Next ==
  \/ \E h \in Requests :
       \/ DriftArrive(h) \/ Tick(h) \/ CheckStep(h)
       \/ (Answer(h) \/ Record(h) \/ WriterStep(h)) /\ UNCHANGED driftVars
  \/ ServerStep /\ UNCHANGED driftVars

Spec == Init /\ [][Next]_vars

-----------------------------------------------------------------------------

Scored(p) == {h \in Requests : ProjectOf[h] = p /\ score[h] # 0}

Drifted(p) == {h \in Scored(p) : Level(score[h]) # "none"}

\* The escalation counter stays between what forgetting no verdict and what
\* forgetting no drift would give: recoveries take back one drift each, never
\* more, and never more than there is.
EscalationTracksVerdicts ==
  \A p \in Projects :
    /\ escalations[p] <= Cardinality(Drifted(p))
    /\ escalations[p] >= 2 * Cardinality(Drifted(p)) - Cardinality(Scored(p))

\* A correction that is queued or was spliced in comes from a check of the same
\* project, with a score that calls for one, against a goal the extractor found
\* in that project's rows.
CorrectionEarned ==
  LET Earned(p, h) == /\ ProjectOf[h] = p
                      /\ score[h] # 0 /\ Level(score[h]) # "none"
                      /\ goalFrom[h] \in enriched /\ ProjectOf[goalFrom[h]] = p
  IN  /\ \A p \in DOMAIN corrections : Earned(p, corrections[p])
      /\ \A r \in DOMAIN spliced : Earned(ProjectOf[r], spliced[r])

\* However the handlers and the checks interleave, no correction goes into two
\* requests, and none that went into one is queued.
CorrectionUsedOnce ==
  /\ \A r, t \in DOMAIN spliced : spliced[r] = spliced[t] => r = t
  /\ \A r \in DOMAIN spliced, p \in DOMAIN corrections : spliced[r] # corrections[p]

\* Concurrent handlers share one counter: of all requests that ended, exactly
\* every Interval-th is checked.
EveryNthChecked ==
  Cardinality({h \in Requests : check[h] # "none"}) = count \div Interval

=============================================================================
