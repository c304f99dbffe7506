------------------------------ MODULE Capture ------------------------------
(***************************************************************************)
(* Capturing requests as task rows (internal/proxy, type capture) and the  *)
(* shutdown of the server, which must not lose them (Server.Run, shutdown, *)
(* cli.withStore).                                                         *)
(*                                                                         *)
(* When its forward has ended a handler calls Record, which starts a       *)
(* goroutine: it inserts a raw row, then has the extractor fill in goal,   *)
(* decisions and files.  On a signal the server stops listening, gives the *)
(* handlers half a second, waits for the goroutines and returns, after     *)
(* which the store is closed and the process exits.                        *)
(***************************************************************************)
EXTENDS Naturals, Sequences

CONSTANTS
  Requests,   \* the requests that may arrive, each with a handler
  Large,      \* those of a known project and at least minCaptureBytes long
  Extractor,  \* whether an extractor is configured
  StoreFails  \* whether an insert may fail while the store is open

ASSUME LargeAssumption == Large \subseteq Requests
ASSUME FlagsAssumption == Extractor \in BOOLEAN /\ StoreFails \in BOOLEAN

VARIABLES
  handler,   \* where each request's handler is
  writer,    \* where each request's capture goroutine is
  tasks,     \* the table: the requests with a row, oldest first
  enriched,  \* the rows UpdateTask has filled in
  server,    \* where Run and its caller are
  awaited,   \* history: captures recorded before shutdown called Wait
  dropped    \* history: captures whose insert failed in an open store

storeVars == <<tasks, enriched>>
historyVars == <<awaited, dropped>>
captureVars == <<handler, writer, storeVars, server, historyVars>>

Rows == {tasks[i] : i \in DOMAIN tasks}

StoreOpen == server \notin {"closed", "exited"}

\* The goroutines the wait group counts.
Writing == {h \in Requests : writer[h] \in {"create", "enrich"}}

Running == {h \in Requests : handler[h] \notin {"idle", "returned"}}

CaptureTypeOK ==
  /\ handler \in [Requests -> {"idle", "forward", "answered", "recorded", "returned"}]
  /\ writer \in [Requests -> {"none", "create", "enrich", "done"}]
  /\ \A h \in Requests \ Large : writer[h] = "none"
  /\ tasks \in Seq(Large)
  /\ enriched \subseteq Large
  /\ server \in {"serving", "draining", "waiting", "blocked", "released", "closing",
                 "failing", "closed", "exited"}
  /\ awaited \subseteq Large
  /\ dropped \subseteq Large

CaptureInit ==
  /\ handler = [h \in Requests |-> "idle"]
  /\ writer = [h \in Requests |-> "none"]
  /\ tasks = << >>
  /\ enriched = {}
  /\ server = "serving"
  /\ awaited = {}
  /\ dropped = {}

-----------------------------------------------------------------------------

\* A request arrives, maybe after the signal on a connection accepted before,
\* and is forwarded.
Arrive(h) ==
  /\ server # "exited"
  /\ handler[h] = "idle"
  /\ handler' = [handler EXCEPT ![h] = "forward"]
  /\ UNCHANGED <<writer, storeVars, server, historyVars>>

\* The forward ends, well or not: the client has all it will get.
Answer(h) ==
  /\ server # "exited"
  /\ handler[h] = "forward"
  /\ handler' = [handler EXCEPT ![h] = "answered"]
  /\ UNCHANGED <<writer, storeVars, server, historyVars>>

\* capture.Record: the goroutine is counted before it starts.
Record(h) ==
  /\ server # "exited"
  /\ handler[h] = "answered"
  /\ handler' = [handler EXCEPT ![h] = "recorded"]
  /\ writer' = IF h \in Large THEN [writer EXCEPT ![h] = "create"] ELSE writer
  /\ awaited' = IF h \in Large /\ server \in {"serving", "draining"}
                  THEN awaited \cup {h} ELSE awaited
  /\ UNCHANGED <<storeVars, server, dropped>>

\* The rest of the handler; then its connection is idle.
Return(h) ==
  /\ server # "exited"
  /\ handler[h] = "recorded"
  /\ handler' = [handler EXCEPT ![h] = "returned"]
  /\ UNCHANGED <<writer, storeVars, server, historyVars>>

-----------------------------------------------------------------------------

\* The goroutine ends.  The last one to do so releases a blocked Wait.
Done(h) ==
  /\ writer' = [writer EXCEPT ![h] = "done"]
  /\ server' = IF server = "blocked" /\ Writing = {h} THEN "released" ELSE server

\* The goroutine inserts the raw row ...
CreateTask(h) ==
  /\ StoreOpen
  /\ writer[h] = "create"
  /\ tasks' = Append(tasks, h)
  /\ IF Extractor
       THEN writer' = [writer EXCEPT ![h] = "enrich"] /\ UNCHANGED server
       ELSE Done(h)
  /\ UNCHANGED <<handler, enriched, historyVars>>

\* Mutant of CreateFails: an early return that is not counted.
CreateFailsUncounted(h) ==
  /\ writer[h] = "create"
  /\ server # "exited"
  /\ ~StoreOpen \/ StoreFails
  /\ writer' = [writer EXCEPT ![h] = "done"]
  /\ dropped' = IF StoreOpen THEN dropped \cup {h} ELSE dropped
  /\ UNCHANGED <<handler, storeVars, server, awaited>>

\* ... or logs the error and ends.
CreateFails(h) ==
  /\ writer[h] = "create"
  /\ server # "exited"
  /\ ~StoreOpen \/ StoreFails
  /\ Done(h)
  /\ dropped' = IF StoreOpen THEN dropped \cup {h} ELSE dropped
  /\ UNCHANGED <<handler, storeVars, awaited>>

\* The extractor answered with a goal and UpdateTask wrote it.
Enrich(h) ==
  /\ StoreOpen
  /\ writer[h] = "enrich"
  /\ enriched' = enriched \cup {h}
  /\ Done(h)
  /\ UNCHANGED <<handler, tasks, historyVars>>

\* The extractor failed, had nothing to say or ran into its 60 s, or the
\* update failed: the raw row stays.
EnrichFails(h) ==
  /\ server # "exited"
  /\ writer[h] = "enrich"
  /\ Done(h)
  /\ UNCHANGED <<handler, storeVars, historyVars>>

-----------------------------------------------------------------------------

\* A signal: the listener closes.
Signal ==
  /\ server = "serving"
  /\ server' = "draining"
  /\ UNCHANGED <<handler, writer, storeVars, historyVars>>

\* The listener fails: Run returns at once, without shutdown.
ListenerFails ==
  /\ server = "serving"
  /\ server' = "failing"
  /\ UNCHANGED <<handler, writer, storeVars, historyVars>>

\* Mutant of Drain: the capture's Wait is not called.
DrainWithoutWait ==
  /\ server = "draining"
  /\ server' = "closing"
  /\ UNCHANGED <<handler, writer, storeVars, historyVars>>

\* Mutant of Drain: no deadline.
DrainWithoutDeadline ==
  /\ server = "draining"
  /\ Running = {}
  /\ server' = "waiting"
  /\ UNCHANGED <<handler, writer, storeVars, historyVars>>

\* http.Server.Shutdown returns when every handler has, or after half a second.
Drain ==
  /\ server = "draining"
  /\ server' = "waiting"
  /\ UNCHANGED <<handler, writer, storeVars, historyVars>>

\* capture.Wait returns if no goroutine is counted and blocks otherwise.
Wait ==
  /\ server = "waiting"
  /\ server' = IF Writing = {} THEN "closing" ELSE "blocked"
  /\ UNCHANGED <<handler, writer, storeVars, historyVars>>

\* Once released it returns; but if a handler that outlived the deadline has
\* recorded another capture since, the wait group panics.
Resume ==
  /\ server = "released"
  /\ server' = IF Writing = {} THEN "closing" ELSE "failing"
  /\ UNCHANGED <<handler, writer, storeVars, historyVars>>

\* withStore closes the store, whether Run returned or panicked, ...
CloseStore ==
  /\ server \in {"closing", "failing"}
  /\ server' = "closed"
  /\ UNCHANGED <<handler, writer, storeVars, historyVars>>

\* ... and the process exits, with every goroutine that is left.
Exit ==
  /\ server = "closed"
  /\ server' = "exited"
  /\ UNCHANGED <<handler, writer, storeVars, historyVars>>

-----------------------------------------------------------------------------

HandlerStep(h) == Arrive(h) \/ Answer(h) \/ Record(h) \/ Return(h)

WriterStep(h) == CreateTask(h) \/ CreateFails(h) \/ Enrich(h) \/ EnrichFails(h)

ServerStep ==
  Signal \/ ListenerFails \/ Drain \/ Wait \/ Resume \/ CloseStore \/ Exit

CaptureNext ==
  \/ \E h \in Requests : HandlerStep(h) \/ WriterStep(h)
  \/ ServerStep

\* Inserts and extractions end, by their own timeouts at the latest, and so do
\* the steps of a shutdown once their condition holds.  Nothing is assumed of
\* clients, forwards and signals.
CaptureFairness ==
  /\ \A h \in Requests : WF_captureVars(WriterStep(h))
  /\ WF_captureVars(Drain) /\ WF_captureVars(Wait) /\ WF_captureVars(Resume)
  /\ WF_captureVars(CloseStore) /\ WF_captureVars(Exit)

CaptureSafety == CaptureInit /\ [][CaptureNext]_captureVars

CaptureSpec == CaptureSafety /\ CaptureFairness

-----------------------------------------------------------------------------

\* When Wait is released or returns, every capture recorded before it was called
\* is over: its row is in the table unless the insert itself failed, and its
\* enrichment has ended, however many handlers outlived the deadline.
RecordedIsWritten ==
  server \in {"released", "closing"} =>
    \A h \in awaited : writer[h] = "done" /\ (h \in Rows \/ h \in dropped)

\* Wait never blocks with no goroutine left to release it, whatever handlers
\* that outlived the deadline record while it waits, and however their
\* goroutines end.
NoLostWakeup == server = "blocked" => Writing # {}

\* A shutdown ends, however slow the forwards: handlers that outlive the
\* deadline may add captures while Wait waits, but not for ever.
ShutdownEnds == server = "draining" ~> server = "exited"

\* What capture.go says of Wait and the code does not do: on SIGINT no row is
\* lost of a request that was answered.
NoRowLost ==
  server = "closing" =>
    \A h \in Large :
      handler[h] \in {"answered", "recorded", "returned"}
        => h \in Rows \/ h \in dropped

=============================================================================
