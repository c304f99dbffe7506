# A verification development for kete

kete is a local HTTP proxy between a coding assistant and its model provider.
It forwards `/v1/messages` requests, captures them as task rows in a SQLite
store, injects memory and drift corrections, compacts long conversations, keeps
the provider's prompt cache warm while the user thinks, and serves captured
tasks to the assistant through an MCP server. This directory holds TLA+ models
of the parts where handlers, goroutines, timers and processes meet, the TLC
configurations that check them, and TLAPS proofs about them.

All source paths are relative to `src/internal/`.

## Inventory

| component | state | operations | hard behaviour | what makes it correct |
|---|---|---|---|---|
| compaction (`proxy/compact_*.go`, `proxy/usage_tap.go`, `compact/`) | per project: hook flags, pending flag; cache of summaries and computations in flight | drainPending, Get/Apply, Observe (three reports per response), StartCompute and its goroutine | handlers of one project interleave between two locks; computations fail or come late | flags stay in step, one goroutine per project, no crossing lost, no mixing of projects |
| keep-alive (`keepalive/`) | per project: last body, time of the last forward, keep-alives sent | Stash, tick, fire, Close | timers against handlers; a goroutine holding an old session | a bounded number of keep-alives, none for an active session, the cached body refreshed in time, old sessions dropped |
| capture and shutdown (`proxy/capture.go`, `proxy/server.go`, `cli/store.go`) | wait group, in-flight rows, listener, store handle | Record, CreateTask, enrich, Shutdown, Wait, Close | a 500 ms shutdown against slow handlers | rows recorded before exit are written before the store closes |
| drift (`proxy/drift_hook.go`, `drift/`) | request counter, escalation per project, queued correction per project | Tick, score goroutine, Record, Persist, queue, consume | goroutines finish out of order; a consumed correction may not be injected | corrections are earned by their own project, one injection each |
| expand loop (`proxy/expand_orch.go`, `proxy/expand_loop.go`) | per request: cycle count, body | forward, resolve, continue | a model that never stops asking | bounded forwards, the answer returned is the last one |
| request pipeline (`proxy/server.go`, `route.go`, `headers.go`, `inject_mw.go`) | none of its own | handleMessages | the order of truncation, compaction, injection, capture, stash; error paths | what is captured, stashed and forwarded is what it should be |
| store migrations (`store/store.go`, `store/migrate.go`) | journal mode, schema, `schema_migrations` | applyPragmas, loadApplied, applyOne | several processes that fail each other, crashes | each migration applied once and whole, somebody opens the store |
| task store (`store/tasks.go`) | task rows | CreateTask, UpdateTask, list, search, FindByShortID, purge | two clocks, an eight-digit id, a window of 500 rows | a preview's id resolves to the task it names |
| MCP server (`mcp/`) | map of previewed ids | preview, expand, other tools | several processes over one store | expand returns the previewed task |
| extractor client (`extract/`) | none | Send, SendWithRetry | retries, cancellation | bounded attempts, no retry of a permanent error |
| body scanner (`inject/inject.go`, `compact/truncate.go`) | none | AtMessages, TruncateLargeBody | byte offsets in raw JSON | the splice lands inside the top-level messages and leaves JSON behind |
| upstream adapters (`adapter/`) | per request: the response read so far | Forward | a stream cut anywhere, by network, client or upstream | the client gets a prefix of what was sent, and the tap counts exactly that |
| formatting, command line | none | ranking, clipping, printing | none beyond their callers | not modelled |

Interaction: every request runs `handleMessages` in its own goroutine. It drains
the compaction state, forwards through an adapter with the usage tap around the
response, then hands the body to the capture (a goroutine in a wait group), to
drift scoring (a goroutine in no wait group) and to the keep-alive manager (a
map read by a ticker goroutine). All of them share the process; capture, drift
and the MCP server share the SQLite file.

## Modules

| module | models | extends |
|---|---|---|
| `SummaryCache` | `compact.Cache`: its two maps, StartCompute, the goroutine's two ends | |
| `Compaction` | `compactHook`, `compactSessions`, `usageTap` and the compaction steps of `handleMessages` | `SummaryCache` |
| `CompactionPhases` | the abstract promise: per project a phase (watching, warned, armed) and a summary (absent, computing, ready) | |
| `Keepalive` | `keepalive.Manager`, timed, and the handlers that feed it | |
| `Capture` | `capture.Record` and its goroutines, `Server.Run`, `shutdown`, `withStore` | |
| `Drift` | the drift hook, its scoring goroutines, the escalation state and the correction queue, beside every step of `Capture` | `Capture` |
| `Memory` | task rows as memories: injection and the expand loop in the proxy, preview and expand in the MCP server | |
| `Migrate` | `store.Open` and `Migrate` by several processes | |
| `SchemaUpgrade` | the abstract promise of opening the store: the schema grows by whole versions in order, and only the last is opened | |
| `Pipeline` | `handleMessages` as a whole, with `SendWithRetry` and an extractor that may come back through the proxy | |
| `Scanner` | the code that reads JSON byte by byte: `AtMessages` and its helpers, `matchingBrace` | |
| `Stream` | a response through an adapter's `Forward` and the usage tap | |
| `Exchange` | a body scanned, then forwarded and answered | `Scanner`, `Stream` |
| `OrderLemmas` | lemmas: the least and the greatest element of a bounded set of numbers, the values of a function that is recursive on the place in a sequence | |
| `CompactionProofs`, `KeepaliveProofs`, `DriftProofs`, `MemoryProofs`, `MigrateProofs`, `PipelineProofs`, `ExchangeProofs` | the proofs about the module they are named for, `DriftProofs` about `Capture` too, `ExchangeProofs` about `Scanner` and `Stream` | that module |
| `MC...` | the instances for TLC | that module |

An operator whose name varies that of another (`ConsumeKeeps` beside `Consume`)
and whose comment calls it a mutant is a version of the code with a plausible
mistake. No specification uses it; it shows that a property can fail.

### Compaction

A handler `r` goes through `pc[r]`: `idle`, `lookup` (it drained and will read
the cache), `forward` (the body is at the provider), `stream` (a message_start
was seen), and `start` (observe has released its lock and is about to call
StartCompute; `resume[r]` is where it goes on). Each lock section of the code is
one action: `Drain` is `drainPending`, `Splice` is `Cache.Get` with `Apply`,
`MessageStart`, `MessageDelta`, `DoneStream` and `DoneJSON` are the calls of
`observe` up to its unlock, `StartCompute` is the cache's own critical section,
and `Settle` the goroutine's.

Data: a body is the set of messages it represents and a summary the set it
stands for, taking the model's summary at its best (it covers all it was given).
A message is a conversation and an index; `ToolTurns` says which carry tool
results only. Usage is one number, chosen from `Reports`; within a response it
does not shrink. A client may send its next message at any time: the proxy does
not limit the requests in flight. A nil extractor (no API key) makes the tap a
passthrough, in which case nothing of this module happens.

`ImplementsPhases` shows the whole to implement `CompactionPhases` under the
mapping `phaseOf`, `summaryOf`: a compaction is taken once per crossing, one
computation runs at a time, and each ends.

### Keepalive

`sessions` is the manager's map, `firing` the keep-alive goroutines that run,
each with its body and the time of the tick that started it, `inflight` the
handlers at the provider. `Tick` is the whole critical section of `tickAt`;
`Fire` and `FireFails` are the end of the goroutine it starts, which holds the
body and not the session, so a handler's `Stash` may come in between. `Finish`
and `FinishFails` are the two ends of a forward; the handler stashes its body
after either (`Ends`). `failed` records the bodies a request failed with, so
that a property can leave them out.

Time is `clock`. A forward takes up to `MaxLatency`, a keep-alive up to the
client's timeout, `KeepaliveTimeout`, and `Advance` lets no request run longer,
nor the clock pass a tick that is due. What is bounded, then, is the delay the
program causes; a machine so slow that ticks pile up is not covered. `Close` may
come at any time; the select of the ticker goroutine may prefer a due tick once
more.

`CacheRefreshed` states what these add up to: while a session is within two
thresholds and ticks (the ten minutes after which it expires) and nothing
failed, the provider has seen its body less than `LongestGap` ago, which is the
time the response took, threshold, tick and timeout. No smaller bound holds: a
tick may come just before the threshold, and the keep-alive of the next end at
its timeout. With the code's constants threshold and tick alone are the five
minutes that the provider keeps a cache, so the gap exceeds them whenever the
response, or the keep-alive, takes time (see below).

### Capture and Drift

In `Capture` a request's handler is `idle`, `forward`, `answered`, `recorded`,
`returned`, and its capture goroutine `create`, `enrich`, `done`. The server is
`serving`, then `draining` (in `http.Server.Shutdown`, at most 500 ms: `Drain`
may happen at once, because the model does not measure the half second),
`waiting` to call `Wait`, `blocked` in it or `released`, then `closing`, `closed`
and `exited`. A handler that outlives the deadline goes on in every one of these
states until the process exits. `Resume` includes what Go's wait group does when
`Add` is called between the release of a `Wait` and its return: it panics, and
`withStore`'s deferred close runs on the way out. `CaptureSafety` is the module
without its fairness, which is what `Drift` is shown to implement.

`Drift` adds the steps of the handlers and goroutines that concern drift:
`DriftArrive` (with `consumeCorrection` and the splice, which may fail after the
correction was taken), `Tick` at the end of the handler, and per check
`ListTasks`, `ScoreAction`, `BuildCorrection`, `Persist`, `QueueCorrection`, or
`GiveUp` at any early return. A scoring goroutine is in no wait group, so the
store may close and the process exit under it. A check, its correction and its
row are named by the request they are about; prompts, reasons and texts are data.
A score out of range gets the level, and the table, of 1 or of 10. Rows of an earlier run of the proxy, and of other
processes, are not in the table at first.

### Memory

`tasks` is the table, oldest first, `enriched` the rows with something to show.
`Newest(S, n)` is `ORDER BY created_at DESC LIMIT n`, `FindByShortID` the lookup
of an eight-character id among the newest `Window` rows of all projects.
`Inject`, `Continue`, `CapHit`, `Finish` are the expand loop of one request;
`Preview`, `Expand` and `Restart` the MCP server, a process of its own with a map
of ids. Rows captured in the same millisecond, and `kete purge`, are not
modelled.

Two rows may share an id. `FindByShortID` takes the newest, the server what it
previewed: `ProcessesAgree` says that the server then has a row of the same id,
the proxy's or an older one, for every id the proxy finds.

### Migrate

A process is at `pragma`, `create`, `load`, then for each migration `exec`,
`record`, `commit`, and ends `open` or `failed`. The first pragma switches a new
file to its write-ahead log: a process takes a reader's lock (`shared`), becomes
the only one to switch (`SwitchToWAL`), or, if there are other readers, is
refused (`busy`) and keeps its lock until its statement is over. Two such
readers refuse each other. `wal` says that the file is switched, which it stays;
then the pragma has nothing to do. The other pragmas concern the connection, and
`wal_checkpoint` reports a busy file in its row and not as an error.

SQLite is external: one transaction may write, from its first writing statement
on; a statement that meets another writer waits (the process stays where it is)
or fails; a transaction that does not commit leaves nothing. The code sets no
busy timeout, so a statement would fail at once; the model allows the wait as
well. `Crash` is a kill, or an error of `Open` that no other process causes.
`Markers` are the migrations that write nothing, so that their transaction
becomes a writer with the insert of the version only. Left out are the moments
in which SQLite recovers a log after a kill, or the last process that closes the
file removes it.

`ImplementsUpgrade` maps this to `SchemaUpgrade`: the schema is what is
committed, and a process is `opening` wherever in `Migrate` it is. A step of the
schema is the commit of the transaction that held the lock; a process that finds
nothing left to do opens with its load, or with its last commit.

### Pipeline

A request is in `served` once it reached the proxy, with the body as the proxy
rewrote it, the body it sent, and where its handler is: `forward`, `answered`,
`done`. Everything before the forward is one action, because its interleavings
are those of `Compaction` and `Drift`: `Refuse`, `Bypass`, `PassThrough` and
`Forward` are its four ways out. `Answer` is the response with the usage tap,
`Finish` the hand-over to capture, scoring and keep-alive. `calls` holds the
extractor's calls, each a goroutine of the request that started it; `SendAgain`,
`SendSucceeds` and `SendEnds` are one attempt of `SendWithRetry` and its outcome,
and each attempt is a request of the proxy's own when `KETE_ANTHROPIC_URL` points
there. `Use` is what the goroutine does with the answer.

A body is a sequence of kinds of messages. What a component keeps is one bit per
project here (a row to inject, a correction queued, a compaction pending, a
summary ready): the component's own module has the detail. `handed` records every
body given to capture, scoring, the summary or the keep-alive. `Rewritten` is
the set of bodies compaction may leave: an error of `Apply` keeps the old one,
though the pending flag is taken. Capture looks at the size of the rewritten
body, so for one that was truncated or compacted the model takes either answer
(`Captured`). Of a request that
does not stream, `sent` is its first forward; the expand loop is in `Memory`.

### Scanner, Stream and Exchange

`Scanner` keeps no text. A writer that knows JSON writes the next byte and the
scanners read it: `findClosingBracket` with its three phases (`key`, the loop of
`indexAtTopLevel`; `bracket`, the search for the array; `array`, the walk to its
end), `arrayIsEmpty` as the last byte that is no white space, and
`matchingBrace`. The writer's `open` is the stack of what it opened, which the
scanners do not have: they count, `findClosingBracket` both kinds of containers
up to the key and brackets alone after it, `matchingBrace` braces alone. Bytes
are told apart as the code does; in strings any byte may come. The string
`"messages"` is one step, and anywhere else than as the root's key it may come
as often as the writer likes, below the root also as a value.

What the code takes for granted, and the writer keeps to: the body is JSON with
an object at the root, its `messages` is an array, and no *value* directly under
the root reads `"messages"` (`indexAtTopLevel` does not ask for a colon). When
the value is no array, `findClosingBracket` takes the next bracket wherever it
is, although its error says "is not an array".

`Stream` is one response. Of bytes, those count that complete something: an
event line, a data line, the newlines around them, the end of a document.
`Passes` hands on as many as one read gives, or one framed event of Bedrock's;
the client may take fewer, which ends the forward. `Unreachable`, `Closes` and
`Breaks` are the other ends: no answer, an upstream that ends or breaks off
anywhere, and the error event `forwardStream` appends, of which the client may
take a part. A `ping` stands for every event without a usage for the tap: those
of other names, and those whose data does not parse, which may be the first of a
stream. `tap` is the usage tap
with its buffer, and as history the totals it reported. `Consumed` is the loop of
`consumeFramesLocked` over what one write gives, a recursive function. The provider's usage is
taken as its protocol has it: `message_start` first, if it parses, output tokens cumulative. A
stream that ends its lines with CRLF has no frames for `consumeFramesLocked`,
whose comment does not promise any.

`Exchange` puts the two in order, as `handleMessages` does. What `Stream` shows
is what `Compaction` takes for granted of its reports: one for `message_start`,
then totals that do not shrink, and the last once more when the stream is over.

## Runs

| run | instance | shows |
|---|---|---|
| `compaction_projects` | two conversations of one project or of two, two messages each, two handlers, reports below warn / between / at clear, one failure per project | hook and pending flag in step, one goroutine per project, no crossing lost, a text of the client in every request, no message in another project, summaries written once, every crossing answered, refinement of `CompactionPhases` with its liveness |
| `keepalive_sessions` | one project, two requests; a unit is half a minute, the constants are the code's | sessions expire, two keep-alives per request at most, a session's body seen again within `LongestGap`, Close ends everything |
| `capture_shutdown` | three requests, one too small to capture, failing inserts and extractions | what was recorded before `Wait` is over when it returns; a `Wait` that blocks has a goroutine left that will release it; every shutdown ends |
| `drift_checks` | four requests of two projects, two captured, a check after every second request, scores 2, 7 and 9 | escalations track verdicts, corrections are earned and used once, exactly every second request is checked |
| `memory_expand` | three rows of two projects, two with one id, a window of two, one request | the loop is bounded, previewed ids stay expandable, the MCP server finds a row for every id the proxy finds, the same or an older one of that id |
| `migrate_open` | three processes, three migrations, one a marker | schema and record agree, some process opens a store that has its write-ahead log, nobody waits for ever; refinement of `SchemaUpgrade`: versions come whole and in order, an open store is complete |
| `pipeline_requests` | two requests out of four kinds (huge and by default, by header, by model id, too large), four environments, the code's three attempts, two messages kept | extraction never feeds on itself; captured bodies are sent bodies without kete's injections; no tool result without its use |
| `exchange_bytes` | bodies and answers of any length, four containers deep; responses of three events with usages 0 to 2 | splice point and comma, closing brace; every usage that passed reported once, in order, in totals that never shrink |
| `compaction_fallback` | one client, one handler | counterexample: a compaction drained before its summary is there is lost |
| `compaction_duplicate` | one client, two handlers | counterexample: the report of Done re-fires a re-armed hook |
| `capture_lost` | that of `capture_shutdown` | counterexample: a handler that has not recorded by the deadline loses its row |
| `memory_window` | three rows with three ids, a window of two | counterexample: an injected memory's id no longer resolves |

The last four check one sentence each that a comment or brief says of the
program; `PROJECT.json` quotes it under "findings".

Bounds, and why they suffice:

- Compaction: `MaxTurns` messages per conversation, `MaxFailures` failed
  computations per project. Two handlers are the least that race for one hook;
  four requests in all are enough for a crossing, its drain, a second crossing
  by a late report and a second drain. The conversations are of one project in
  some initial states and of two in the others.
- Keepalive: `MaxForwards` = 2, so that one request replaces another's session
  in every order, `MaxLatency` = 2 (a minute), and `Horizon` = 25 units, past
  the idle limit of 20, a tick and every keep-alive. A keep-alive takes up to
  its timeout of one unit. One project, because sessions of different
  projects share nothing but the ticker.
- Capture: two captured requests are the least that can hold `Wait` in turn.
- Drift: two checks, one of them about either project; a third request of the
  project consumes while both run. One score of every kind: recovery, drift kept
  in `steps`, drift kept in `drift_log`.
- Memory: a window smaller than the table, two rows with one id in different
  projects; five cycles, the code's cap.
- Migrate: three processes, so that two can fail each other, at the switch of a
  new file or at a migration, while a third goes
  on, and a marker after ordinary migrations, as `0005` is.

- Exchange: depth four is root, array, message and its content; brackets and
  braces nest in either order in it. The text has no bound, because no
  part of it is kept; the theorems drop the depth. Three events are a start, a
  delta with and one without a usage, in any order after the start.
- Pipeline: one request leaves a row, a correction, a warned and a cleared
  conversation behind for the other, in every order; each environment starts
  other calls. The tool loop of five messages is cut between a
  result and the next use; two kept stand for the code's thirty.

Deadlock is not checked: each of these systems may stop, when its clients have
nothing more to send or its processes have ended.

## Fairness

- Compaction: a handler at `start` runs on (it waits for a mutex that is never
  held across a call), and a computation ends because `SendWithRetry` makes at
  most three attempts of an HTTP client with a 60 s timeout.
- Keepalive: the ticker goroutine sees the closed channel in the end, whatever
  its select prefers before; a keep-alive ends at its client's timeout of 30 s.
- Capture: inserts and extractions end, by their own timeouts at the latest, and
  a shutdown goes on once its condition holds. Go's `Shutdown` returns at the
  deadline whatever the handlers do.
- Migrate: a process that is not killed runs, and a statement that meets a lock
  gets it or gives up: at once, since the code sets no busy timeout, or after
  whatever the driver may set.
- Nothing is assumed of clients, provider responses, signals and kills. Drift,
  Memory, Pipeline and Exchange state no liveness: a check may give up at any time, and nothing
  promises that a correction is ever taken.

## Proofs

The theorems hold for every value of the constants that meets the assumptions
named in the modules (thresholds, limits and intervals are natural numbers, the
functions on conversations, tasks and requests are typed, the ids of processes
are not the model's `Nobody`).

| module | theorem | along |
|---|---|---|
| `CompactionProofs` | types, `HookConsistent`, `SingleFlight`, `ComputeUnderWay`, `ProjectIsolation`, `SummaryWrittenOnce`, `PromptForwarded`; every step is one of `CompactionPhases` | `TypeOK` alone is inductive; `HookConsistent`, `SingleFlight` and `ProjectIsolation` each with it; the others need `SingleFlight` as well, the refinement `HookConsistent` too. `PromptInv`: a body still to be spliced is of its own conversation, so the newest text found in it (`Greatest`) is one of it |
| `KeepaliveProofs` | types, `SessionsExpire`, `KeepalivesCapped`, `CacheRefreshed` | `TickerPunctual`: the next tick is never further off than the age limit and one tick after a session's forward, which bounds its age. `CapInv`: a stash counts the keep-alives of its own body, and no body is in two places, so the cap per stash is one per request. `FreshInv`: before its first keep-alive ends the provider saw the body with its forward, at most the response, threshold and tick before the keep-alive began, and that has at most its timeout to go; the second starts a tick or more after the first, late enough to last to the end of the session's time. Assumed is `CapsFit`, that the cap allows two and the threshold is not zero, as in the code |
| `DriftProofs`, of `Capture` | types, `RecordedIsWritten`, `NoLostWakeup` | `WritingInv`: a goroutine starts once its handler has answered and never again, leaves a row or a failure behind when it is past its insert, and belongs to whatever is awaited; `Wait` and the last `Done` look at all of them. `NoLostWakeup` is inductive with the types: a `Done` that leaves no goroutine is the one that releases. Both carry over to `Drift`, because every step of it is one of `CaptureSafety` or leaves the captures alone (`CaptureImplemented`) |
| `DriftProofs`, of `Drift` | types, `CorrectionUsedOnce`, `CorrectionEarned`, `EveryNthChecked`, `EscalationTracksVerdicts` | `QueueInv`: a correction that is queued or spliced in is that of a finished check, and a check queues once. `EarnedInv` carries a check's goal and score along its steps, on top of the steps of `Capture`, whose enriched rows stay so. `CheckedInv` and `ScoredInv` count: a check begins once and is scored once, so each joins a finite set with its count |
| `MemoryProofs` | types, `PreviewedExpands`, `ProcessesAgree`, `LoopBounded` | `CacheInv`: every id of the map leads to a row of that id, and what was previewed is in it. `FoundIsRow`: the lookup finds the newest row of all that have the id, so that no cached one is newer. `CyclesInv`: forwards are cycles and one |
| `MigrateProofs` | types, `SchemaRecorded`, `OpenIsMigrated`, `SomeoneOpens`, `ImplementsUpgrade` | `AtInv`, `LockInv`, `SchemaInv`: the lock is held from an unrecorded migration's first write to its commit, whoever is past it has all predecessors recorded. `WalInv`: nobody is past the pragmas of a file that is not switched, nor at the switch of one that is. `LeaderInv`: unless one crashed or the file is not switched, some process is before the start, open, or at a migration above all recorded ones, where nobody can fail it but a process that leads in its place. The refinement takes each step under these: a commit finds all predecessors of its version recorded and the version not, and nobody goes on past the last version unless all are |
| `PipelineProofs` | types, `HandedIsSent`, `ExtractionStops`, `ResultsFollowUses` | `PipelineInv`: a request is a client's or an attempt of a call for one; only a client's that names a project and no bypass is still handled, so only such a request starts calls or is handed on; what is handed on is its rewritten body, which begins the one sent. The count is that of pairs of a purpose and an attempt. `ResultsFollowUses` is inductive by itself, if an even number of messages is kept and the two sides of a conversation take turns: then what is cut begins with an even place, where no result is |
| `ExchangeProofs`, of `Scanner` | types, `SplicePoint`, `CommaSeparates`, `ObjectMatched` | `Lockstep`: outside of the array, the depth of `findClosingBracket` is the number of open containers, inside of it that of open arrays, and the depth of `matchingBrace` that of open objects; all agree with the writer on strings and escapes. The stack behind them is needed to see when a count falls to zero: the outermost container is an object, and the second, in the array, is that array |
| `ExchangeProofs`, of `Stream` | types, `ReportsWhatPassed` | `StreamInv`: what is under way is the rest of the frames after `passed`, and the tap is `At` that place: its buffer is the begun frame as far as it has passed, its totals and reports are those of the frames that passed whole. One byte takes the tap from a place to the next (`ByteTaken`), so `Consumed` takes it along any number of them; that a report is numbered by the events that count before it is a fact about the cardinality of `Told` |

`OrderLemmas` gives the proofs minima and maxima, from well-founded induction,
and `Recursion`, that a function recursive on the place in a sequence has the
values its definition says. The provers cannot use the library's induction rule
on a predicate of one's own; these proofs take the least place where the
statement fails instead, and `Smallest` says there is one.

Every invariant that the passing runs check is proved, and so are
`SummaryWrittenOnce`, `ImplementsUpgrade` and the safety of `ImplementsPhases`.
Only model-checked is what rests on fairness, which is out of the prover's
reach: `CrossingIsAnswered`, `CloseEndsAll`, `ShutdownEnds`, `OpenReturns` and
the fairness of `CompactionPhases`. What these rest on is
proved: of `ShutdownEnds`, that a `Wait` which blocks has a goroutine left to
release it (`NoLostWakeup`); of `CrossingIsAnswered`, that no crossing is lost on
its way to a goroutine (`ComputeUnderWay`); of `OpenReturns`, that who holds the
lock is at a statement that waits for nobody (`LockInv`).

## What the code and its documents disagree about

Beside the four counterexamples above, reading the code against its comments
showed the following, for which no run was added:

- a crossing after the first pre-computes nothing: the first summary is spliced
  into later, longer conversations (`SummaryWrittenOnce` is that fact), and
  conversations of one project share it;
- when the newest user message holds tool results only, compaction forwards the
  newest one with a text instead (`compact/apply.go:97`, against
  `compact/compact.go:6`);
- `keepalive/keepalive.go:65` says "Stash is called after every successful
  forward"; the handler stashes after failed ones as well, and keep-alives then
  repeat a body the provider never answered;
- `proxy/server.go:329` says a correction is spliced "ahead of memory"; both are
  appended, the correction last;
- truncation keeps the last `KETE_HARD_TRUNCATE_KEEP` messages: an odd number of
  them parts a tool result from its use, and the provider rejects the session
  (`ResultsFollowUses` is checked for an even number, as is the default of 30);
- keep-alives: of requests that end out of order the older body is stashed;
- `src/process/briefs/009-extended-cache.md` and `src/docs/how-to/enable-extended-cache.md`
  have the keep-alive refresh the cache before the five minutes the provider
  keeps it are over. The threshold is four minutes and the ticker's period one,
  counted from the end of the response: the first keep-alive may start five
  minutes after that, and reach the provider up to half a minute later. A
  response that takes any time, or an unlucky phase of the ticker, leaves the
  cache cold. `CacheRefreshed` has the bound that does hold; with five minutes
  in place of `LongestGap` it fails in TLC as soon as a response takes a unit;
- `src/process/briefs/004-memory-store.md:30` says "Multiple kete processes can open the
  DB concurrently (WAL)". On a file that no process has opened before they can
  all fail: two that hold a reader's lock at `journal_mode=WAL`
  (`store/store.go:71`) refuse each other, and there is no busy timeout and no
  retry. `SomeoneOpens` without its first conjunct fails in TLC on that trace;
- `drift/state.go` keeps `ForcedRecovery`, which nothing consults; a correction
  is consumed even if its splice fails, and one queued before a recovery is
  still injected;
- `proxy/expand_orch.go` answers the first `kete_expand` block of a response only;
- `inject/inject.go:81` says the bracket found is that of a "top-level array
  field"; a value that is no array sends the search into whatever follows;
- `extract/retry.go` says everything but 5xx and 429 fails fast, and retries
  errors that are not HTTP errors;
- a request whose forward failed is captured.

## Not modelled

- The translation of a Bedrock request and of error texts, formatting and ranking
  of memories, the command line: one call after another, without state.
- The two timestamp precisions of the task table (nothing reads `updated_at`),
  and queries no other part depends on.
- `BeforeCacheBreakpoint`, which only tests call.

## Plan

1. Task rows beside `kete purge`, a running proxy and a preview cache.
2. The reports of `Stream` and the handlers of `Compaction` joined by an abstract
   specification of one response's reports, which both implement.
3. The steps of `Pipeline` before the forward shown to be those `Compaction` and
   `Drift` allow.
