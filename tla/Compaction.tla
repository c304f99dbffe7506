----------------------------- MODULE Compaction -----------------------------
(***************************************************************************)
(* Auto-compaction in the proxy (internal/proxy compact_hook.go,           *)
(* compact_state.go, usage_tap.go and the parts of handleMessages that     *)
(* drive them), on top of the summary cache.                               *)
(*                                                                         *)
(* Every request of a client is handled by a goroutine of its own.  A      *)
(* handler drains the project's pending compaction, splices the cached     *)
(* summary into the body, forwards it, and while the response streams      *)
(* back reports the token usage it sees: at message_start, at every        *)
(* message_delta, and once more when the response is over.  Handlers of    *)
(* one project share its hook, and a client may send the next request      *)
(* before the handler of the previous one has made its last report.        *)
(***************************************************************************)
EXTENDS SummaryCache

CONSTANTS
  Assignments,  \* bound: the projects the conversations may belong to
  ToolTurns,    \* the messages that carry tool results only, no text
  Requests,     \* handler goroutines: bounds the requests in flight
  Reports,      \* token totals the upstream may report
  WarnTokens,   \* KETE_COMPACT_WARN_TOKENS
  ClearTokens   \* KETE_COMPACT_CLEAR_TOKENS

ASSUME AssignmentsAssumption == Assignments \subseteq [Conversations -> Projects]
ASSUME ReportsAssumption == Reports \subseteq Nat
ASSUME ThresholdsAssumption == WarnTokens \in Nat /\ ClearTokens \in Nat
\* A conversation opens with a message the user typed.
ASSUME ToolTurnsAssumption ==
  ToolTurns \subseteq Messages /\ \A m \in ToolTurns : m[2] # 1

VARIABLES
  projectOf,     \* the project the requests of each conversation name
  hook,          \* compactHook of each project: preComputeFired, applyFired
  applyPending,  \* compactState.applyPending of each project
  turns,         \* messages each client has in its history so far
  pc,            \* where each handler is
  resume,        \* where a handler goes on after StartCompute
  conv,          \* the conversation a handler's request belongs to
  body,          \* rawBody of a handler
  tokens         \* usageTap's input plus output tokens of a handler

sessionVars == <<hook, applyPending>>
handlerVars == <<projectOf, turns, pc, resume, conv, body, tokens>>
vars == <<cacheVars, sessionVars, handlerVars>>

PCs == {"idle", "lookup", "forward", "stream", "start"}

Hook == [pre : BOOLEAN, apply : BOOLEAN]

Project(r) == projectOf[conv[r]]

TypeOK ==
  /\ CacheTypeOK
  /\ projectOf \in [Conversations -> Projects]
  /\ hook \in [Projects -> Hook]
  /\ applyPending \in [Projects -> BOOLEAN]
  /\ turns \in [Conversations -> 0..MaxTurns]
  /\ pc \in [Requests -> PCs]
  /\ resume \in [Requests -> {"idle", "stream"}]
  /\ conv \in [Requests -> Conversations]
  /\ body \in [Requests -> SUBSET Messages]
  /\ tokens \in [Requests -> Nat]

Init ==
  /\ CacheInit
  /\ projectOf \in Assignments
  /\ hook = [p \in Projects |-> [pre |-> FALSE, apply |-> FALSE]]
  /\ applyPending = [p \in Projects |-> FALSE]
  /\ turns = [c \in Conversations |-> 0]
  /\ pc = [r \in Requests |-> "idle"]
  /\ resume = [r \in Requests |-> "idle"]
  /\ conv \in [Requests -> Conversations]
  /\ body = [r \in Requests |-> {}]
  /\ tokens = [r \in Requests |-> 0]

-----------------------------------------------------------------------------

\* Mutant of History: counts the messages from zero.
HistoryFromZero(c, n) == {c} \X (0..n)

\* The body a client sends: its whole history, the newest message included.
History(c, n) == {c} \X (1..n)

\* Mutant of LastUserPrompt: looks at the very last message only.
TextOfLastMessage(b) == {m \in b : \A k \in b : k[2] <= m[2]} \ ToolTurns

\* LastUserPrompt: the newest message of the body that carries text.
LastUserPrompt(b) ==
  {m \in b \ ToolTurns : \A k \in b \ ToolTurns : k[2] <= m[2]}

\* compact.Apply: the messages become the summary and the prompt.
Apply(b, summary) == summary \cup LastUserPrompt(b)

\* Mutants of Reset: one of the two flags stays set.
ResetPreOnly(h) == [h EXCEPT !.pre = FALSE]

ResetApplyOnly(h) == [h EXCEPT !.apply = FALSE]

\* compactHook.Reset.
Reset(h) == [h EXCEPT !.pre = FALSE, !.apply = FALSE]

\* A client sends the next message of conversation c, and its handler runs
\* drainPending: a pending compaction is taken and the hook is re-armed.
Drain(r, c) ==
  LET p == projectOf[c]
      n == turns[c] + 1
  IN  /\ pc[r] = "idle"
      /\ n <= MaxTurns
      /\ turns' = [turns EXCEPT ![c] = n]
      /\ conv' = [conv EXCEPT ![r] = c]
      /\ body' = [body EXCEPT ![r] = History(c, n)]
      /\ tokens' = [tokens EXCEPT ![r] = 0]
      /\ applyPending' = [applyPending EXCEPT ![p] = FALSE]
      /\ IF applyPending[p]
           THEN /\ hook' = [hook EXCEPT ![p] = Reset(@)]
                /\ pc' = [pc EXCEPT ![r] = "lookup"]
           ELSE /\ pc' = [pc EXCEPT ![r] = "forward"]
                /\ UNCHANGED hook
      /\ UNCHANGED <<cacheVars, projectOf, resume>>

\* Mutant of Splice: takes whatever summary the cache holds.
SpliceAny(r) ==
  /\ pc[r] = "lookup"
  /\ pc' = [pc EXCEPT ![r] = "forward"]
  /\ \E p \in DOMAIN summaries :
       body' = [body EXCEPT ![r] = Apply(@, summaries[p])]
  /\ UNCHANGED <<cacheVars, sessionVars, projectOf, turns, resume, conv, tokens>>

\* Having drained, the handler reads the cache and rewrites the body if a
\* summary is there; otherwise, and if Apply cannot parse it, the body is
\* forwarded as it came.
Splice(r) ==
  LET p == Project(r)
  IN  /\ pc[r] = "lookup"
      /\ pc' = [pc EXCEPT ![r] = "forward"]
      /\ \/ Cached(p) /\ body' = [body EXCEPT ![r] = Apply(@, summaries[p])]
         \/ UNCHANGED body
      /\ UNCHANGED <<cacheVars, sessionVars, projectOf, turns, resume, conv, tokens>>

-----------------------------------------------------------------------------

\* compactHook.Observe.
Observe(h, total) ==
  [pre |-> h.pre \/ total >= WarnTokens, apply |-> h.apply \/ total >= ClearTokens]

\* Handler r goes on at next; what it holds of its request ends with it.
Continue(r, next) ==
  /\ pc' = [pc EXCEPT ![r] = next]
  /\ body' = [body EXCEPT ![r] = IF next = "idle" THEN {} ELSE @]

\* compactSessions.observe up to its unlock: what the hook newly fires sets
\* applyPending, and sends the handler through StartCompute before it goes on
\* at next.
Report(r, total, next) ==
  LET p == Project(r)
      h == Observe(hook[p], total)
      preFired == h.pre /\ ~hook[p].pre
      applyFired == h.apply /\ ~hook[p].apply
  IN  /\ hook' = [hook EXCEPT ![p] = h]
      /\ applyPending' = [applyPending EXCEPT ![p] = @ \/ applyFired]
      /\ tokens' = [tokens EXCEPT ![r] = IF next = "idle" THEN 0 ELSE total]
      /\ Continue(r, IF preFired THEN "start" ELSE next)
      /\ resume' = [resume EXCEPT ![r] = next]
      /\ UNCHANGED <<cacheVars, projectOf, turns, conv>>

\* A streamed response begins: the tap reports message_start's tokens.
MessageStart(r) ==
  /\ pc[r] = "forward"
  /\ \E total \in Reports : Report(r, total, "stream")

\* message_delta carries the output tokens so far, which never shrink.
MessageDelta(r) ==
  /\ pc[r] = "stream"
  /\ \E total \in Reports : total >= tokens[r] /\ Report(r, total, "stream")

\* The response is over and the deferred Done runs: a stream's last totals
\* are reported once more, ...
DoneStream(r) ==
  /\ pc[r] = "stream"
  /\ Report(r, tokens[r], "idle")

\* ... a plain JSON response is parsed here (0 when it has no usage, as after
\* a failed forward), ...
DoneJSON(r) ==
  /\ pc[r] = "forward"
  /\ \E total \in Reports \cup {0} : Report(r, total, "idle")

\* ... and a stream without a usage frame reports nothing.
DoneSilent(r) ==
  /\ pc[r] = "forward"
  /\ Continue(r, "idle")
  /\ UNCHANGED <<cacheVars, sessionVars, projectOf, turns, resume, conv, tokens>>

\* observe after its unlock: the handler hands its conversation to the cache.
StartCompute(r) ==
  /\ pc[r] = "start"
  /\ StartComputeFor(Project(r), body[r])
  /\ Continue(r, resume[r])
  /\ UNCHANGED <<sessionVars, projectOf, turns, resume, conv, tokens>>

\* A computation ends.
Settle(p) ==
  /\ \E j \in JobsOf(p) : ComputeSucceeds(j) \/ ComputeFails(j)
  /\ UNCHANGED <<sessionVars, handlerVars>>

-----------------------------------------------------------------------------

Handle(r) ==
  \/ \E c \in Conversations : Drain(r, c)
  \/ Splice(r)
  \/ MessageStart(r)
  \/ MessageDelta(r)
  \/ DoneStream(r)
  \/ DoneJSON(r)
  \/ DoneSilent(r)
  \/ StartCompute(r)

Next ==
  \/ \E r \in Requests : Handle(r)
  \/ \E p \in Projects : Settle(p)

\* A handler at StartCompute waits for nothing, and a computation ends:
\* SendWithRetry makes at most three attempts of a client with a timeout.
Fairness ==
  /\ \A r \in Requests : WF_vars(StartCompute(r))
  /\ \A p \in Projects : WF_vars(Settle(p))

Spec == Init /\ [][Next]_vars /\ Fairness

-----------------------------------------------------------------------------

\* A pending compaction and the hook that fired it go together: drainPending
\* re-arms exactly the hook whose compaction it takes, and with the thresholds
\* in order no compaction is pending before its pre-computation fired.
HookConsistent ==
  \A p \in Projects :
    /\ applyPending[p] <=> hook[p].apply
    /\ WarnTokens <= ClearTokens /\ hook[p].apply => hook[p].pre

\* Cache.pending says what runs: a project has one goroutine while it is
\* pending and none otherwise, and a cached summary is never recomputed.
SingleFlight ==
  \A p \in Projects :
    /\ p \in pending <=> JobsOf(p) # {}
    /\ \A i, j \in JobsOf(p) : i = j
    /\ p \in pending => ~Cached(p)

\* Once the warn threshold fired, the pre-computation the clear threshold
\* relies on is cached, running, about to start in some handler, or has
\* failed: the window between observe's unlock and StartCompute loses none.
ComputeUnderWay ==
  \A p \in Projects :
    hook[p].pre =>
      \/ Cached(p)
      \/ p \in pending
      \/ failures[p] > 0
      \/ \E r \in Requests : pc[r] = "start" /\ Project(r) = p

\* Messages of one project never reach another: not through the cache, a
\* computation's arguments or a rewritten body.
ProjectIsolation ==
  LET Own(p) == {m \in Messages : projectOf[m[1]] = p}
  IN  /\ \A p \in DOMAIN summaries : summaries[p] \subseteq Own(p)
      /\ \A j \in jobs : j.convo \subseteq Own(j.proj)
      /\ \A r \in Requests : pc[r] # "idle" => body[r] \subseteq Own(Project(r))

\* Whatever summary was spliced in, even one made of another conversation,
\* the request still carries a text its own client typed.
PromptForwarded ==
  \A r \in Requests :
    pc[r] # "idle" => \E m \in body[r] \ ToolTurns : m[1] = conv[r]

\* A cached summary is never replaced or dropped, so what the computation for
\* the first crossing stored is what every later compaction splices in.
SummaryWrittenOnce ==
  [][\A p \in DOMAIN summaries : Cached(p)' /\ summaries'[p] = summaries[p]]_vars

\* Every crossing of the warn threshold ends with a summary, or with a
\* computation that failed.
CrossingIsAnswered ==
  \A r \in Requests, p \in Projects :
    pc[r] = "start" /\ Project(r) = p ~> Cached(p) \/ failures[p] > 0

-----------------------------------------------------------------------------

\* Compaction as the phases a project goes through.
phaseOf ==
  [p \in Projects |->
     IF applyPending[p] THEN "armed" ELSE IF hook[p].pre THEN "warned" ELSE "watching"]

summaryOf ==
  [p \in Projects |->
     IF Cached(p) THEN "ready" ELSE IF p \in pending THEN "computing" ELSE "absent"]

Phased == INSTANCE CompactionPhases WITH phase <- phaseOf, summary <- summaryOf

\* The detailed handlers implement the phases: one compaction per crossing,
\* taken once; one computation at a time, which always ends.
ImplementsPhases == Phased!Spec

-----------------------------------------------------------------------------

\* What the repository's comments and briefs say of compaction, and the code
\* does not do.

\* A handler that drained a pending compaction has a summary to splice in: if
\* the pre-computation has not finished, a synchronous one takes its place.
SynchronousFallback ==
  [][\A r \in Requests : Splice(r) => Cached(Project(r))]_vars

\* Reporting the same totals a second time changes nothing.
DuplicateReportIsSafe ==
  [][\A r \in Requests : DoneStream(r) => UNCHANGED sessionVars]_vars

=============================================================================
