------------------------------- MODULE Memory -------------------------------
(***************************************************************************)
(* Task rows as memories: the proxy injects a project's newest ones into   *)
(* requests (proxy/inject_mw.go), each under a short id, and a model that  *)
(* wants the whole row asks for it with kete_expand.  In a request that    *)
(* does not stream the proxy resolves the id itself and forwards again     *)
(* (runExpandLoop); otherwise the MCP server, another process over the     *)
(* same store, does, for the ids it previews and for any other             *)
(* (package mcp).                                                          *)
(***************************************************************************)
EXTENDS Naturals, Sequences, FiniteSets

CONSTANTS
  Tasks,            \* task ids that may be inserted
  Projects,
  ProjectOf,        \* the project of each task
  Displays,         \* short ids
  ShortID,          \* the short id of each task
  Requests,         \* requests that do not stream, ...
  RequestProject,   \* ... and the project of each
  Window,           \* the rows FindByShortID looks at
  PreviewLimit,     \* previewLimit, and the memories injected at most
  MaxExpandCycles   \* maxExpandCycles

ASSUME FunctionsAssumption ==
  /\ ProjectOf \in [Tasks -> Projects]
  /\ ShortID \in [Tasks -> Displays]
  /\ RequestProject \in [Requests -> Projects]
ASSUME LimitsAssumption == {Window, PreviewLimit, MaxExpandCycles} \subseteq Nat \ {0}

VARIABLES
  tasks,      \* the rows, oldest first
  enriched,   \* the rows with a goal, decisions or files
  cache,      \* previewCache.byID of the MCP server: short ids to tasks
  previewed,  \* history: tasks the MCP server has shown since it started
  injected,   \* history: the memories in each request's body
  loop,       \* where each request's expand loop is
  cycles,     \* expandLoopGuard.cycles
  forwards    \* history: how often each request was forwarded

storeVars == <<tasks, enriched>>
mcpVars == <<cache, previewed>>
loopVars == <<injected, loop, cycles, forwards>>
vars == <<storeVars, mcpVars, loopVars>>

Rows == {tasks[i] : i \in DOMAIN tasks}

NotFound == "not found"

TypeOK ==
  /\ tasks \in Seq(Tasks)
  /\ \A i, j \in DOMAIN tasks : tasks[i] = tasks[j] => i = j
  /\ enriched \subseteq Rows
  /\ DOMAIN cache \subseteq Displays
  /\ cache \in [DOMAIN cache -> Rows]
  /\ previewed \subseteq Rows
  /\ injected \in [Requests -> SUBSET Rows]
  /\ loop \in [Requests -> {"idle", "forward", "done"}]
  /\ cycles \in [Requests -> 0..MaxExpandCycles]
  /\ forwards \in [Requests -> Nat]

Init ==
  /\ tasks = << >>
  /\ enriched = {}
  /\ cache = [d \in {} |-> NotFound]
  /\ previewed = {}
  /\ injected = [h \in Requests |-> {}]
  /\ loop = [h \in Requests |-> "idle"]
  /\ cycles = [h \in Requests |-> 0]
  /\ forwards = [h \in Requests |-> 0]

-----------------------------------------------------------------------------

\* Queries: rows come newest first.

Newer(t, u) == \E i, j \in DOMAIN tasks : tasks[i] = t /\ tasks[j] = u /\ i > j

Newest(S, n) == {t \in S : Cardinality({u \in S : Newer(u, t)}) < n}

\* The enriched rows of a project, as injectMemory and callPreview filter them.
Memories(p) == {t \in Rows : ProjectOf[t] = p /\ t \in enriched}

Matches(d) == {t \in Newest(Rows, Window) : ShortID[t] = d}

FindByShortID(d) ==
  IF Matches(d) = {} THEN NotFound ELSE CHOOSE t \in Newest(Matches(d), 1) : TRUE

-----------------------------------------------------------------------------

\* A capture in the proxy inserts a row, ...
CreateTask(t) ==
  /\ t \notin Rows
  /\ tasks' = Append(tasks, t)
  /\ UNCHANGED <<enriched, mcpVars, loopVars>>

\* ... and fills it in.
UpdateTask(t) ==
  /\ t \in Rows \ enriched
  /\ enriched' = enriched \cup {t}
  /\ UNCHANGED <<tasks, mcpVars, loopVars>>

-----------------------------------------------------------------------------

\* injectMemory, unless it is switched off or fails, then the first forward.
Inject(h) ==
  /\ loop[h] = "idle"
  /\ \/ injected' = [injected EXCEPT ![h] = Newest(Memories(RequestProject[h]), PreviewLimit)]
     \/ UNCHANGED injected
  /\ loop' = [loop EXCEPT ![h] = "forward"]
  /\ forwards' = [forwards EXCEPT ![h] = 1]
  /\ UNCHANGED <<storeVars, mcpVars, cycles>>

\* The forward fails, or the answer has an error status or no kete_expand, or
\* the body cannot be continued.
Finish(h) ==
  /\ loop[h] = "forward"
  /\ loop' = [loop EXCEPT ![h] = "done"]
  /\ UNCHANGED <<storeVars, mcpVars, injected, cycles, forwards>>

\* Mutant of Allow: one cycle more.
AllowOneMore(h) ==
  /\ cycles[h] <= MaxExpandCycles
  /\ cycles' = [cycles EXCEPT ![h] = IF @ < MaxExpandCycles THEN @ + 1 ELSE @]

\* expandLoopGuard.Allow.
Allow(h) ==
  /\ cycles[h] < MaxExpandCycles
  /\ cycles' = [cycles EXCEPT ![h] = @ + 1]

\* The answer asks to expand an id.  The tool result, a row or an error, is
\* appended and the request forwarded again.
Continue(h) ==
  /\ loop[h] = "forward"
  /\ Allow(h)
  /\ forwards' = [forwards EXCEPT ![h] = @ + 1]
  /\ UNCHANGED <<storeVars, mcpVars, injected, loop>>

\* The answer asks once more than is allowed: it goes to the client as it is.
CapHit(h) ==
  /\ loop[h] = "forward"
  /\ cycles[h] >= MaxExpandCycles
  /\ loop' = [loop EXCEPT ![h] = "done"]
  /\ UNCHANGED <<storeVars, mcpVars, injected, cycles, forwards>>

-----------------------------------------------------------------------------

\* Mutant of Register: shown, but not remembered.
RegisterNothing(S) == UNCHANGED cache

\* previewCache.register, for every row of S: of two rows with one short id
\* the one registered last stays.
Register(S) ==
  LET ids == {ShortID[t] : t \in S}
  IN  cache' \in {c \in [DOMAIN cache \cup ids -> Rows] :
                   \A d \in DOMAIN c :
                     IF d \in ids THEN c[d] \in S /\ ShortID[c[d]] = d
                                  ELSE c[d] = cache[d]}

\* callPreview, of one project or of all, over the rows that match its context.
Preview(ps, matching) ==
  LET shown == Newest(UNION {Memories(p) : p \in ps} \cap matching, PreviewLimit)
  IN  /\ Register(shown)
      /\ previewed' = previewed \cup shown
      /\ UNCHANGED <<storeVars, loopVars>>

\* resolveTask: from the cache, else from the store.
Resolve(d) == IF d \in DOMAIN cache THEN cache[d] ELSE FindByShortID(d)

\* Mutant of Expand: what is not found is remembered, too.
ExpandCachesMisses(d) ==
  /\ cache' = [e \in DOMAIN cache \cup {d} |-> IF e = d THEN Resolve(d) ELSE cache[e]]
  /\ UNCHANGED <<storeVars, previewed, loopVars>>

\* callExpand: a row found in the store is registered, an unknown id is not.
Expand(d) ==
  /\ IF d \notin DOMAIN cache /\ FindByShortID(d) # NotFound
       THEN Register({FindByShortID(d)})
       ELSE UNCHANGED cache
  /\ UNCHANGED <<storeVars, previewed, loopVars>>

\* The MCP server ends with its client and is started again.
Restart ==
  /\ cache' = [d \in {} |-> NotFound]
  /\ previewed' = {}
  /\ UNCHANGED <<storeVars, loopVars>>

-----------------------------------------------------------------------------

Next ==
  \/ \E t \in Tasks : CreateTask(t) \/ UpdateTask(t)
  \/ \E h \in Requests : Inject(h) \/ Finish(h) \/ Continue(h) \/ CapHit(h)
  \/ \E ps \in {{p} : p \in Projects} \cup {Projects}, S \in SUBSET Rows : Preview(ps, S)
  \/ \E d \in Displays : Expand(d)
  \/ Restart

Spec == Init /\ [][Next]_vars

-----------------------------------------------------------------------------

\* A model that never stops asking costs MaxExpandCycles + 1 forwards at most.
LoopBounded == \A h \in Requests : forwards[h] <= MaxExpandCycles + 1

\* Whatever the MCP server has previewed can be expanded for as long as it
\* runs, under the id it gave, however many rows were inserted since and even
\* if another row has the same id.
PreviewedExpands ==
  \A t \in previewed :
    LET found == Resolve(ShortID[t])
    IN  found \in Rows /\ ShortID[found] = ShortID[t]

\* The cache only shortens the way to the store: where the proxy finds a row
\* (FindByShortID), the MCP server (resolveTask) has one with that id too, the
\* same or an older one with a colliding id, which it showed before.
ProcessesAgree ==
  \A d \in Displays :
    FindByShortID(d) # NotFound
      => /\ Resolve(d) \in {t \in Rows : ShortID[t] = d}
         /\ ~Newer(Resolve(d), FindByShortID(d))

\* What shortid.go says of short ids and the code does not do: the id of a
\* memory the proxy injects resolves in another process.
InjectedResolves ==
  [][\A h \in Requests :
       Inject(h) => \A t \in injected'[h] : FindByShortID(ShortID[t]) # NotFound]_vars

=============================================================================
